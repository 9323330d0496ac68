------------------------------ MODULE NodeSelect ------------------------------
(***************************************************************************)
(* The default node selection of the IN3 client: nodeselect/full, that is   *)
(* nodelist.c, the handlers of nodeselect_def.c and the stored copy of the  *)
(* list in cache.c.                                                        *)
(*                                                                         *)
(* One in3_nodeselect_def_t ("data") is shared by all requests of a chain,  *)
(* of one client or, through the registry of lists, of many.  Every plugin  *)
(* action is executed under the mutex of the list, so an action of the      *)
(* model is one call of in3_nodeselect_handle_action.  A call that adds a    *)
(* required context executes it before it returns: then the mutex is kept   *)
(* over the steps of the model.  What one call writes down (positions in    *)
(* the list, the parameters of an update) may be stale in the next one.     *)
(*                                                                         *)
(* The registry contract is the sequence of lists Registry; world is the    *)
(* block of its last change.  Nodes outside of Liars report world and       *)
(* deliver the list of world.                                               *)
(***************************************************************************)
EXTENDS Naturals, Sequences, FiniteSets, SequencesExt

CONSTANTS Addr,         \* addresses of nodes
          NoAddr,       \* the zero address
          Boot,         \* addresses of the boot nodes, in their order
          Registry,     \* the lists of the contract, one per change: [addr, index]
          WhiteLists,   \* the addresses in the whitelist contract, per change
          WhiteMode,    \* "none", "manual" or "contract"
          Liars,        \* nodes that may report or deliver another block
          Unfit,        \* nodes with too small a deposit or without the needed props
          RegisterTime, \* when a node was registered
          Performance,  \* blacklisted_until delivered with FLAGS_BOOT_WEIGHTS, or 0
          Preselected,  \* preselect_nodes, {} if not set
          Filters,      \* sets of dataNodes the requests of the user ask for, {}: any
          RequestCount, \* nodes asked per request
          SigCount,     \* in3_t.signature_count
          Day,          \* BLACKLISTTIME, in units of the model's clock
          StartTime,    \* when the program is started
          MaxTime,      \* bound of the clock
          Req,          \* requests
          NoReq,        \* none of them
          AutoUpdate,   \* FLAGS_AUTO_UPDATE_LIST
          Storage,      \* a cache plugin is registered
          Proof,        \* node lists are verified
          Restarts      \* number of restarts of the program

Blocks == DOMAIN Registry
Count  == IF SigCount > 0 /\ RequestCount <= 1 THEN 2 ELSE RequestCount

ASSUME AddrAssumption    == NoAddr \notin Addr /\ Liars \subseteq Addr /\ Unfit \subseteq Addr
ASSUME BootAssumption    == Boot \in Seq(Addr) /\ Boot # <<>>
ASSUME ListAssumption    ==
  /\ Registry \in Seq(Seq([addr : Addr, index : Nat])) /\ Registry # <<>>
  /\ \A b \in Blocks : Registry[b] # <<>>
ASSUME WhiteAssumption   ==
  WhiteMode \in {"none", "manual", "contract"} /\ WhiteLists \in [Blocks -> Seq(Addr)]
ASSUME TimeAssumption    ==
  /\ Day \in Nat \ {0} /\ StartTime \in Nat \ {0} /\ MaxTime \in Nat /\ StartTime <= MaxTime
  /\ RegisterTime \in [Addr -> Nat] /\ Performance \in [Addr -> Nat]
ASSUME RequestAssumption ==
  /\ Filters \subseteq SUBSET Addr /\ Preselected \subseteq Addr
  /\ RequestCount \in Nat \ {0} /\ SigCount \in Nat /\ Restarts \in Nat
ASSUME FlagAssumption    == {AutoUpdate, Storage, Proof} \subseteq BOOLEAN

VARIABLES data,    \* the in3_nodeselect_def_t
          stored,  \* what the cache plugin keeps of the list
          req,     \* the requests
          mutex,   \* the mutex of the list, while a call executes a required context:
                   \* its owner, and the context the call was made for
          now,     \* in3_time
          world,   \* block of the last change of the registry contract
          restarts \* restarts left

vars == <<data, stored, req, mutex, now, world, restarts>>

-----------------------------------------------------------------------------
(* in3_node_t together with its in3_node_weight_t; index counts from 1.      *)
Node(a, index, boot, until) ==
  [addr |-> a, index |-> index, boot |-> boot, white |-> FALSE, blocked |-> FALSE,
   until |-> until]

Nodes == [addr : Addr, index : Nat, boot : BOOLEAN, white : BOOLEAN, blocked : BOOLEAN,
          until : Nat]

(* nodelist_upd8_params; set is FALSE for NULL. *)
Update(e, t, a) == [set |-> TRUE, exp |-> e, ts |-> t, node |-> a]
NoUpdate        == [set |-> FALSE, exp |-> 0, ts |-> 0, node |-> NoAddr]

(* node_offline_t; dangling: the node it points to has been freed. *)
Offline == [addr : Addr, reporter : Addr, dangling : BOOLEAN]

(* A required in3_nodeList or in3_whiteList context.  state "pick": nodes    *)
(* have to be picked; "waiting": sent; else how it ended: block and shape     *)
(* describe the result.  only is its dataNodes (NoAddr: any), node the node   *)
(* picked for it.                                                             *)
SubStates == {"pick", "waiting", "ok", "empty", "error"}
Shapes    == {"full", "incomplete", "badNode"}
Subs      == [kind : {"nodeList", "whiteList"}, state : SubStates,
              only : Addr \cup {NoAddr}, node : Addr \cup {NoAddr}, block : Nat, shape : Shapes]

NewSub(kind, a) == [kind |-> kind, state |-> "pick", only |-> a, node |-> NoAddr,
                    block |-> 0, shape |-> "full"]

(* node_match_t *)
Match == [pos : Nat \ {0}, addr : Addr]

(* A request of the user: its stage, the required contexts behind it, the     *)
(* nodes picked and not yet rejected, and the signers.                        *)
Idle == [st |-> "idle", subs |-> <<>>, filter |-> {}, nodes |-> {}, signers |-> <<>>,
         since |-> 0]

TypeOK ==
  /\ data \in [list : Seq(Nodes), last : Nat,
               upd : [set : BOOLEAN, exp : Nat, ts : Nat, node : Addr \cup {NoAddr}],
               offlines : Seq(Offline), dirty : BOOLEAN,
               wl : [needs : BOOLEAN, last : Nat, addrs : Seq(Addr)]]
  /\ stored \in [last : Nat, list : Seq(Nodes), wlLast : Nat, wlAddrs : Seq(Addr)]
  /\ req \in [Req -> [st : {"idle", "updating", "data", "sent"}, subs : Seq(Subs),
                      filter : SUBSET Addr, nodes : SUBSET Match, signers : Seq(Addr),
                      since : Nat]]
  /\ mutex \in [owner : Req \cup {NoReq}, base : Nat]
  /\ now \in StartTime..MaxTime
  /\ world \in Blocks
  /\ restarts \in 0..Restarts

-----------------------------------------------------------------------------
(* Operations on the list.  d is the value of data. *)

AddrsOf(list) == {list[i].addr : i \in DOMAIN list}

Positions(list, a) == {i \in DOMAIN list : list[i].addr = a}

First(S) == CHOOSE i \in S : \A j \in S : i <= j

(* Mutant: the list is not marked dirty. *)
BlacklistUnsaved(d, k) ==
  IF k \notin DOMAIN d.list \/ d.list[k].blocked THEN d
  ELSE [d EXCEPT !.list[k].until = now + Day, !.list[k].blocked = TRUE]

(* blacklist_node: position k (from the node's own index) is banned for a    *)
(* day, unless it has been banned since it was last picked.                  *)
Blacklist(d, k) ==
  IF k \notin DOMAIN d.list \/ d.list[k].blocked THEN d
  ELSE [d EXCEPT !.list[k].until = now + Day, !.list[k].blocked = TRUE,
                 !.dirty = @ \/ d.list[k].until # now + Day]

(* blacklist_node_addr *)
BlacklistAddr(d, a) ==
  LET at == Positions(d.list, a)
  IN  IF at = {} THEN d ELSE Blacklist(d, d.list[First(at)].index)

(* in3_client_run_chain_whitelisting: the offset runs in steps of 20 up to    *)
(* the number of addresses, not up to the number of bytes.                    *)
Whitelisted(addrs) == {addrs[j] : j \in {i \in DOMAIN addrs : 20 * (i - 1) < Len(addrs)}}

(* Mutant: flags are set, and never cleared. *)
RunWhitelistingAdds(d) ==
  [d EXCEPT !.list = [i \in DOMAIN d.list |->
     [d.list[i] EXCEPT !.white = @ \/ d.list[i].addr \in Whitelisted(d.wl.addrs)]]]

RunWhitelisting(d) ==
  IF WhiteMode = "none" THEN d
  ELSE [d EXCEPT !.list = [i \in DOMAIN d.list |->
          [d.list[i] EXCEPT !.white = d.list[i].addr \in Whitelisted(d.wl.addrs)]]]

(* Mutant: the weights are taken over by position. *)
OldWeightByPosition(list, i, a) == IF i \in DOMAIN list THEN list[i].until ELSE 0

(* The blacklisted_until a node of the new list starts with: the one it had,  *)
(* or the delivered one.                                                      *)
OldWeight(list, i, a) ==
  LET at == Positions(list, a)
  IN  IF i \in at THEN list[i].until
      ELSE IF at # {} THEN list[First(at)].until
      ELSE Performance[a]

(* A newly registered node has to wait for a day. *)
NewUntil(list, i, a) ==
  IF RegisterTime[a] + Day > now /\ now > RegisterTime[a] THEN RegisterTime[a] + Day
  ELSE OldWeight(list, i, a)

(* Mutant: an older list is accepted. *)
AnyBlock(d, b) == TRUE

(* last_block > data->last_block *)
NewerBlock(d, b) == b > d.last

(* Mutant: the list is replaced and last_block is not. *)
FillChainOldBlock(d, b) ==
  IF ~NewerBlock(d, b) THEN d
  ELSE [d EXCEPT !.list = [i \in DOMAIN Registry[b] |->
                             Node(Registry[b][i].addr, Registry[b][i].index, FALSE,
                                  NewUntil(d.list, i, Registry[b][i].addr))],
                 !.dirty = TRUE]

(* fill_chain with a well formed result; entries of offlines keep pointing   *)
(* into the old list.                                                        *)
FillChain(d, b) ==
  IF ~NewerBlock(d, b) THEN d
  ELSE [d EXCEPT
          !.last = b,
          !.list = [i \in DOMAIN Registry[b] |->
                      Node(Registry[b][i].addr, Registry[b][i].index, FALSE,
                           NewUntil(d.list, i, Registry[b][i].addr))],
          !.offlines = [i \in DOMAIN d.offlines |-> [d.offlines[i] EXCEPT !.dangling = TRUE]],
          !.dirty = TRUE]

(* fill_chain, when a node of the result has no address or no url. *)
FillChainFails(d, b) == IF NewerBlock(d, b) THEN [d EXCEPT !.last = b, !.dirty = TRUE] ELSE d

(* What in3_cache_store_nodelist writes and in3_cache_update_nodelist reads. *)
Stripped(list) == [i \in DOMAIN list |-> Node(list[i].addr, list[i].index, FALSE, list[i].until)]

Store(d, c) ==
  IF Storage /\ d.dirty THEN [c EXCEPT !.last = d.last, !.list = Stripped(d.list)] ELSE c

Clean(d) == IF Storage THEN [d EXCEPT !.dirty = FALSE] ELSE d

StoreWhitelist(d, c) ==
  IF Storage THEN [c EXCEPT !.wlLast = d.wl.last, !.wlAddrs = d.wl.addrs] ELSE c

-----------------------------------------------------------------------------
(* in3_node_list_get for the context at level k of a request: 0 is the       *)
(* request, k its k-th required context.  s holds the list d, the stored      *)
(* copy c, the required contexts and the return value ret.                    *)

(* req_find_required: position of the first context of the kind behind k. *)
FindSub(subs, k, kind) ==
  LET at == {j \in DOMAIN subs : j > k /\ subs[j].kind = kind}
  IN  IF at = {} THEN 0 ELSE First(at)

(* req_add_required, which executes the new context next. *)
AddSub(s, k, sub) == [s EXCEPT !.subs = InsertAt(s.subs, k + 1, sub), !.ret = "EXEC"]

(* req_remove_required with all contexts behind it. *)
RemoveSub(subs, j) == SubSeq(subs, 1, j - 1)

NotFirst(d) == d.upd.set /\ d.upd.exp # 0

Postponed(d) == d.upd.set /\ d.upd.ts > now

(* The node that reported the update is banned, the update is forgotten:      *)
(* the error branch of update_nodelist, and handle_failable.                  *)
DropUpdate(d) ==
  [(IF NotFirst(d) THEN BlacklistAddr(d, d.upd.node) ELSE d) EXCEPT !.upd = NoUpdate]

(* nodelist_exp_last_block_neq: the reporter of another block is banned. *)
CheckBlock(d, b) ==
  [(IF d.upd.set /\ d.upd.exp # b THEN BlacklistAddr(d, d.upd.node) ELSE d)
     EXCEPT !.upd = NoUpdate]

(* case REQ_SUCCESS of update_nodelist, for the answered context at j. *)
ApplyNodelist(s, j) ==
  LET sub == s.subs[j]
      b   == IF sub.shape = "incomplete" THEN 0 ELSE sub.block
      d   == CheckBlock(s.d, b)
  IN  CASE sub.shape = "incomplete" -> [s EXCEPT !.d = d, !.ret = "ERR"]
        [] sub.shape = "badNode" /\ NewerBlock(d, b) ->
             [s EXCEPT !.d = FillChainFails(d, b), !.ret = "ERR"]
        [] OTHER ->
             [s EXCEPT !.d = RunWhitelisting(Clean(FillChain(d, b))),
                       !.c = Store(FillChain(d, b), s.c),
                       !.subs = RemoveSub(s.subs, j)]

UpdateNodelist(s, k) ==
  LET j == FindSub(s.subs, k, "nodeList")
  IN  CASE j = 0 -> AddSub(s, k, NewSub("nodeList", IF NotFirst(s.d) THEN s.d.upd.node ELSE NoAddr))
        [] j # 0 /\ s.subs[j].state = "empty" -> [s EXCEPT !.d = DropUpdate(s.d)]
        [] j # 0 /\ s.subs[j].state = "ok"    -> ApplyNodelist(s, j)

(* in3_client_fill_chain_whitelist *)
FillWhitelist(d, b) ==
  IF b > d.wl.last THEN RunWhitelisting([d EXCEPT !.wl.last = b, !.wl.addrs = WhiteLists[b]]) ELSE d

UpdateWhitelist(s, k) ==
  LET j == FindSub(s.subs, k, "whiteList")
      d == FillWhitelist(s.d, s.subs[j].block)
  IN  CASE j = 0 -> AddSub(s, k, NewSub("whiteList", NoAddr))
        [] j # 0 /\ (s.subs[j].state = "empty" \/ s.subs[j].shape = "incomplete") ->
             [s EXCEPT !.ret = "ERR"]
        [] OTHER -> [s EXCEPT !.d = RunWhitelisting(d), !.c = StoreWhitelist(d, s.c),
                              !.subs = RemoveSub(s.subs, j)]

(* update_in_progress: the context is itself the request for the list. *)
UpdateInProgress(s, k) == k # 0 /\ s.subs[k].kind = "nodeList"

WantsNodelist(s, k) ==
  /\ s.d.upd.set \/ FindSub(s.subs, k, "nodeList") # 0
  /\ ~Postponed(s.d) /\ ~UpdateInProgress(s, k)

WantsWhitelist(s, k) ==
  WhiteMode = "contract" /\ (s.d.wl.needs \/ FindSub(s.subs, k, "whiteList") # 0)

NodeListGet(s, k) ==
  LET s1 == IF WantsNodelist(s, k) THEN UpdateNodelist(s, k) ELSE s
  IN  IF s1.ret = "OK" /\ WantsWhitelist(s1, k)
      THEN UpdateWhitelist([s1 EXCEPT !.d.wl.needs = FALSE], k) ELSE s1

-----------------------------------------------------------------------------
(* in3_node_list_pick_nodes *)

Allowed(S, a) == S = {} \/ a \in S

Banned(d, i) == d.list[i].until > now

(* in3_node_list_fill_weight: positions of the nodes that may be picked. *)
Matching(d, pre, only, without) ==
  {i \in DOMAIN d.list :
     LET n == d.list[i]
     IN  /\ Allowed(pre, n.addr) /\ Allowed(only, n.addr) /\ n.addr \notin without
         /\ ~Banned(d, i)
         /\ \/ n.boot
            \/ (WhiteMode = "none" \/ n.white) /\ n.addr \notin Unfit}

(* Mutant: bans are only lifted when more than all nodes are banned. *)
NeverTooMany(d) == Cardinality({i \in DOMAIN d.list : Banned(d, i)}) > Len(d.list)

(* blacklisted > all_nodes_len / 2 *)
TooManyBanned(d) == Cardinality({i \in DOMAIN d.list : Banned(d, i)}) > Len(d.list) \div 2

LiftBans(d) == [d EXCEPT !.list = [i \in DOMAIN d.list |-> [d.list[i] EXCEPT !.until = 0]]]

Unblock(d, S) ==
  [d EXCEPT !.list = [i \in DOMAIN d.list |-> [d.list[i] EXCEPT !.blocked = @ /\ i \notin S]]]

(* The nodes to choose from, and the list after the search. *)
Search(d, only, without) ==
  LET found == Matching(d, Preselected, only, without)
      lift  == found = {} /\ (TooManyBanned(d) \/ Preselected # {})
      again == Matching(LiftBans(d), {}, only, without)
  IN  IF lift THEN [found |-> again, d |-> Unblock(LiftBans(d), again)]
      ELSE [found |-> found, d |-> Unblock(d, found)]

(* The random choice: as many as asked for, or all there are. *)
Draws(found, n) ==
  {S \in SUBSET found :
     Cardinality(S) = IF Cardinality(found) < n THEN Cardinality(found) ELSE n}

(* The order in which they were drawn. *)
Orders(S) == {f \in [1..Cardinality(S) -> S] : IsInjective(f)}

-----------------------------------------------------------------------------
(* PLGN_ACT_NL_PICK *)

SetReq(r, v) == req' = [req EXCEPT ![r] = v]

Free == [owner |-> NoReq, base |-> 0]

(* The mutex of the list can be taken (it is recursive). *)
CanLock(r) == mutex.owner \in {NoReq, r}

(* The context whose nodes are to be picked: the deepest that has none. *)
Level(subs, k) ==
  /\ k # 0 => subs[k].state = "pick"
  /\ \A j \in DOMAIN subs : j > k => subs[j].state # "pick"

(* in3_req_execute reaches select_nodes of the context at k: nothing it       *)
(* requires is under way, and it has neither nodes nor a reason to skip them. *)
CanPick(r, k) ==
  /\ CanLock(r)
  /\ req[r].st \in {"updating", "data"}
  /\ \A i \in DOMAIN req[r].subs : req[r].subs[i].state \notin {"waiting", "error"}
  /\ Level(req[r].subs, k)
  /\ k = 0 => (req[r].st = "data" /\ SigCount > 0) \/ (req[r].st = "updating" /\ req[r].nodes = {})

(* What in3_node_list_get does for the context at k. *)
Getting(r, k) == NodeListGet([d |-> data, c |-> stored, subs |-> req[r].subs, ret |-> "OK"], k)

(* The search for data nodes, or for signers, which are not data nodes too. *)
Searching(r, k, d) ==
  IF k # 0 THEN Search(d, {req[r].subs[k].only} \ {NoAddr}, {})
  ELSE IF req[r].st = "data" THEN Search(d, {}, {m.addr : m \in req[r].nodes})
  ELSE Search(d, req[r].filter, {})

(* A new request of the user. *)
Start(r) ==
  /\ req[r].st = "idle"
  /\ \E f \in Filters : SetReq(r, [Idle EXCEPT !.st = "updating", !.filter = f, !.since = now])
  /\ UNCHANGED <<data, stored, mutex, now, world, restarts>>

(* The list is to be updated first: a required context is added, and is       *)
(* executed before the mutex is released.                                     *)
PickUpdates(r) ==
  \E k \in 0..Len(req[r].subs) :
    /\ CanPick(r, k)
    /\ LET s == Getting(r, k)
       IN  /\ s.ret = "EXEC"
           /\ data' = s.d /\ stored' = s.c
           /\ SetReq(r, [req[r] EXCEPT !.subs = s.subs])
           /\ mutex' = IF mutex.owner = r THEN mutex ELSE [owner |-> r, base |-> k]
    /\ UNCHANGED <<now, world, restarts>>

(* The context of the call that took the mutex fails: a node list may fail,   *)
(* anything else makes the request fail.                                      *)
FailLevel(r, k) ==
  LET base == IF mutex.owner = r THEN mutex.base ELSE k
  IN  SetReq(r, IF base # 0 /\ req[r].subs[base].kind = "nodeList"
                THEN [req[r] EXCEPT !.subs[base].state = "error"] ELSE Idle)

(* The update failed, or no node is found. *)
PickFails(r) ==
  \E k \in 0..Len(req[r].subs) :
    /\ CanPick(r, k)
    /\ LET s == Getting(r, k)
           f == Searching(r, k, s.d)
       IN  /\ \/ s.ret = "ERR" /\ data' = s.d
              \/ s.ret = "OK" /\ f.found = {} /\ data' = f.d
           /\ stored' = s.c
    /\ FailLevel(r, k)
    /\ mutex' = Free
    /\ UNCHANGED <<now, world, restarts>>

(* pick_data for the request *)
PickData(r) ==
  /\ CanPick(r, 0) /\ req[r].st = "updating"
  /\ LET s == Getting(r, 0)
         f == Searching(r, 0, s.d)
     IN  /\ s.ret = "OK" /\ f.found # {}
         /\ data' = f.d /\ stored' = s.c
         /\ \E S \in Draws(f.found, Count) :
              SetReq(r, [req[r] EXCEPT !.st = "data", !.subs = s.subs,
                           !.nodes = {[pos |-> i, addr |-> f.d.list[i].addr] : i \in S}])
  /\ UNCHANGED <<mutex, now, world, restarts>>

(* pick_signer for the request *)
PickSigner(r) ==
  /\ CanPick(r, 0) /\ req[r].st = "data"
  /\ LET s == Getting(r, 0)
         f == Searching(r, 0, s.d)
     IN  /\ s.ret = "OK" /\ f.found # {}
         /\ data' = f.d /\ stored' = s.c
         /\ \E S \in Draws(f.found, SigCount) : \E order \in Orders(S) :
              SetReq(r, [req[r] EXCEPT !.st = "sent", !.subs = s.subs,
                           !.signers = [j \in DOMAIN order |-> f.d.list[order[j]].addr]])
  /\ UNCHANGED <<mutex, now, world, restarts>>

(* No signature is needed; or select_nodes finds nodes, because an update     *)
(* became necessary between the choice of the data nodes and of the signers.  *)
SendUnsigned(r) ==
  /\ CanLock(r)
  /\ \A i \in DOMAIN req[r].subs : req[r].subs[i].state \notin {"pick", "waiting", "error"}
  /\ \/ req[r].st = "data" /\ SigCount = 0
     \/ req[r].st = "updating" /\ req[r].nodes # {}
  /\ SetReq(r, [req[r] EXCEPT !.st = "sent"])
  /\ UNCHANGED <<data, stored, mutex, now, world, restarts>>

(* Mutant: the mutex is kept when the call returns IN3_WAITING. *)
PickForSubLocked(r) ==
  \E k \in DOMAIN req[r].subs :
    /\ CanPick(r, k)
    /\ LET s == Getting(r, k)
           f == Searching(r, k, s.d)
       IN  /\ s.ret = "OK" /\ f.found # {}
           /\ data' = f.d /\ stored' = s.c
           /\ \E i \in f.found :
                SetReq(r, [req[r] EXCEPT !.st = "updating",
                   !.subs = [s.subs EXCEPT ![k].state = "waiting", ![k].node = f.d.list[i].addr]])
    /\ UNCHANGED <<mutex, now, world, restarts>>

(* The nodes of a required context; it is sent and the mutex released.  The   *)
(* request, which may have picked its data nodes already, waits.              *)
PickForSub(r) ==
  \E k \in DOMAIN req[r].subs :
    /\ CanPick(r, k)
    /\ LET s == Getting(r, k)
           f == Searching(r, k, s.d)
       IN  /\ s.ret = "OK" /\ f.found # {}
           /\ data' = f.d /\ stored' = s.c
           /\ \E i \in f.found :
                SetReq(r, [req[r] EXCEPT !.st = "updating",
                   !.subs = [s.subs EXCEPT ![k].state = "waiting", ![k].node = f.d.list[i].addr]])
    /\ mutex' = Free
    /\ UNCHANGED <<now, world, restarts>>

-----------------------------------------------------------------------------
(* The required contexts: what the nodes answer (external), PLGN_ACT_NL_-     *)
(* BLACKLIST for their nodes and PLGN_ACT_NL_FAILABLE.                        *)

(* Blocks whose list a node may deliver. *)
Delivers(a) == IF a \in Liars THEN 1..world ELSE {world}

SubAnswers(r) ==
  \E j \in DOMAIN req[r].subs :
    /\ req[r].subs[j].state = "waiting"
    /\ \E b \in Delivers(req[r].subs[j].node),
          sh \in IF Proof THEN {"full"} ELSE Shapes, st \in {"ok", "empty"} :
         SetReq(r, [req[r] EXCEPT !.subs[j].state = st, !.subs[j].block = b, !.subs[j].shape = sh])
    /\ UNCHANGED <<data, stored, mutex, now, world, restarts>>

(* The answer is rejected and the node banned; the context tries again, with  *)
(* nodes picked anew, or has used up its attempts.                            *)
SubRejected(r) ==
  /\ CanLock(r)
  /\ \E j \in DOMAIN req[r].subs :
       /\ req[r].subs[j].state = "waiting"
       /\ data' = BlacklistAddr(data, req[r].subs[j].node)
       /\ \/ SetReq(r, [req[r] EXCEPT !.subs[j].state = "pick", !.subs[j].node = NoAddr])
          \/ SetReq(r, IF req[r].subs[j].kind = "nodeList"
                       THEN [req[r] EXCEPT !.subs[j].state = "error"] ELSE Idle)
  /\ UNCHANGED <<stored, mutex, now, world, restarts>>

(* handle_failable: the request goes on without the update. *)
Failable(r) ==
  /\ CanLock(r)
  /\ \E j \in DOMAIN req[r].subs :
       /\ req[r].subs[j].state = "error"
       /\ data' = DropUpdate(data)
       /\ SetReq(r, [req[r] EXCEPT !.subs = RemoveSub(req[r].subs, j)])
  /\ UNCHANGED <<stored, mutex, now, world, restarts>>

-----------------------------------------------------------------------------
(* The answers of the nodes of a request *)

(* The answer of m is out; after the last one the request has failed (it may  *)
(* be tried again, which is a new request here).                              *)
Rejected(r, m) ==
  SetReq(r, IF req[r].nodes = {m} THEN Idle ELSE [req[r] EXCEPT !.nodes = @ \ {m}])

Answering(r, m) == CanLock(r) /\ req[r].st = "sent" /\ m \in req[r].nodes

(* PLGN_ACT_NL_BLACKLIST: an answer can not be accepted. *)
Reject(r) ==
  \E m \in req[r].nodes :
    /\ Answering(r, m)
    /\ data' = BlacklistAddr(data, m.addr)
    /\ Rejected(r, m)
    /\ UNCHANGED <<stored, mutex, now, world, restarts>>

(* handle_signed_err: a signer is banned, the answer with it rejected. *)
RejectSigner(r) ==
  \E m \in req[r].nodes, i \in DOMAIN req[r].signers :
    /\ Answering(r, m)
    /\ data' = BlacklistAddr(BlacklistAddr(data, req[r].signers[i]), m.addr)
    /\ Rejected(r, m)
    /\ UNCHANGED <<stored, mutex, now, world, restarts>>

(* The address read through an entry; g is what is found in freed memory. *)
EntryAddr(e, g) == IF e.dangling THEN g ELSE e.addr

OtherReporter(e, reporter) == e.reporter # reporter

(* The loop body of handle_offline for one signer a, reported by a node.      *)
(* offline_add moves the head of the list to its end before it appends, and   *)
(* offline_remove drops every entry.                                          *)
ReportOffline(d, a, reporter, g) ==
  LET at == {i \in DOMAIN d.offlines : EntryAddr(d.offlines[i], g) = a}
  IN  IF a \notin AddrsOf(d.list) THEN d
      ELSE IF at = {} THEN
        [d EXCEPT !.offlines = <<[addr |-> a, reporter |-> reporter, dangling |-> FALSE]>>]
      ELSE IF OtherReporter(d.offlines[First(at)], reporter) THEN
        [BlacklistAddr(d, a) EXCEPT !.offlines = <<>>]
      ELSE d

(* The loop over the signers of a request. *)
HandleOffline(d, signers, missing, reporter, g) ==
  LET run[i \in 0..Len(signers)] ==
        IF i = 0 THEN d
        ELSE IF signers[i] \in missing THEN ReportOffline(run[i - 1], signers[i], reporter, g)
        ELSE run[i - 1]
  IN  run[Len(signers)]

(* PLGN_ACT_NL_OFFLINE: signatures are missing in an answer, which is         *)
(* rejected without banning the node.                                         *)
MissingSignatures(r) ==
  \E m \in req[r].nodes, missing \in (SUBSET ToSet(req[r].signers)) \ {{}}, g \in Addr :
    /\ Answering(r, m)
    /\ (g # m.addr => \E i \in DOMAIN data.offlines : data.offlines[i].dangling)
    /\ data' = HandleOffline(data, req[r].signers, missing, m.addr, g)
    /\ Rejected(r, m)
    /\ UNCHANGED <<stored, mutex, now, world, restarts>>

(* What a node may say of the block of the last change. *)
Reports(a) == IF a \in Liars THEN Blocks ELSE {world}

(* Values a block of memory that was never written to may hold. *)
Uninitialised == {Update(0, 0, NoAddr), Update(1, MaxTime, NoAddr)}

(* check_autoupdate for the match m; lnl is lastNodeList, wait the result of  *)
(* update_waittime, junk the content of fresh memory.                         *)
Autoupdate(d, m, lnl, wait, junk) ==
  IF ~AutoUpdate \/ lnl <= d.last THEN d
  ELSE IF m.pos \in DOMAIN d.list
       THEN [d EXCEPT !.upd = Update(lnl, now + wait, d.list[m.pos].addr)]
  ELSE IF ~d.upd.set THEN [d EXCEPT !.upd = junk]
  ELSE d

(* data->whitelist->needs_update *)
AutoupdateWhitelist(d, lwl) ==
  IF AutoUpdate /\ WhiteMode # "none" /\ lwl > d.wl.last THEN [d EXCEPT !.wl.needs = TRUE] ELSE d

(* What an accepted answer of m may lead to: nothing, when it is an error or  *)
(* has no in3 section, or what check_autoupdate makes of it.                  *)
Followups(m) ==
  {data} \cup
  {AutoupdateWhitelist(Autoupdate(data, m, lnl, wait, junk), lnl) :
     lnl \in Reports(m.addr), wait \in {0, 1}, junk \in Uninitialised}

(* PLGN_ACT_NL_PICK_FOLLOWUP: the answer of m is accepted, and the node list  *)
(* is stored for the weights.                                                 *)
Accept(r) ==
  \E m \in req[r].nodes :
    /\ Answering(r, m)
    /\ \E d \in Followups(m) : data' = Clean(d) /\ stored' = Store(d, stored)
    /\ SetReq(r, Idle)
    /\ UNCHANGED <<mutex, now, world, restarts>>

-----------------------------------------------------------------------------
(* init_boot_nodes: the boot nodes of the configuration, replaced by what     *)
(* the cache holds; a whitelist of the configuration.                         *)
BootList == [i \in DOMAIN Boot |-> Node(Boot[i], i, TRUE, 0)]

FreshData(c) ==
  LET cached == c.list # <<>>
      white  == c.wlAddrs # <<>> /\ WhiteMode = "contract"
  IN  RunWhitelisting(
        [list |-> IF cached THEN c.list ELSE BootList,
         last |-> IF cached THEN c.last ELSE 0,
         upd  |-> IF cached THEN NoUpdate ELSE Update(0, 0, NoAddr),
         offlines |-> <<>>, dirty |-> FALSE,
         wl |-> [needs |-> WhiteMode = "contract",
                 last  |-> IF white THEN c.wlLast ELSE 0,
                 addrs |-> IF white THEN c.wlAddrs
                           ELSE IF WhiteMode = "manual" THEN WhiteLists[1] ELSE <<>>]])

NothingStored == [last |-> 0, list |-> <<>>, wlLast |-> 0, wlAddrs |-> <<>>]

Init ==
  /\ stored = NothingStored
  /\ data = FreshData(NothingStored)
  /\ req = [r \in Req |-> Idle]
  /\ mutex = Free
  /\ now = StartTime
  /\ world = 1
  /\ restarts = Restarts

(* The program ends, at any time, and is started again. *)
Restart ==
  /\ restarts > 0
  /\ restarts' = restarts - 1
  /\ data' = FreshData(stored)
  /\ req' = [r \in Req |-> Idle]
  /\ mutex' = Free
  /\ UNCHANGED <<stored, now, world>>

(* The transport ends a request long before a day is over. *)
Tick ==
  /\ now < MaxTime
  /\ mutex = Free
  /\ \A r \in Req : req[r].st # "idle" => now + 1 < req[r].since + Day
  /\ now' = now + 1
  /\ UNCHANGED <<data, stored, req, mutex, world, restarts>>

RegistryChanges ==
  /\ world + 1 \in Blocks
  /\ world' = world + 1
  /\ UNCHANGED <<data, stored, req, mutex, now, restarts>>

Handler(r) ==
  \/ Start(r) \/ PickUpdates(r) \/ PickFails(r) \/ PickData(r) \/ PickSigner(r)
  \/ SendUnsigned(r) \/ PickForSub(r)
  \/ SubAnswers(r) \/ SubRejected(r) \/ Failable(r)
  \/ Reject(r) \/ RejectSigner(r) \/ MissingSignatures(r) \/ Accept(r)

Next == (\E r \in Req : Handler(r)) \/ Restart \/ Tick \/ RegistryChanges

Spec == Init /\ [][Next]_vars

(* The steps of a call that keeps the mutex; nothing but the code makes them. *)
Call(r) == mutex.owner = r /\ (PickUpdates(r) \/ PickFails(r) \/ PickForSub(r))

FairSpec == Spec /\ \A r \in Req : WF_vars(Call(r))

-----------------------------------------------------------------------------
(* Properties *)

(* fill_chain only takes over a newer list, and every list taken over is      *)
(* stored: whatever the order in which concurrent updates are answered, and   *)
(* wherever the program is stopped, the client never goes back to an older    *)
(* list (with a cache plugin and verified lists).                             *)
LastBlockNeverFalls == [][data'.last >= data.last]_vars

(* The list always is one the registry contract had, the one of last_block    *)
(* (fill_chain), or the boot nodes as long as there was no update: lists are  *)
(* never mixed, by an update that fails half way, by a restart or by another  *)
(* request.                                                                   *)
ListIsRegistered ==
  IF data.last = 0
  THEN Len(data.list) = Len(Boot) /\ \A i \in DOMAIN Boot : data.list[i].addr = Boot[i]
  ELSE /\ Len(data.list) = Len(Registry[data.last])
       /\ \A i \in DOMAIN data.list :
            /\ data.list[i].addr = Registry[data.last][i].addr
            /\ data.list[i].index = Registry[data.last][i].index
            /\ ~data.list[i].boot

(* A node that is banned stays banned when a new list replaces the old one    *)
(* (fill_chain finds its weight again by the address, wherever it is in the   *)
(* new list), unless the same call lifts all bans.                            *)
UpdateKeepsBans == [][
  (restarts' = restarts /\ data'.last # data.last) =>
    \/ \A i \in DOMAIN data'.list : data'.list[i].until = 0
    \/ \A i \in DOMAIN data.list :
         (Banned(data, i) /\ data.list[i].addr \in AddrsOf(data'.list)) =>
           \E j \in DOMAIN data'.list :
             data'.list[j].addr = data.list[i].addr /\ data'.list[j].until > now]_vars

(* Bans can not lock the client out (in3_node_list_pick_nodes): a request     *)
(* that accepts every node of the list finds one, however many nodes have     *)
(* been banned by whatever requests.                                          *)
NeverStarved ==
  \A r \in Req :
    (CanPick(r, 0) /\ req[r].st = "updating" /\ req[r].filter = {} /\ Unfit = {} /\ WhiteMode = "none")
      => (Getting(r, 0).ret = "OK" => Searching(r, 0, Getting(r, 0).d).found # {})

(* A ban in force is in the stored copy or the list is marked dirty, so that  *)
(* the next in3_cache_store_nodelist writes it: no ban is forgotten by a      *)
(* restart that comes after the next answer.                                  *)
BansAreSaved ==
  (Storage /\ ~data.dirty) =>
    \A i \in DOMAIN data.list : Banned(data, i) =>
      /\ i \in DOMAIN stored.list
      /\ stored.list[i].addr = data.list[i].addr
      /\ stored.list[i].until = data.list[i].until

(* Only nodes of the current whitelist carry the flag that lets them be       *)
(* picked (in3_client_run_chain_whitelisting), in whatever order node list    *)
(* and whitelist are replaced.                                                *)
WhiteFlagsSound ==
  \A i \in DOMAIN data.list : data.list[i].white => data.list[i].addr \in ToSet(data.wl.addrs)

(* Updates nested in updates come to an end: a call that executes required    *)
(* contexts under the mutex releases it.                                      *)
MutexReleased == \A r \in Req : mutex.owner = r ~> mutex.owner # r
=============================================================================
