------------------------------ MODULE Filters ------------------------------
(***************************************************************************)
(* Filters of the client: filter.c, and the handlers of eth_basic.c that   *)
(* add, poll and remove them.  A handler is run until it has the answers   *)
(* of all sub requests it asks for; other requests of the same client run  *)
(* between two of its runs.  Every block has one log.                      *)
(***************************************************************************)
EXTENDS Integers, Sequences

CONSTANTS
  Req,         \* requests of the user
  Options,     \* options of event filters: [from, to, hash, addr, topics]
  MaxHead,     \* blocks of the chain
  MaxSlots,    \* filters at a time
  MaxInstalls, \* filters ever
  Latest, Bad, None

BlockTags == Nat \cup {None, Latest, Bad}
ASSUME BoundAssumption  == MaxHead \in Nat \ {0} /\ MaxSlots \in Nat /\ MaxInstalls \in Nat
ASSUME ValueAssumption  == {None, Latest, Bad} \cap Nat = {} /\ None # Latest /\ None # Bad /\ Latest # Bad
ASSUME OptionAssumption == \A o \in Options : o.from \in BlockTags /\ o.to \in BlockTags
ASSUME FeedAssumption   == None \notin [kind : {"event", "block"}, last : Nat, lo : Nat, hi : Nat, seen : [1..MaxHead -> Nat]]

VARIABLES
  head,      \* the last block of the chain
  slots,     \* filters->array: None or a filter
  reqs,      \* requests: the answers they have (subs), the sub requests to be sent (need)
  installs   \* filters so far

vars == <<head, slots, reqs, installs>>

Blocks == 1..MaxHead
Nothing == [b \in Blocks |-> 0]

-----------------------------------------------------------------------------
(* filter_addrs_valid, filter_topics_valid: an address has 20 bytes, a topic  *)
(* is a hash, null or a list of hashes and nulls.  An option that can not be  *)
(* read is Bad; a list is a sequence.                                         *)
filter_addrs_valid(addr) == \A i \in DOMAIN addr : addr[i] # Bad
filter_topics_valid(topics) == \A i \in DOMAIN topics : \A j \in DOMAIN topics[i] : topics[i][j] # Bad

filter_opt_valid(o) ==
  /\ o.from # Bad /\ o.to # Bad
  /\ o.hash # None => o.hash # Bad /\ o.from = None /\ o.to = None
  /\ filter_addrs_valid(o.addr)
  /\ filter_topics_valid(o.topics)

(* filter_opt_set_fromBlock: what the user gave is kept, unless overwritten. *)
filter_opt_set_fromBlock(o, block, overwrite) == IF o.from = None \/ overwrite THEN block ELSE o.from

(* filter_new; gen, torn and seen are not part of the code: which filter it   *)
(* is, whether a request that asked for an earlier filter of the slot moved   *)
(* it, and how often each block was reported.                                 *)
filter_new(type, opt, current) ==
  [type |-> type, options |-> opt, last |-> current, first |-> TRUE,
   gen |-> installs + 1, torn |-> FALSE, seen |-> Nothing]

(* Mutant: the first slot is reused, whether it is free or not. *)
AddToFirst(f) ==
  IF slots # <<>> THEN [slots EXCEPT ![1] = f] ELSE Append(slots, f)

(* The first free slot is used again. *)
AddFilter(f) ==
  LET free == {i \in DOMAIN slots : slots[i] = None}
  IN  IF free # {} THEN [slots EXCEPT ![CHOOSE i \in free : \A j \in free : i <= j] = f] ELSE Append(slots, f)

-----------------------------------------------------------------------------
(* Requests.  The sub requests are sent in the order in which they were asked *)
(* for, and the handler runs again when all of them are there.                *)
Ask(r, subs) == reqs' = [reqs EXCEPT ![r].need = subs]
End(r) == reqs' = [reqs EXCEPT ![r] = None]
Has(r, sub) == sub \in DOMAIN reqs[r].subs
Ready(r) == reqs[r] # None /\ reqs[r].need = {}

BlockNumber == <<"eth_blockNumber", None>>
GetBlock(b) == <<"eth_getBlockByNumber", b>>
Logs(from, to) == <<"eth_getLogs", from, to>>
LogsOf(r) == {s \in DOMAIN reqs[r].subs : s[1] = "eth_getLogs"}

Start(r, op, id, opt) ==
  /\ reqs[r] = None
  /\ op # "changes" => installs < MaxInstalls
  /\ op = "event" => opt \in Options
  /\ reqs' = [reqs EXCEPT ![r] = [op |-> op, id |-> id, opt |-> opt, need |-> {}, subs |-> <<>>,
                                  gen |-> IF id \in DOMAIN slots /\ slots[id] # None THEN slots[id].gen ELSE 0]]
  /\ UNCHANGED <<head, slots, installs>>

(* eth_newFilter, eth_newBlockFilter *)
filter_add(r) ==
  /\ Ready(r) /\ reqs[r].op \in {"event", "block"}
  /\ IF reqs[r].op = "event" /\ ~filter_opt_valid(reqs[r].opt) THEN End(r) /\ UNCHANGED <<slots, installs>>
     ELSE IF ~Has(r, BlockNumber) THEN Ask(r, {BlockNumber}) /\ UNCHANGED <<slots, installs>>
     ELSE /\ installs < MaxInstalls /\ installs' = installs + 1
          /\ slots' = AddFilter(filter_new(reqs[r].op, reqs[r].opt, reqs[r].subs[BlockNumber]))
          /\ Len(slots') <= MaxSlots
          /\ End(r)
  /\ UNCHANGED head

(* filter_remove: eth_uninstallFilter needs no sub request. *)
filter_remove(id) ==
  /\ id \in DOMAIN slots /\ slots[id] # None
  /\ slots' = [slots EXCEPT ![id] = None]
  /\ UNCHANGED <<head, reqs, installs>>

(* free_filters: a client that ends has no requests any more. *)
free_filters ==
  /\ \A r \in Req : reqs[r] = None
  /\ slots # <<>> /\ slots' = <<>>
  /\ UNCHANGED <<head, reqs, installs>>

-----------------------------------------------------------------------------
(* filter_get_changes *)

(* Logs are counted once. *)
Count(f, bs) == [b \in Blocks |-> IF b \in bs THEN IF f.type = "event" THEN 1 ELSE f.seen[b] + 1 ELSE f.seen[b]]
Moved(f, last, bs, r) ==
  [type |-> f.type, options |-> f.options, last |-> last, first |-> f.first /\ f.type # "event",
   gen |-> f.gen, torn |-> f.torn \/ f.gen # reqs[r].gen, seen |-> Count(f, bs)]

(* Mutant: the logs are taken to be those up to the block after. *)
EventsSkip(r, id, f, blkno) ==
  IF f.last > blkno THEN End(r) /\ UNCHANGED slots
  ELSE IF LogsOf(r) = {}
  THEN Ask(r, {Logs(filter_opt_set_fromBlock(f.options, f.last, ~f.first), f.options.to)}) /\ UNCHANGED slots
  ELSE /\ slots' = [slots EXCEPT ![id] = Moved(f, blkno + 2, reqs[r].subs[CHOOSE s \in LogsOf(r) : TRUE], r)]
       /\ End(r)

(* The logs that were asked for in an earlier run are the answer, wherever    *)
(* the cursor is by now, and whichever filter is in the slot.                 *)
EventChanges(r, id, f, blkno) ==
  IF f.last > blkno THEN End(r) /\ UNCHANGED slots
  ELSE IF LogsOf(r) = {}
  THEN Ask(r, {Logs(filter_opt_set_fromBlock(f.options, f.last, ~f.first), f.options.to)}) /\ UNCHANGED slots
  ELSE /\ slots' = [slots EXCEPT ![id] = Moved(f, blkno + 1, reqs[r].subs[CHOOSE s \in LogsOf(r) : TRUE], r)]
       /\ End(r)

(* Mutant: the blocks that are there are reported, the cursor moves on. *)
BlocksAsTheyCome(r, id, f, blkno) ==
  IF blkno <= f.last THEN End(r) /\ UNCHANGED slots
  ELSE LET new == f.last + 1..blkno
           there == {b \in new : Has(r, GetBlock(b))}
       IN  IF there = {}
           THEN Ask(r, {GetBlock(f.last + 1)}) /\ UNCHANGED slots
           ELSE slots' = [slots EXCEPT ![id] = Moved(f, blkno, there, r)] /\ End(r)

(* One sub request for each new block; the result is complete when the last   *)
(* of them needed no new one.                                                 *)
BlockChanges(r, id, f, blkno) ==
  IF blkno <= f.last THEN End(r) /\ UNCHANGED slots
  ELSE LET new == f.last + 1..blkno
           there == {b \in new : Has(r, GetBlock(b))}
       IN  IF blkno \notin there
           THEN Ask(r, {GetBlock(b) : b \in new \ there}) /\ UNCHANGED slots
           ELSE slots' = [slots EXCEPT ![id] = Moved(f, blkno, there, r)] /\ End(r)

(* eth_getFilterChanges, and eth_getFilterLogs, which does the same. *)
filter_get_changes(r) ==
  /\ Ready(r) /\ reqs[r].op = "changes"
  /\ \E id \in {reqs[r].id} :
       IF id \notin DOMAIN slots THEN End(r) /\ UNCHANGED slots
       ELSE IF ~Has(r, BlockNumber) THEN Ask(r, {BlockNumber}) /\ UNCHANGED slots
       ELSE IF slots[id] = None THEN End(r) /\ UNCHANGED slots
       ELSE IF slots[id].type = "event" THEN EventChanges(r, id, slots[id], reqs[r].subs[BlockNumber])
       ELSE BlockChanges(r, id, slots[id], reqs[r].subs[BlockNumber])
  /\ UNCHANGED <<head, installs>>

-----------------------------------------------------------------------------
Init == head = 1 /\ slots = <<>> /\ reqs = [r \in Req |-> None] /\ installs = 0

Grow == head < MaxHead /\ head' = head + 1 /\ UNCHANGED <<slots, reqs, installs>>

(* The answer of a node that is up to date: logs are those up to its own last *)
(* block, when it gets the request.                                           *)
NodeAnswer(sub) ==
  CASE sub[1] = "eth_blockNumber" -> head
    [] sub[1] = "eth_getBlockByNumber" -> sub[2]
    [] sub[1] = "eth_getLogs" -> {b \in 1..head : (IF sub[2] = Latest THEN b = head ELSE sub[2] <= b)
                                                  /\ (sub[3] \in {None, Latest} \/ b <= sub[3])}

Answer(r) ==
  /\ reqs[r] # None
  /\ \E s \in reqs[r].need :
       /\ \A x \in reqs[r].need \ {s} : s[2] < x[2]
       /\ reqs' = [reqs EXCEPT ![r].need = @ \ {s}, ![r].subs = [x \in DOMAIN @ \cup {s} |-> IF x = s THEN NodeAnswer(s) ELSE @[x]]]
  /\ UNCHANGED <<head, slots, installs>>

(* A sub request that fails for good ends the request with an error. *)
Fail(r) ==
  /\ reqs[r] # None /\ reqs[r].need # {}
  /\ End(r)
  /\ UNCHANGED <<head, slots, installs>>

Ids == 1..MaxSlots

Next ==
  \/ Grow
  \/ \E r \in Req, o \in Options : Start(r, "event", 0, o)
  \/ \E r \in Req : Start(r, "block", 0, None)
  \/ \E r \in Req, id \in Ids : Start(r, "changes", id, None)
  \/ \E r \in Req : filter_add(r) \/ filter_get_changes(r) \/ Answer(r) \/ Fail(r)
  \/ \E id \in Ids : filter_remove(id)
  \/ free_filters

Spec == Init /\ [][Next]_vars

-----------------------------------------------------------------------------
(* The filters as feeds.  No promise is made for a filter that starts at the  *)
(* block "latest", whose first poll only looks at one block, and for one that *)
(* a request moved which meant an earlier filter of the same id.              *)
Promised(f) == f # None /\ ~f.torn /\ (f.type = "event" => f.options.from # Latest)
Lower(f) == IF f.type = "event" /\ f.options.from # None THEN f.options.from ELSE 0
Upper(f) == IF f.type = "event" /\ f.options.to \notin {None, Latest} THEN f.options.to ELSE MaxHead
FeedOf(f) == [kind |-> f.type, last |-> f.last, lo |-> Lower(f), hi |-> Upper(f), seen |-> f.seen]
FeedsOf == [i \in Ids |-> IF i \in DOMAIN slots /\ Promised(slots[i]) THEN FeedOf(slots[i]) ELSE None]

F == INSTANCE Feed WITH Id <- Ids, feeds <- FeedsOf

(* filter_get_changes: polls of several requests that overlap or fail half    *)
(* way neither lose nor repeat a block behind the cursor of a block filter,   *)
(* and lose no log of an event filter in the blocks from its cursor on.  A    *)
(* filter that replaces one a poll still waits for is promised this until     *)
(* that poll moves it.                                                        *)
FiltersDeliver == F!Spec
=============================================================================
