----------------------------- MODULE NodeRegistry -----------------------------
(***************************************************************************)
(* The node lists of all clients of a process: nodelist_registry in         *)
(* nodeselect/full/nodeselect_def.c, built with THREADSAFE.                 *)
(*                                                                         *)
(* Clients of the same chain share an in3_nodeselect_def_t, found in the    *)
(* registry and counted by ref_counter.  A list has a recursive mutex that   *)
(* a call of in3_nodeselect_handle_action holds; the registry has a mutex    *)
(* of its own, taken for short sections that take no other lock, each of     *)
(* them one step here.  Every client is used by one thread.                  *)
(*                                                                         *)
(* The members of List are addresses: a freed list may come back as a new    *)
(* one.                                                                      *)
(***************************************************************************)
EXTENDS Naturals, Sequences, FiniteSets

CONSTANTS Client,    \* the clients, each with its thread
          Chain,     \* chain ids
          Local,     \* CHAIN_ID_LOCAL, set by the configuration of an rpc url
          List,      \* addresses a list can have
          NoList,    \* no list
          MaxChains, \* bound of in3_nodeselect_config_t.chains_len
          Foreign    \* the lists of other chains than the client's may need an update

ASSUME ClientAssumption  == IsFiniteSet(Client)
ASSUME ChainAssumption   == Local \in Chain
ASSUME ListAssumption    == NoList \notin List
ASSUME BoundAssumption   == MaxChains \in Nat \ {0}
ASSUME ForeignAssumption == Foreign \in BOOLEAN

VARIABLES lists,    \* the lists: allocated or not, chain_id and ref_counter
          registry, \* the lists linked from nodelist_registry
          client,   \* in3_t.chain.id and the array chains of every client
          held,     \* the mutexes the thread of a client holds, in the order taken
          pc        \* where the thread is

vars == <<lists, registry, client, held, pc>>

Ops    == {"request", "config", "change", "term", "leave"}
Points == {"none", "idle", "lock", "in", "returned", "free", "next"}

(* op: what the thread does; list: the list of the call (data); i: position   *)
(* in chains of the reference that is returned; last: needs_freeing; to: the  *)
(* chain id that is configured.                                               *)
At(at, op, l, i) == [at |-> at, op |-> op, list |-> l, i |-> i, last |-> FALSE, to |-> Local]

NoClient == At("none", "leave", NoList, 0)
Ready    == At("idle", "leave", NoList, 0)

TypeOK ==
  /\ lists \in [List -> [live : BOOLEAN, chain : Chain, ref : Nat]]
  /\ registry \subseteq List
  /\ client \in [Client -> [chain : Chain, chains : Seq(List)]]
  /\ held \in [Client -> Seq(List)]
  /\ pc \in [Client -> [at : Points, op : Ops, list : List \cup {NoList}, i : Nat,
                        last : BOOLEAN, to : Chain]]

Init ==
  /\ lists = [l \in List |-> [live |-> FALSE, chain |-> Local, ref |-> 0]]
  /\ registry = {}
  /\ client = [c \in Client |-> [chain |-> Local, chains |-> <<>>]]
  /\ held = [c \in Client |-> <<>>]
  /\ pc = [c \in Client |-> NoClient]

Goto(c, p)      == pc' = [pc EXCEPT ![c] = p]
SetChains(c, s) == client' = [client EXCEPT ![c].chains = s]

(* Mutant: the lists are never found. *)
FoundNone(ch) == {}

(* A list of the chain in the registry. *)
Found(ch) == {l \in registry : lists[l].chain = ch}

(* Mutant: the reference to a list that exists is not counted. *)
GetOrCreateUncounted(ch, l) ==
  \/ /\ l \in Found(ch)
     /\ UNCHANGED <<lists, registry>>
  \/ /\ Found(ch) = {} /\ ~lists[l].live
     /\ lists' = [lists EXCEPT ![l] = [live |-> TRUE, chain |-> ch, ref |-> 1]]
     /\ registry' = registry \cup {l}

(* nodelist_get_or_create returns l. *)
GetOrCreate(ch, l) ==
  \/ /\ l \in Found(ch)
     /\ lists' = [lists EXCEPT ![l].ref = @ + 1]
     /\ UNCHANGED registry
  \/ /\ Found(ch) = {} /\ ~lists[l].live
     /\ lists' = [lists EXCEPT ![l] = [live |-> TRUE, chain |-> ch, ref |-> 1]]
     /\ registry' = registry \cup {l}

(* in3_register_nodeselect_def of a new client *)
Register(c) ==
  /\ pc[c].at = "none"
  /\ \E ch \in Chain, l \in List :
       /\ GetOrCreate(ch, l)
       /\ client' = [client EXCEPT ![c] = [chain |-> ch, chains |-> <<l>>]]
  /\ Goto(c, Ready)
  /\ UNCHANGED held

(* in3_get_nodelist_data: position of the list for another chain, 0 if none. *)
Known(c, ch) ==
  LET at == {i \in DOMAIN client[c].chains : lists[client[c].chains[i]].chain = ch}
  IN  IF at = {} THEN 0 ELSE CHOOSE i \in at : \A j \in at : i <= j

(* An action for a request: data is the list of the client, or of the chain   *)
(* of the request.                                                            *)
RequestOwn(c) ==
  /\ pc[c].at = "idle"
  /\ Goto(c, At("lock", "request", client[c].chains[1], 0))
  /\ UNCHANGED <<lists, registry, client, held>>

RequestOther(c) ==
  /\ pc[c].at = "idle"
  /\ \E ch \in Chain \ {client[c].chain} :
       \/ /\ Known(c, ch) # 0
          /\ Goto(c, At("lock", "request", client[c].chains[Known(c, ch)], 0))
          /\ UNCHANGED <<lists, registry, client>>
       \/ /\ Known(c, ch) = 0 /\ Len(client[c].chains) < MaxChains
          /\ \E l \in List :
               /\ GetOrCreate(ch, l)
               /\ SetChains(c, Append(client[c].chains, l))
               /\ Goto(c, At("lock", "request", l, 0))
  /\ UNCHANGED held

(* nodeRegistry or rpc is configured; PLGN_ACT_CHAIN_CHANGE after the chain   *)
(* id; PLGN_ACT_TERM.                                                         *)
Configure(c) ==
  /\ pc[c].at = "idle"
  /\ \E ch \in {client[c].chain, Local} :
       Goto(c, [At("lock", "config", client[c].chains[1], 0) EXCEPT !.to = ch])
  /\ UNCHANGED <<lists, registry, client, held>>

ChangeChain(c) ==
  /\ pc[c].at = "idle"
  /\ \E ch \in Chain \ {client[c].chain} : client' = [client EXCEPT ![c].chain = ch]
  /\ Goto(c, At("lock", "change", client[c].chains[1], 1))
  /\ UNCHANGED <<lists, registry, held>>

Terminate(c) ==
  /\ pc[c].at = "idle"
  /\ Goto(c, At("lock", "term", client[c].chains[1], 1))
  /\ UNCHANGED <<lists, registry, client, held>>

(* MUTEX_LOCK(data->mutex) *)
Lock(c) ==
  /\ pc[c].at = "lock"
  /\ \A d \in Client \ {c} : \A k \in DOMAIN held[d] : held[d][k] # pc[c].list
  /\ held' = [held EXCEPT ![c] = Append(@, pc[c].list)]
  /\ Goto(c, [pc[c] EXCEPT !.at = "in"])
  /\ UNCHANGED <<lists, registry, client>>

(* The list has to be updated: update_nodelist executes the request for the   *)
(* new list before it returns.  This request has no chain id of its own, so   *)
(* its data is the list of the client.                                        *)
UpdateList(c) ==
  /\ pc[c].at = "in" /\ pc[c].op = "request" /\ Len(held[c]) = 1
  /\ Foreign \/ held[c][1] = client[c].chains[1]
  /\ Goto(c, At("lock", "request", client[c].chains[1], 0))
  /\ UNCHANGED <<lists, registry, client, held>>

(* UNLOCK_AND_RETURN *)
Leave(c) ==
  /\ pc[c].at = "in" /\ pc[c].op \in {"request", "leave"}
  /\ held' = [held EXCEPT ![c] = SubSeq(@, 1, Len(@) - 1)]
  /\ Goto(c, IF Len(held[c]) = 1 THEN Ready ELSE pc[c])
  /\ UNCHANGED <<lists, registry, client>>

(* Mutant: a list of its own is replaced too. *)
AlwaysShared(l) == TRUE

(* is_shared_nodelist *)
IsShared(l) == l \in registry

(* nodelist_seperate_from_registry: the client gets a list of its own.        *)
Separate(c) ==
  /\ pc[c].at = "in" /\ pc[c].op = "config"
  /\ IF IsShared(pc[c].list)
     THEN \E l \in List :
            /\ ~lists[l].live
            /\ lists' = [lists EXCEPT ![pc[c].list].ref = @ - 1,
                                      ![l] = [live |-> TRUE, chain |-> lists[pc[c].list].chain, ref |-> 1]]
            /\ client' = [client EXCEPT ![c] = [chain  |-> pc[c].to,
                                                chains |-> [@.chains EXCEPT ![1] = l]]]
     ELSE /\ client' = [client EXCEPT ![c].chain = pc[c].to]
          /\ UNCHANGED lists
  /\ Goto(c, [pc[c] EXCEPT !.op = "leave"])
  /\ UNCHANGED <<registry, held>>

(* Mutant: the test is off by one. *)
AlmostLast(l) == lists[l].ref <= 2

(* --ref_counter == 0 *)
IsLast(l) == lists[l].ref = 1

(* nodelist_return_or_free: the reference is given back and the last one      *)
(* unlinks the list; the mutex is released; the list is freed.                *)
ReturnReference(c) ==
  /\ pc[c].at = "in" /\ pc[c].op \in {"term", "change"}
  /\ LET l == pc[c].list
     IN  /\ lists' = [lists EXCEPT ![l].ref = @ - 1]
         /\ registry' = IF IsLast(l) THEN registry \ {l} ELSE registry
         /\ Goto(c, [pc[c] EXCEPT !.at = "returned", !.last = IsLast(l)])
  /\ UNCHANGED <<client, held>>

(* Mutant: a list that others use is released after the new one has been locked. *)
ReturnUnlockLate(c) ==
  /\ pc[c].at = "returned"
  /\ held' = IF pc[c].op = "change" /\ ~pc[c].last THEN held ELSE [held EXCEPT ![c] = <<>>]
  /\ Goto(c, [pc[c] EXCEPT !.at = IF pc[c].last THEN "free" ELSE "next"])
  /\ UNCHANGED <<lists, registry, client>>

ReturnUnlock(c) ==
  /\ pc[c].at = "returned"
  /\ held' = [held EXCEPT ![c] = <<>>]
  /\ Goto(c, [pc[c] EXCEPT !.at = IF pc[c].last THEN "free" ELSE "next"])
  /\ UNCHANGED <<lists, registry, client>>

ReturnFree(c) ==
  /\ pc[c].at = "free"
  /\ lists' = [lists EXCEPT ![pc[c].list].live = FALSE]
  /\ Goto(c, [pc[c] EXCEPT !.at = "next"])
  /\ UNCHANGED <<registry, client, held>>

(* The loop of PLGN_ACT_TERM: the next list is locked, or all are returned. *)
TermNext(c) ==
  /\ pc[c].at = "next" /\ pc[c].op = "term" /\ pc[c].i < Len(client[c].chains)
  /\ Goto(c, At("lock", "term", client[c].chains[pc[c].i + 1], pc[c].i + 1))
  /\ UNCHANGED <<lists, registry, client, held>>

TermEnd(c) ==
  /\ pc[c].at = "next" /\ pc[c].op = "term" /\ pc[c].i = Len(client[c].chains)
  /\ SetChains(c, <<>>)
  /\ Goto(c, NoClient)
  /\ UNCHANGED <<lists, registry, held>>

(* The second half of PLGN_ACT_CHAIN_CHANGE: the list of the new chain is     *)
(* taken, and locked to be initialised.                                       *)
ChangeNext(c) ==
  /\ pc[c].at = "next" /\ pc[c].op = "change"
  /\ \E l \in List :
       /\ GetOrCreate(client[c].chain, l)
       /\ SetChains(c, [client[c].chains EXCEPT ![1] = l])
       /\ Goto(c, At("lock", "leave", l, 0))
  /\ UNCHANGED held

Thread(c) ==
  \/ Register(c) \/ RequestOwn(c) \/ RequestOther(c) \/ Configure(c) \/ ChangeChain(c)
  \/ Terminate(c) \/ Lock(c) \/ UpdateList(c) \/ Leave(c) \/ Separate(c)
  \/ ReturnReference(c) \/ ReturnUnlock(c) \/ ReturnFree(c)
  \/ TermNext(c) \/ TermEnd(c) \/ ChangeNext(c)

Next == \E c \in Client : Thread(c)

Spec == Init /\ [][Next]_vars

-----------------------------------------------------------------------------
(* Properties *)

(* Position i of chains has been given back already. *)
Returned(c, i) ==
  /\ pc[c].op \in {"term", "change"}
  /\ i < pc[c].i \/ (i = pc[c].i /\ pc[c].at \in {"returned", "free", "next"})

(* Position i of chains of client c is a reference to l. *)
Keeps(c, i, l) ==
  /\ i \in DOMAIN client[c].chains /\ client[c].chains[i] = l
  /\ ~Returned(c, i)

References(l) == {r \in Client \X (1..MaxChains) : Keeps(r[1], r[2], l)}

(* ref_counter is the number of references the clients keep, at every point    *)
(* of nodelist_get_or_create, nodelist_return_or_free and                      *)
(* nodelist_seperate_from_registry.                                            *)
RefCountExact == \A l \in List : lists[l].live => lists[l].ref = Cardinality(References(l))

(* The thread of c holds the mutex of l, or goes on to use the list. *)
Uses(c, l) ==
  \/ \E k \in DOMAIN held[c] : held[c][k] = l
  \/ pc[c].at \in {"lock", "returned", "free"} /\ pc[c].list = l

Users(l) == {c \in Client : Uses(c, l)}

(* The thread that gave back the last reference, until it has freed the list. *)
Dying(c, l) == pc[c].at \in {"returned", "free"} /\ pc[c].last /\ pc[c].list = l

(* nodelist_return_or_free frees no list that any client refers to, or whose   *)
(* mutex a thread holds or waits for, and none twice.                          *)
NoUseAfterFree == \A l \in List : (Users(l) # {} \/ References(l) # {}) => lists[l].live

(* A list without references is on its way to be freed or, if its last user    *)
(* was separated from it, still in the registry, where it can be found.        *)
NoLeak ==
  \A l \in List : (lists[l].live /\ References(l) = {}) =>
    \/ l \in registry
    \/ \E c \in Client : Dying(c, l)

(* Clients of one chain share their list: the registry has, of every chain,    *)
(* one list at most, and no list that is freed.                                *)
OneListPerChain ==
  /\ \A l \in registry : lists[l].live
  /\ \A l, m \in registry : lists[l].chain = lists[m].chain => l = m

(* Lists live exactly as long as they are needed: none is freed while a client *)
(* refers to it or a thread uses it, none is lost, and the clients of a chain  *)
(* find one and the same.                                                      *)
ListsLiveExactly == NoUseAfterFree /\ NoLeak /\ OneListPerChain

Waiting(c) == pc[c].at = "lock"

(* Threads that lock nothing but the list of their call never wait for each    *)
(* other in a circle ("lock only the nodelist").                               *)
NoDeadlock ==
  \A S \in (SUBSET Client) \ {{}} :
    ~ \A c \in S : /\ Waiting(c)
                   /\ \E d \in S \ {c} : \E k \in DOMAIN held[d] : held[d][k] = pc[c].list
=============================================================================
