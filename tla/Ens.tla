--------------------------------- MODULE Ens ---------------------------------
(***************************************************************************)
(* ens.c, in3_ens: names are resolved by two calls of contracts, of the     *)
(* registry for the resolver and of the resolver for the address.  The     *)
(* handler runs again for every answer, and finds the calls it made by     *)
(* their data; results are kept in the cache.                              *)
(***************************************************************************)
EXTENDS Integers, Sequences, FiniteSets, TLC

CONSTANTS Name,
          Resolver,    \* addresses of resolvers
          Address,     \* other addresses
          Zero,        \* no address
          Low,         \* the addresses that begin with eight zero bytes
          Registry,    \* registries a request may name
          Default,     \* the one of the chain, or Zero
          Registered,  \* what the contracts say at first: from places to addresses
          Call,        \* requests
          MaxChanges,  \* bound of changes of the contracts
          Pending, RpcErr, None

VARIABLES contracts,  \* what the registries and the resolvers say
          cache,      \* from name and type to the address and the registry it came from
          reqs,       \* requests: what they ask for, the calls they made and their result
          said,       \* what was true since a request began: <<contract, function, name, value>>
          changes

vars == <<contracts, cache, reqs, said, changes>>

Types == {"addr", "resolver", "owner", "hash"}
Idle == [name |-> None, type |-> None, registry |-> None, subs |-> <<>>, status |-> "idle", out |-> None, from |-> None]
Place == (Registry \X {"owner", "resolver"}) \cup (Resolver \X {"addr"})
Facts(cs) == {<<p[1], p[2], n, cs[p][n]>> : p \in DOMAIN cs, n \in Name}

-----------------------------------------------------------------------------
(* find_pending_ctx, exec_call: the answer of the call with this data, which  *)
(* is made when it is not there.                                              *)
exec_call(q, data, to) ==
  IF data \notin DOMAIN q.subs THEN [q EXCEPT !.status = "waiting", !.subs = (data :> [to |-> to, answer |-> Pending]) @@ @]
  ELSE CASE q.subs[data].answer = Pending -> [q EXCEPT !.status = "waiting"]
         [] q.subs[data].answer = RpcErr -> [q EXCEPT !.status = "error"]
         [] OTHER -> [q EXCEPT !.status = "ok"]
ResultOf(q, data) == q.subs[data].answer

Fails(q) == [q EXCEPT !.status = "error"]
Done(q, a) == [q EXCEPT !.status = "done", !.out = a, !.from = q.registry]

(* Mutant: the zero address is a result like others. *)
AddressOrZero(q) ==
  LET r == exec_call(q, <<"addr", q.name>>, ResultOf(q, <<"resolver", q.name>>))
  IN  IF r.status # "ok" THEN r ELSE Done(r, ResultOf(r, <<"addr", q.name>>))

(* The second call.  The first 20 of 32 bytes must not be zero, which no      *)
(* address with eight zero bytes in front is.                                 *)
AddressOf(q) ==
  LET r == exec_call(q, <<"addr", q.name>>, ResultOf(q, <<"resolver", q.name>>))
  IN  IF r.status # "ok" THEN r
      ELSE IF ResultOf(r, <<"addr", q.name>>) \in Low \cup {Zero} THEN Fails(r) ELSE Done(r, ResultOf(r, <<"addr", q.name>>))

(* ens_resolve behind the look into the cache. *)
ens_resolve(q) ==
  LET fn == IF q.type = "owner" THEN "owner" ELSE "resolver"
      r == exec_call(q, <<fn, q.name>>, q.registry)
  IN  CASE q.type = "hash" -> Done(q, <<"hash", q.name>>)
        [] q.type # "hash" /\ q.registry = Zero -> Fails(q)
        [] OTHER -> IF r.status # "ok" THEN r
                    ELSE IF ResultOf(r, <<fn, q.name>>) = Zero THEN Fails(r)
                    ELSE IF q.type \in {"owner", "resolver"} THEN Done(r, ResultOf(r, <<fn, q.name>>))
                    ELSE AddressOf(r)

(* Mutant: the type is not part of the key. *)
KeyOfName(q) == <<q.name, "addr">>

(* The key does not name the registry. *)
KeyOf(q) == <<q.name, q.type>>

-----------------------------------------------------------------------------
Ask(c, n, type, reg) ==
  /\ reqs[c].status = "idle"
  /\ reqs' = [reqs EXCEPT ![c] = [Idle EXCEPT !.name = n, !.type = type, !.registry = reg, !.status = "run"]]
  /\ said' = [said EXCEPT ![c] = Facts(contracts)]
  /\ UNCHANGED <<contracts, cache, changes>>

Run(c) ==
  /\ reqs[c].status = "run"
  /\ LET q == reqs[c]
         hit == KeyOf(q) \in DOMAIN cache
         r == IF hit THEN [Done(q, cache[KeyOf(q)].out) EXCEPT !.from = "cache"] ELSE ens_resolve(q)
     IN  /\ reqs' = [reqs EXCEPT ![c] = r]
         /\ cache' = IF r.status = "done" /\ ~hit /\ q.type # "hash" THEN (KeyOf(q) :> [out |-> r.out, from |-> q.registry]) @@ cache ELSE cache
  /\ UNCHANGED <<contracts, said, changes>>

(* The contract says what it says now, or the call fails; a contract that     *)
(* does not know the function fails too.  Then the request runs again.        *)
Answer(c, data, fails) ==
  /\ reqs[c].status = "waiting" /\ data \in DOMAIN reqs[c].subs /\ reqs[c].subs[data].answer = Pending
  /\ LET p == <<reqs[c].subs[data].to, data[1]>>
     IN  reqs' = [reqs EXCEPT ![c].status = "run",
                    ![c].subs[data].answer = IF fails \/ p \notin DOMAIN contracts THEN RpcErr ELSE contracts[p][data[2]]]
  /\ UNCHANGED <<contracts, cache, said, changes>>

Changed(p, n, a) ==
  /\ changes < MaxChanges /\ changes' = changes + 1
  /\ contracts' = [contracts EXCEPT ![p][n] = a]
  /\ said' = [c \in Call |-> said[c] \cup Facts(contracts')]
  /\ UNCHANGED <<cache, reqs>>

Init ==
  /\ contracts = [p \in Place |-> [n \in Name |-> IF p \in DOMAIN Registered THEN Registered[p] ELSE Zero]]
  /\ cache = <<>> /\ changes = 0
  /\ reqs = [c \in Call |-> Idle] /\ said = [c \in Call |-> {}]

ValuesAt(p) == IF p[2] = "resolver" THEN Resolver ELSE Address

Next ==
  \/ \E c \in Call, n \in Name, type \in Types, reg \in Registry \cup {Default} : Ask(c, n, type, reg)
  \/ \E c \in Call : Run(c) \/ \E data \in DOMAIN reqs[c].subs, fails \in BOOLEAN : Answer(c, data, fails)
  \/ \E p \in Place, n \in Name : \E a \in ValuesAt(p) : Changed(p, n, a)

Spec == Init /\ [][Next]_vars

-----------------------------------------------------------------------------
True(S, reg, name, type, out) ==
  IF type = "addr" THEN \E r \in Resolver : <<reg, "resolver", name, r>> \in S /\ <<r, "addr", name, out>> \in S
  ELSE <<reg, type, name, out>> \in S

(* A name is resolved to what the registry, or the resolver it named, said of *)
(* it since the request began, however the contracts change between the two   *)
(* calls; the cache holds such results of earlier requests, though it does    *)
(* not tell their registries apart; and nobody is given the zero address.     *)
NamesResolve ==
  /\ \A c \in Call :
       LET q == reqs[c]
       IN  q.status = "done" /\ q.type # "hash" =>
             /\ q.out # Zero
             /\ IF q.from = "cache" THEN \E d \in Call, reg \in Registry \cup {Default} : True(said[d], reg, q.name, q.type, q.out)
                ELSE True(said[c], q.registry, q.name, q.type, q.out)
  /\ \A k \in DOMAIN cache : \E c \in Call : True(said[c], cache[k].from, k[1], k[2], cache[k].out)
=============================================================================
