-------------------------------- MODULE ZkPay --------------------------------
(***************************************************************************)
(* Payments for requests, zk_incentive.c: a node answers that it wants to  *)
(* be paid and makes an offer; the client signs a transfer, keeps it with  *)
(* the request, and asks the same node again.  The nodes that were paid    *)
(* are kept in the cache; once there are enough of them only they are      *)
(* selected.                                                               *)
(***************************************************************************)
EXTENDS Integers, Sequences, FiniteSets

CONSTANTS
  Node, Req,
  Offers,       \* offers of nodes: an account with its nonce, and a list of prices
  Signer,       \* the account of the signer of requests
  Token,        \* pay_criteria_t: the token,
  MaxPrice,     \* the price for a hundred units of gas, 0 for any,
  PayedNodes,   \* and the number of nodes that are paid
  Cache,        \* the client has a cache
  LongMod,      \* prices are calculated modulo this
  MaxTries,     \* bound of answers to a request
  MaxRestarts,  \* bound of restarts
  None

VARIABLES
  inc,         \* the account of payments: its address and key, an id and a nonce
  payed,       \* the addresses in the cache
  preselect,   \* preselect_nodes of the node selection
  reqs,        \* the requests: their payment, and the answers they got
  paid,        \* every payment that was signed
  restarts

vars == <<inc, payed, preselect, reqs, paid, restarts>>

-----------------------------------------------------------------------------
(* find_acceptable_offer *)

PriceOf(o) ==
  LET has == {k \in DOMAIN o.price : o.price[k].token = Token}
  IN  IF has = {} THEN None ELSE o.price[CHOOSE k \in has : \A j \in has : k <= j]

(* Mutant: the price for the whole amount. *)
WholePrice(o, p) == MaxPrice = 0 \/ (p.amount * 100) % LongMod <= MaxPrice * 100

Acceptable(o, p) == MaxPrice = 0 \/ ((p.amount * 100) % LongMod) \div o.amount <= MaxPrice

(* The first offer that is acceptable; one without amounts ends the search. *)
find_acceptable_offer(list) ==
  LET priced == {i \in DOMAIN list : PriceOf(list[i]) # None}
      broken(i) == list[i].amount = 0 \/ PriceOf(list[i]).amount = 0
      ends == {i \in priced : IF broken(i) THEN TRUE ELSE Acceptable(list[i], PriceOf(list[i]))}
      first == CHOOSE i \in ends : \A j \in ends : i <= j
  IN  IF ends = {} THEN None ELSE IF broken(first) THEN None ELSE list[first]

(* ensure_payment_data: the address comes from the signature the key is made of. *)
ensure_payment_data == [inc EXCEPT !.account = Signer]

-----------------------------------------------------------------------------
(* get_payed_addresses, update_payed_addresses, add_to_payed_nodelist *)

Preselected(list) == IF PayedNodes > Len(list) THEN None ELSE list

get_payed_addresses == IF Cache THEN payed ELSE <<>>

(* Mutant: an address is added whether or not it is there. *)
AddAlways(n) ==
  LET list == Append(get_payed_addresses, n)
  IN  payed' = (IF Cache THEN list ELSE payed) /\ preselect' = Preselected(list)

add_to_payed_nodelist(n) ==
  LET list == Append(get_payed_addresses, n)
  IN  IF \E i \in DOMAIN get_payed_addresses : get_payed_addresses[i] = n THEN UNCHANGED <<payed, preselect>>
      ELSE payed' = (IF Cache THEN list ELSE payed) /\ preselect' = Preselected(list)

(* update_nodelist_from_cache, when the plugin is initialised *)
UpdatedFromCache(pre) == IF get_payed_addresses = <<>> THEN pre ELSE Preselected(get_payed_addresses)

-----------------------------------------------------------------------------
Init ==
  /\ inc = [account |-> None, id |-> 0, nonce |-> 0]
  /\ payed = <<>> /\ preselect = None
  /\ reqs = [q \in Req |-> [payment |-> None, tries |-> 0]]
  /\ paid = {} /\ restarts = 0

(* What is kept of an offer before the rest of it is looked at. *)
Told(o) == [ensure_payment_data EXCEPT !.id = o.id, !.nonce = o.nonce]

(* Mutant: a node that asks again is paid again. *)
PayAgain(q, n, o) ==
  LET s == find_acceptable_offer(o.list)
      p == [node |-> n, to |-> s.to, from |-> Signer, id |-> o.id, nonce |-> o.nonce, amount |-> PriceOf(s).amount, units |-> s.amount,
            try |-> reqs[q].tries]
  IN  /\ s # None /\ s.to # None
      /\ inc' = Told(o)
      /\ reqs' = [reqs EXCEPT ![q] = [payment |-> p, tries |-> @.tries + 1]]
      /\ paid' = paid \cup {<<q, p>>}
      /\ add_to_payed_nodelist(n)

(* zksync_check_payment: the first time the request is refused it is paid for. *)
zksync_check_payment(q, n, o) ==
  reqs[q].payment = None /\
  LET s == find_acceptable_offer(o.list)
      p == [node |-> n, to |-> s.to, from |-> Signer, id |-> o.id, nonce |-> o.nonce, amount |-> PriceOf(s).amount, units |-> s.amount,
            try |-> reqs[q].tries]
  IN  /\ s # None /\ s.to # None
      /\ inc' = Told(o)
      /\ reqs' = [reqs EXCEPT ![q] = [payment |-> p, tries |-> @.tries + 1]]
      /\ paid' = paid \cup {<<q, p>>}
      /\ add_to_payed_nodelist(n)

(* Otherwise the refusal is an error like others, and another node is tried, *)
(* with the payment, if there is one, in its payload.                        *)
Refused(q, n, o) ==
  LET s == find_acceptable_offer(o.list)
  IN  /\ \/ (reqs[q].payment # None \/ s = None) /\ UNCHANGED inc
         \/ reqs[q].payment = None /\ s # None /\ s.to = None /\ inc' = Told(o)     (* without an address *)
      /\ reqs' = [reqs EXCEPT ![q].tries = @ + 1]
      /\ UNCHANGED <<payed, preselect, paid>>

PaymentRequired(q, n, o) ==
  /\ reqs[q].tries < MaxTries
  /\ preselect # None => \E i \in DOMAIN preselect : preselect[i] = n
  /\ zksync_check_payment(q, n, o) \/ Refused(q, n, o)
  /\ UNCHANGED restarts

(* The client is made again; zksync_init *)
Restart ==
  /\ restarts < MaxRestarts /\ restarts' = restarts + 1
  /\ inc' = [account |-> None, id |-> 0, nonce |-> 0]
  /\ preselect' = UpdatedFromCache(None)
  /\ reqs' = [q \in Req |-> [reqs[q] EXCEPT !.tries = MaxTries]]
  /\ UNCHANGED <<payed, paid>>

Next == (\E q \in Req, n \in Node, o \in Offers : PaymentRequired(q, n, o)) \/ Restart

Spec == Init /\ [][Next]_vars

-----------------------------------------------------------------------------
(* Properties *)

(* A request is paid for once, whatever the nodes it is sent to say, with     *)
(* what the node asked for, and for no more than the user's limit (as long as *)
(* a hundred times the price fits into a long).                               *)
PaidOnce == \A x, y \in paid : x[1] = y[1] => x = y
WithinLimit ==
  \A x \in paid : MaxPrice # 0 /\ x[2].amount * 100 < LongMod => x[2].amount * 100 < (MaxPrice + 1) * x[2].units

(* The list in the cache has no node twice, and all of its nodes were paid;   *)
(* when nodes are preselected they are enough, and were all paid.             *)
PayedIsPaid ==
  /\ \A i, j \in DOMAIN payed : payed[i] = payed[j] => i = j
  /\ \A i \in DOMAIN payed : \E x \in paid : x[2].node = payed[i]
  /\ Cache => \A x \in paid : \E i \in DOMAIN payed : payed[i] = x[2].node
  /\ preselect # None => /\ Len(preselect) >= PayedNodes
                         /\ \A i \in DOMAIN preselect : \E x \in paid : x[2].node = preselect[i]

PaymentsAgree == PaidOnce /\ WithinLimit /\ PayedIsPaid
==============================================================================
