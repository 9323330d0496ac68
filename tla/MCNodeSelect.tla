---------------------------- MODULE MCNodeSelect ----------------------------
(* Instances of NodeSelect for TLC: the lists of a small registry contract.  *)
EXTENDS NodeSelect, TLC

CONSTANTS n1, n2, n3

At(x, i) == [addr |-> x, index |-> i]

BootTwo == <<n1, n2>>

(* Two changes: a node leaves and comes back at another position. *)
TwoLists == <<<<At(n2, 1), At(n3, 2)>>, <<At(n3, 1), At(n1, 2), At(n2, 3)>>>>

(* The whitelist is replaced by one without the first node. *)
WhiteMove == [i \in Blocks |-> IF i = 1 THEN <<n1>> ELSE <<n2, n3>>]
NoWhite   == [i \in Blocks |-> <<>>]

(* Times of registration, and no bans delivered with the list. *)
LongAgo   == [x \in Addr |-> 0]
JustNow   == [x \in Addr |-> IF x = n3 THEN 2 ELSE 0]
NoneKnown == [x \in Addr |-> 0]

Symmetric == Permutations(Req)
NoFilter  == {{}}
=============================================================================
