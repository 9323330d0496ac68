--------------------------- MODULE MCNodeRegistry ---------------------------
(* Instances of NodeRegistry for TLC. *)
EXTENDS NodeRegistry, TLC

Symmetric == Permutations(Client) \cup Permutations(List)
=============================================================================
