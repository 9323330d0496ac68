------------------------------ MODULE MCRequest ------------------------------
(* Instances of Request for TLC. *)
EXTENDS Request, TLC

Symmetry == Permutations(Ctx) \cup Permutations(Nodes)
=============================================================================
