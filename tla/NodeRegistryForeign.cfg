SPECIFICATION Spec
CONSTANTS
  Client = {c1, c2}
  Chain = {main, side, local}
  Local = local
  List = {l1, l2, l3, l4, l5}
  NoList = NoList
  MaxChains = 2
  Foreign = TRUE
INVARIANTS
  NoDeadlock
SYMMETRY Symmetric
