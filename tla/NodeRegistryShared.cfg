SPECIFICATION Spec
CONSTANTS
  Client = {c1, c2}
  Chain = {main, local}
  Local = local
  List = {l1, l2, l3, l4, l5}
  NoList = NoList
  MaxChains = 2
  Foreign = FALSE
INVARIANTS
  RefCountExact
  ListsLiveExactly
  NoDeadlock
SYMMETRY Symmetric
