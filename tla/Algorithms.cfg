SPECIFICATION SuiteSpec
CONSTANTS
  NULL = NULL
  Unset = Unset
  A1 = A1
  A2 = A2
  A3 = A3
  h1 = h1
  h2 = h2
  Chain = {n1, n2}
  Signer = {s1}
  Hash <- BlockHashes
  Numbers = {1, 2, 3}
  Sizes = {3}
  DefaultMax = 2
  JunkNumbers = {1}
  MaxPending = 1
  MaxVerified = 3
  NoTable = NoTable
CHECK_DEADLOCK FALSE
SYMMETRY Symmetry
INVARIANTS
  MachineAgrees HashesBindFields TriesDecide
  TokensKeepValues  HeadersAreSigned AnswersAreProven
  KnownWasVerified TableIsExact
