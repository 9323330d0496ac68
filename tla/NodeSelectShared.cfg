SPECIFICATION Spec
CONSTANTS
  Addr = {n1, n2, n3}
  n1 = n1
  n2 = n2
  n3 = n3
  NoAddr = NoAddr
  NoReq = NoReq
  Req = {r1, r2}
  r1 = r1
  r2 = r2
  Boot <- BootTwo
  Registry <- TwoLists
  WhiteLists <- NoWhite
  WhiteMode = "none"
  Liars = {}
  Unfit = {}
  RegisterTime <- JustNow
  Performance <- NoneKnown
  Preselected = {}
  Filters <- NoFilter
  RequestCount = 1
  SigCount = 0
  Day = 2
  StartTime = 3
  MaxTime = 3
  AutoUpdate = TRUE
  Storage = TRUE
  Proof = TRUE
  Restarts = 1
INVARIANTS
  NeverStarved
  ListIsRegistered
  BansAreSaved
PROPERTIES
  LastBlockNeverFalls
  UpdateKeepsBans
SYMMETRY Symmetric
CHECK_DEADLOCK FALSE
