SPECIFICATION FairSpec
CONSTANTS
  Addr = {n1, n2, n3}
  n1 = n1
  n2 = n2
  n3 = n3
  NoAddr = NoAddr
  NoReq = NoReq
  Req = {r1}
  r1 = r1
  Boot <- BootTwo
  Registry <- TwoLists
  WhiteLists <- WhiteMove
  WhiteMode = "contract"
  Liars = {}
  Unfit = {n3}
  RegisterTime <- LongAgo
  Performance <- NoneKnown
  Preselected = {n1}
  Filters <- NoFilter
  RequestCount = 1
  SigCount = 1
  Day = 2
  StartTime = 3
  MaxTime = 4
  AutoUpdate = TRUE
  Storage = FALSE
  Proof = TRUE
  Restarts = 0
INVARIANTS
  WhiteFlagsSound
PROPERTIES
  MutexReleased
CHECK_DEADLOCK FALSE
