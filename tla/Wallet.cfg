SPECIFICATION SuiteSpec
CONSTANTS
  o1 = o1
  o2 = o2
  o3 = o3
  ext = ext
  Safe = Safe
  None = None
  Pending = Pending
  RpcErr = RpcErr
  r1 = r1
  r2 = r2
  Latest = Latest
  Bad = Bad
  n1 = n1
  n2 = n2
  n3 = n3
  k1 = k1
  d1 = d1
  d2 = d2
  g1 = g1
  g2 = g2
  s1 = s1
  s2 = s2
  low = low
  Req = {r1, r2}
  Options <- FilterOptions
  MaxHead = 3
  MaxSlots = 1
  MaxInstalls = 2
CHECK_DEADLOCK FALSE
INVARIANTS
  ClientKeeps SentAsAsked ZkSyncAgrees ChainIsFollowed
PROPERTIES FiltersDeliver
