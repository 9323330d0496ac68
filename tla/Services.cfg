CONSTANTS
  Console = Console
  th1 = th1
  th2 = th2
  Nil = Nil
  Nothing = Nothing
  t1 = t1
  t2 = t2
  t3 = t3
  Conn = {1, 2, 3}
  Thread = {th1, th2}
  Addr = {1, 2, 3}
  PendingMask = 3
  m1 = m1
  m2 = m2
  Message = {m1, m2}
  Call = {c1, c2}
  N = 3
  MAX_SESSIONS = 0
  Verifying = {2, 3}
  Creates = TRUE
  Proven = {m1}
  MaxRestarts = 1
SPECIFICATION SuiteSpec
SYMMETRY Symmetry
CHECK_DEADLOCK FALSE
INVARIANTS
  ServerAnswers BuffersHold AcceptedIsFinal MusigSigns
PROPERTY EtherIsAccounted
