SPECIFICATION Spec
CONSTANTS
  Ctx = {c1, c2, c3}
  NoCtx = NoCtx
  Nodes = {n1, n2}
  RequestCount = 2
  MaxAttempts = 2
  RootKinds = {"rpc"}
  Answers = {"good", "needs", "bad"}
  Blocking = FALSE
  Logging = TRUE
SYMMETRY Symmetry
INVARIANTS SuccessIsVerified WaitsForSomeone BlamedDeserveIt ConnectionsAccounted PendingCounts
PROPERTIES RetryOnlyWhenExhausted
