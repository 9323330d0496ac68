SPECIFICATION Spec
CONSTANTS
  Ctx = {c1, c2}
  NoCtx = NoCtx
  Nodes = {n1, n2}
  RequestCount = 2
  MaxAttempts = 2
  RootKinds = {"rpc"}
  Answers = {"sys", "garbage"}
  Blocking = FALSE
  Logging = TRUE
SYMMETRY Symmetry
INVARIANTS ResponsesAllocated
