SPECIFICATION FairSpec
CONSTANTS
  Ctx = {c1, c2, c3, c4}
  NoCtx = NoCtx
  Nodes = {n1}
  RequestCount = 1
  MaxAttempts = 2
  RootKinds = {"intern", "direct"}
  Answers = {"good", "needs", "user", "sys", "bad"}
  Blocking = TRUE
  Logging = FALSE
PROPERTIES Termination
