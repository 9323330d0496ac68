SPECIFICATION FairSpec
CONSTANTS
  Ctx = {c1, c2}
  NoCtx = NoCtx
  Nodes = {n1, n2}
  RequestCount = 2
  MaxAttempts = 2
  RootKinds = {"rpc"}
  Answers = {"good", "pay", "garbage"}
  Blocking = FALSE
  Logging = TRUE
INVARIANTS ReceivesIntoLiveResponses AttemptsBounded
PROPERTIES Termination AcceptedStays
