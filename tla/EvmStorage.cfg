CONSTANTS
  Addr <- Accounts
  Pre = {}
  New <- N
  Key = {1}
  EnvBalance <- Balance
  EnvNonce <- Nonce
  EnvCode <- Code
  EnvStorage <- Slots
  Known <- Accounts
  Root <- A
  From <- B
  Gas = 200000
  GasMod = 16777216
  DataCost = {3}
  Values = {0, 1}
  CodeSizes = {1}
  MaxOps = 4
  MaxDepth = 3
  MaxLogs = 2
SPECIFICATION Spec
PROPERTY StorageIsRolledBack
CHECK_DEADLOCK FALSE
