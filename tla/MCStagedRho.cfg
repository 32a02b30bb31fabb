SPECIFICATION StagedSpec
CONSTANTS
  Depth = 1
  Pow2 <- MCPow2
  Messages = {m1, m2}
  Roots = {1}
  BadT = {0}
  Builds = {FALSE}
  OutOfMemory = {"message"}
  MaxKeygens = 1
  MaxIssued = 3
  NULL = null
INVARIANT
  StagedAgrees
CHECK_DEADLOCK FALSE
