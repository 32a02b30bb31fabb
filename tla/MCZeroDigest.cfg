SPECIFICATION Spec
CONSTANTS
  Depth = 2
  Pow2 <- MCPow2
  Messages = {m1, m2}
  Roots = {1}
  BadT <- MCBadT
  Builds = {TRUE}
  OutOfMemory = {"digest"}
  MaxKeygens = 1
  MaxIssued = 1
  NULL = null
INVARIANT
  IssuedVerifies
