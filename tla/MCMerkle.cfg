SPECIFICATION Spec
CONSTANTS
  Depth = 2
  Pow2 <- MCPow2
  Leaf = {d1, d2}
  Forged = forged
  Junk = junk
  NULL = null
INVARIANTS
  TypeOK
  BuildComplete
  PathIsAuth
  VerifyIffCommitted
PROPERTIES
  CallsReturn
