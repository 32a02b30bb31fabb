SPECIFICATION Spec
CONSTANTS
  Depth = 2
  Pow2 <- MCPow2
  Messages = {m1, m2}
  Roots = {1}
  BadT <- MCBadT
  Builds = {TRUE, FALSE}
  OutOfMemory = {"digests", "tree", "leafkey", "message"}
  MaxKeygens = 1
  MaxIssued = 3
  NULL = null
INVARIANTS
  TypeOK
  CacheCoherent
  SecretsForwardOnly
  IssuedVerifies
PROPERTIES
  ImplementsKeyEvolving
\* A key generation that cannot allocate the leaf key ends the process.
CHECK_DEADLOCK FALSE
