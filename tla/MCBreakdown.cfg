SPECIFICATION StagedSpec
CONSTANTS
  Depth = 1
  Pow2 <- MCPow2
  Messages = {m1, m2}
  Roots = {1, 2}
  BadT = {0}
  Builds = {TRUE}
  OutOfMemory = {"digests", "tree", "message"}
  MaxKeygens = 2
  MaxIssued = 2
  NULL = null
INVARIANTS
  StagedAgrees
  IssuedVerifies
  BufferAuthentic
PROPERTY
  ImplementsKeyEvolving
\* Everything is signed, evolved and freed at the bounds.
CHECK_DEADLOCK FALSE
