SPECIFICATION Spec
CONSTANTS
  Depth = 3
  Pow2 <- MCPow2
INVARIANT
  DescentsReachLeaf
