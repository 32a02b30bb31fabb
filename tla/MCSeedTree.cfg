SPECIFICATION Spec
CONSTANTS
  Depth = 5
  Pow2 <- MCPow2
INVARIANTS
  TypeOK
  IInv
  Erasure
  NoPeriodLost
  FlagsMatchSeeds
  GuardNeverFires
  StepsMatchOps
PROPERTIES
  NeverRegained
  WalkCompletes
  ImplementsForwardKey
