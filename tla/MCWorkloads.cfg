SPECIFICATION WorkSpec
CONSTANTS
  Depth = 3
  Pow2 <- MCPow2
  Messages <- MCMessages
  Roots = {1}
  BadT = {}
  Builds = {TRUE}
  OutOfMemory = {"message"}
  MaxKeygens = 1
  MaxIssued = 16
  NULL = null
  Sizes <- MCSizes
  Scans = 2
  Drivers <- MCDrivers
  Reps = 2
INVARIANTS
  RecordsVerify
  EvenlySpread
  StabilityCounts
  EveryLineReachesRoot
  AllPass
PROPERTIES
  ProgramsEnd
\* The programs stop when they are done.
CHECK_DEADLOCK FALSE
