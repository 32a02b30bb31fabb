SPECIFICATION Spec
CONSTANT Builds <- MCBuilds
INVARIANTS
  UsedUpKeyIsDeleted
PROPERTIES
  ImplementsOneTimeKeys
  DriversSucceed
\* Both programs end.
CHECK_DEADLOCK FALSE
