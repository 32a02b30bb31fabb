SPECIFICATION Spec
CONSTANTS
  Keys = {1, 2}
  Builds <- MCBuilds
  NULL = null
INVARIANTS
  StoredAhead
  LossOnlyMidCall
PROPERTIES
  ImplementsOneTimeKeys
  BenchSucceeds
\* The benchmark ends, and a caller whose keys are used up has nothing to do.
CHECK_DEADLOCK FALSE
