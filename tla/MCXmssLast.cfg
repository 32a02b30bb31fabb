SPECIFICATION Spec
CONSTANT Builds <- MCBuilds
INVARIANT SignaturesVerify
CHECK_DEADLOCK FALSE
