SPECIFICATION Spec
CONSTANT
  Calls <- MCCalls
INVARIANTS
  KnownAnswers
  InputsDiffer
PROPERTY
  ImplementsFips202
\* A call that has returned its digest is over.
CHECK_DEADLOCK FALSE
