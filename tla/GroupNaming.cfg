CONSTANTS
  Words <- MCWords
  Unsafe <- MCUnsafe
  Inputs <- MCInputs
SPECIFICATION Spec
INVARIANTS
  DistinctComponents
PROPERTIES
  NamingEnds
CHECK_DEADLOCK FALSE
