CONSTANTS
  a = a
  b = b
  c = c
  x = x
  y = y
  missing = missing
  Paths <- MCPaths
  Start = a
  Declarations <- MCDeclarations
  Unreadable = missing
  Trees <- MCTrees
  Contents <- MCContents
  MaxEdits = 1
SPECIFICATION Spec
INVARIANTS
  DepthBounded
  ResultAccepted
  ResultIsExpansion

  
CHECK_DEADLOCK FALSE
