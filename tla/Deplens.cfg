CONSTANTS
  root = root
  dir = dir
  vendor = vendor
  pyproject = pyproject
  manifest = manifest
  inner = inner
  hidden = hidden
  x = x
  y = y
  unreadable = unreadable
  Nodes <- MCNodes
  Root = root
  Below <- MCBelow
  Pyprojects = {pyproject}
  Contents <- MCContents
  Unreadable = unreadable
  Trees <- MCTrees
  Entries <- MCEntries
  MaxEdits = 1
  Commands <- MCCommands
  Documents <- MCDocuments
  Embedded <- Default
  BaseName <- MCBaseName
  RegexMatches <- MCRegexMatches
  GlobMatches <- MCGlobMatches
  Behaviour <- MCBehaviour
  PlainAnalyzers <- MCPlainAnalyzers
  Alphabetical <- MCAlphabetical
  Groups <- MCGroups
  CoveragePresets <- MCCoveragePresets
SPECIFICATION Spec
INVARIANTS
  TypeOK
  UndisturbedFilesReported
  ChecksSeeAnalyzedBytes
  
  FaultsStopEarly
  RulesInForce
  ExitStatusTellsTruth

  
CHECK_DEADLOCK FALSE
