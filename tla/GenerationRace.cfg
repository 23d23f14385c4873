\* Two concurrent runs without --overwrite-generated; nobody else acts.
CONSTANTS
  r1 = r1
  r2 = r2
  c1 = c1
  c2 = c2
  c3 = c3
  Runs <- MCRuns
  Overwrite = {}
  After <- NobodyFirst
  Format = "python-requirements"
  Python = "python-requirements"
  Maven = "maven-pom"
  NoFormat = "none"
  Scans <- AllScans
  Dests = {1, 2, 3}
  Contents <- MCContents
  NoContent = NoContent
  Env = Env
  NoPlan = NoPlan
  EditBudget = 0
SPECIFICATION Spec
INVARIANTS
  RaceHasWinner
CHECK_DEADLOCK FALSE
