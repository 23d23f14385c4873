\* Two sources whose groups share a destination.
CONSTANTS
  r1 = r1
  r2 = r2
  c1 = c1
  c2 = c2
  c3 = c3
  Runs <- MCRuns
  Overwrite = {r2}
  After <- NobodyFirst
  Format = "python-requirements"
  Python = "python-requirements"
  Maven = "maven-pom"
  NoFormat = "none"
  Scans <- CollidingScans
  Dests = {1, 2, 3}
  Contents <- MCContents
  NoContent = NoContent
  Env = Env
  NoPlan = NoPlan
  EditBudget = 0
SPECIFICATION Spec
INVARIANTS
  CollisionsRejected
CHECK_DEADLOCK FALSE
