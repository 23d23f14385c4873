\* A rerun in CI after a run that was killed.
CONSTANTS
  r1 = r1
  r2 = r2
  c1 = c1
  c2 = c2
  c3 = c3
  Runs <- MCRuns
  Overwrite = {r1, r2}
  After <- OneAfterTheOther
  Format = "maven-pom"
  Python = "python-requirements"
  Maven = "maven-pom"
  NoFormat = "none"
  Scans <- GoodScans
  Dests = {1, 2, 3}
  Contents <- MCContents
  NoContent = NoContent
  Env = Env
  NoPlan = NoPlan
  EditBudget = 0
SPECIFICATION Spec
INVARIANTS
  OverwriteRerunSucceeds
CHECK_DEADLOCK FALSE
