\* Maven output: a run and an overwriting run at the same time; one edit.
CONSTANTS
  r1 = r1
  r2 = r2
  c1 = c1
  c2 = c2
  c3 = c3
  Runs <- MCRuns
  Overwrite = {r2}
  After <- NobodyFirst
  Format = "maven-pom"
  Python = "python-requirements"
  Maven = "maven-pom"
  NoFormat = "none"
  Scans <- CollidingScans
  Dests = {1, 2}
  Contents <- MCContents
  NoContent = NoContent
  Env = Env
  NoPlan = NoPlan
  EditBudget = 1
SPECIFICATION Spec
PROPERTIES
  RunsEnd
  ImplementsContract
CHECK_DEADLOCK FALSE
