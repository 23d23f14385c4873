\* Two concurrent runs, one of them with --overwrite-generated; one edit.
CONSTANTS
  r1 = r1
  r2 = r2
  c1 = c1
  c2 = c2
  c3 = c3
  Runs <- MCRuns
  Overwrite = {r2}
  After <- NobodyFirst
  Format = "python-requirements"
  Python = "python-requirements"
  Maven = "maven-pom"
  NoFormat = "none"
  Scans <- AllScans
  Dests = {1, 2, 3}
  Contents <- MCContents
  NoContent = NoContent
  Env = Env
  NoPlan = NoPlan
  EditBudget = 1
SPECIFICATION Spec
INVARIANTS
  TypeOK
  PartialFilesExplained
  PreflightComesFirst
  EveryGroupReported
  ReportedFilesIntact
  OverwriteRerunSucceeds
PROPERTIES
  OnlyPlannedFilesReplaced
CHECK_DEADLOCK FALSE
