\* One repository of each kind, scanned to the end; a scan stops when no check
\* is left.
SPECIFICATION Spec
CONSTANTS
  Scans <- MCScans
INVARIANTS
  TypeOK
  VerdictsAtNearestOwner
  OneVerdictPerProject
  ExclusionsNeverAddFindings
  RemediationSettles
  CatalogsAgreeWithLockfiles
  ManifestsAreAnsweredFor
  SectionsDecideTogether
  NoGuessedPlatform
CHECK_DEADLOCK FALSE
