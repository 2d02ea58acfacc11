SPECIFICATION CheckSpec
CONSTANTS
  None = None
  Spelling <- PlainOnly
  j1 = j1  j2 = j2
  r1 = r1  r2 = r2
  Checkers = {c1, c2}
  Editor = editor
  Reviewer = reviewer
  Programme <- Sent
  Profile = "P1"
  Jobs = {j1, j2}
  Revisions = {r1, r2}
  People = {editor, reviewer}
  Keys = {1}
  Contents <- Texts
  Profiles = {"P1"}
  KnownProfiles = {"P1"}
  Issues <- MCIssues
  Blocking <- MCBlocking
  Evaluate <- MCEvaluate
  WebVTT <- MCWebVTT
  MaxBatch = 1
  MaxVersion = 7
  MaxReceipts = 0
  MaxFaults = 2
  Duration = 10000
  VerifyLimit = 10
  RecordLimit = 10
  IntegrityLimit = 10
CONSTRAINT DrawnInOrder
CHECK_DEADLOCK FALSE
INVARIANTS
  NothingIsRefused
  OneReleaseOfAllChecks
  SuccessMeansReleased
PROPERTIES
  ChecksAdvance
  ChecksPass
