SPECIFICATION Spec
CONSTANTS
  None = None
  Spelling <- PlainOnly
  r1 = r1  r2 = r2  r3 = r3
  ann = ann  ben = ben
  j1 = j1
  Jobs = {j1}
  Revisions = {r1, r2}
  People = {ann, ben}
  Keys = {1, 2}
  Contents <- Texts
  Profiles = {"P1", "P9"}
  KnownProfiles = {"P1"}
  Issues <- MCIssues
  Blocking <- MCBlocking
  Evaluate <- MCEvaluate
  WebVTT <- MCWebVTT
  MaxBatch = 1
  MaxVersion = 8
  MaxReceipts = 0
  Duration = 10000
  VerifyLimit = 3
  RecordLimit = 5
  IntegrityLimit = 7
SYMMETRY Symmetry
CONSTRAINT KeysInOrder
INVARIANTS
  SampleIsAccepted
  DiffMatchesSummary
  FindingsFollowChanges
  NothingShownUnseen
  VerdictWithoutLimit
