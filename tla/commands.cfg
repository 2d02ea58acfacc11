SPECIFICATION Spec
CONSTANTS
  None = None
  r1 = r1  r2 = r2  r3 = r3
  ann = ann  ben = ben
  j1 = j1  j2 = j2
  Jobs = {j1, j2}
  Revisions = {r1, r2, r3}
  People = {ann, ben}
  Keys = {1, 2, 3}
  Contents <- TwoTexts
  Profiles = {"P1"}
  KnownProfiles = {"P1"}
  Issues <- MCIssues
  Blocking <- MCBlocking
  Evaluate <- MCEvaluate
  WebVTT <- MCWebVTT
  MaxBatch = 2
  MaxVersion = 9
  MaxReceipts = 1
SYMMETRY JobSymmetry
CONSTRAINTS
  KeysInOrder
  LongOrShort
INVARIANTS
  TypeOK
  ReviewGate
  ReleaseWasReviewed
  RevisionChain
  ReleasesVerify
  ConfirmationBindsVersion
PROPERTIES
  FrozenEvidenceKept
