SPECIFICATION Spec
CONSTANTS
  None = None
  r1 = r1  r2 = r2  r3 = r3
  ann = ann  ben = ben
  j1 = j1  j2 = j2
  Jobs = {j1}
  Revisions = {r1, r2}
  People = {ann, ben}
  Keys = {1, 2}
  Contents <- LongTexts
  Profiles = {"P1"}
  KnownProfiles = {"P1"}
  Issues <- MCIssues
  Blocking <- MCBlocking
  Evaluate <- MCEvaluate
  WebVTT <- MCWebVTT
  MaxBatch = 2
  MaxVersion = 8
  MaxReceipts = 1
SYMMETRY PeopleSymmetry
CONSTRAINT KeysInOrder
INVARIANTS
  PreflightBindsContent
