SPECIFICATION Spec
CHECK_DEADLOCK FALSE
CONSTANTS
  None = None
  Refused = Refused
  Created = Created
  Jobs = {j1, j2}
  Keys = {k1, k2, k3}
  Slots = {s1, s2, s3}
SYMMETRY Symmetry
INVARIANTS
  EffectOnShown
  OneEffectPerPicture
