SPECIFICATION Spec
CHECK_DEADLOCK FALSE
CONSTANTS
  None = None
  Spelling <- MCSpelling
  Segments <- MCSegments
  Duration = 4000000
  MaxSegments = 3
INVARIANTS
  OverlapNoticed
  SilenceNoticed
  ReadablePace
  TrackIsCanonical
  TrackReadsBack
