SPECIFICATION Spec
CONSTANTS
  None = None
  Jobs = {1, 2, 3}
  Statuses = {"draft", "remediating"}
  Profiles = {"P1"}
  Base = 2
  DefaultLimit = 2
  MaxLimit = 1
  Filters <- SomeFilters
  FirstTime = 3
  MaxTime = 4
  MaxWrites = 2
CHECK_DEADLOCK FALSE
INVARIANTS
  OverlookedFew
  RepeatedFew
