SPECIFICATION Spec
CONSTANTS
  Content = {c1, c2}
  Slot = {s1, s2}
  None = None
  MaxRelease = 2
  MaxEdit = 2
CHECK_DEADLOCK FALSE
INVARIANTS DisabledUntilRefresh
