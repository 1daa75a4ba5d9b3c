SPECIFICATION MCSpec
CONSTANTS
  Host = {h1, h2}
  Token = {t1, t2}
  Operator = Operator
  Slot = {s1, s2}
  None = None
  Proc = {h1, h2}
  MaxToken = 2
  MaxStart = 3
  TabSlot = {s1, s2}
SYMMETRY Symmetry
CONSTRAINT Region
CHECK_DEADLOCK FALSE
INVARIANTS TokenInvariant StartInvariant 
PROPERTIES RefusalIsNotFailure
