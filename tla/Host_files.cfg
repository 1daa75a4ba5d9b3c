SPECIFICATION MCSpec
CONSTANTS
  Name <- MCName
  Collection = {"kernel", "lessons"}
  Family <- MCFamily
  Long <- MCLong
  Body = {"x", "y"}
  MaxDoc = 2
  MaxEntry = 3
  Mine = {u1, u2}
  k1 = k1
  k2 = k2
  Kernel <- MCKernel
  Begin = Begin
  End = End
  Blank = Blank
  None = None
  MaxEdit = 2
  MaxFlip = 2
  Host = {h1}
  Slot = {s1, s2}
  DarkAfter = 1
  Tolerance = 0
  MaxRelease = 1
  MaxTime = 2
  MaxBack = 1
SYMMETRY Symmetry
CONSTRAINT Region
CHECK_DEADLOCK FALSE
INVARIANTS TreeInvariant BlockInvariant PageInvariant
PROPERTIES TableMovesForward
