SPECIFICATION Spec
CONSTANTS
  Family = {f}
  Body = {small, big}
  None = None
  Proc = {p1}
  MaxRelease = 2
  MaxRequest = 2
  MaxFault = 2
  MaxBeat = 2
  MaxCopy = 3
INVARIANTS TypeOK MarkerNotAhead CurrentIsTrue
PROPERTIES NoClearWithoutRebuild ImplementsDelivery
SYMMETRY Symmetry
CONSTRAINT Region
