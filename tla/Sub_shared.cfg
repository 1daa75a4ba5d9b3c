SPECIFICATION Spec
CONSTANTS
  Family = {f}
  Body = {small, big}
  None = None
  Proc = {p1, p2}
  MaxRelease = 2
  MaxRequest = 1
  MaxFault = 1
  MaxBeat = 1
  MaxCopy = 2
PROPERTIES FlipIsFresh FallsBackNoFurther
SYMMETRY Symmetry
CONSTRAINT CopiesLeft
