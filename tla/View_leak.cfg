SPECIFICATION Spec
CONSTANTS
  Record = {r1, r2}
  Slot = {s1, s2}
  None = None
  MaxVersion = 3
  MaxAttempts = 2
SYMMETRY Symmetry
INVARIANTS NoLeak
