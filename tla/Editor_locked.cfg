SPECIFICATION Spec
CONSTANTS
  Family = {f1, f2}
  Slot = {s1, s2}
  None = None
  MaxVersion = 2
INVARIANTS NeverStuck
