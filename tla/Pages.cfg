SPECIFICATION MCSpec
CONSTANTS
  Family = {f1, f2}
  Slot = {s1, s2}
  None = None
  MaxVersion = 3
  Record = {f1, f2}
  ViewSlot = {s1, s2}
  MaxAttempts = 2
  Content = {c1, c2}
  MaxRelease = 3
  MaxEdit = 3
  Path = {x, y, z}
  Body = {c1, c2}
  MaxRow = 2
  Line = {1, 2, 3}
  MaxLength = 5
  MaxLines = 5
  MaxProduct = 20
SYMMETRY Symmetry
CONSTRAINT Region
CHECK_DEADLOCK FALSE
INVARIANTS EditorInvariant MergeInvariant PublishInvariant TellsWhatHostsGet DiffInvariant
PROPERTIES SavesWhatWasShown NoSelfRace ResolvedAsSeen CutWasShown CutAsReviewed
