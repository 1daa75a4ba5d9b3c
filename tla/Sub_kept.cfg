SPECIFICATION Spec
CONSTANTS
  Family = {f}
  Body = {small, big}
  None = None
  Proc = {p1}
  MaxRelease = 2
  MaxRequest = 1
  MaxFault = 1
  MaxBeat = 1
  MaxCopy = 2
INVARIANTS CorpusKeptOnFailure
