SPECIFICATION MCFairSpec
CONSTANTS
  Family = {f}
  Body = {small, big}
  None = None
  Proc = {p1}
  MaxRelease = 2
  MaxRequest = 1
  MaxFault = 2
  MaxBeat = 1
  MaxCopy = 6
PROPERTIES Converges RequestAnswered ResyncRepairs
