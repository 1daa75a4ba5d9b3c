SPECIFICATION MCSpec
CONSTANTS
  kern = kern
  guide = guide
  small = small
  big = big
  None = None
  Kernel = {kern}
  Body = {small, big}
  Oversized = {big}
  Rank <- MCRank
  Family = {kern, guide}
  Payload <- LinkedPayload
  MaxVersion = 3
  MaxRelease = 2
  MaxConflict = 3
  MaxAttempts = 2
CONSTRAINT Region
INVARIANTS TypeOK ActiveSupersedes ReleaseClosed ReleasesMoveForward ArchiveMatchesHash ClearedByItsRelease OneOpenConflict EvidenceSound WinnerNotOlder
PROPERTIES ServesReleaseLog HistoryKept AttemptsGuardEvidence
CHECK_DEADLOCK FALSE
