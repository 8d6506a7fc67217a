SPECIFICATION FairSpec
CONSTANTS
  p1 = p1
  p2 = p2
  Pid = {p1, p2}
  Settings <- MCSettings
  MaxEvents = 2
INVARIANTS
  TypeOK
  PendingAnswered
  SourceKept
  NothingDropped
PROPERTIES
  PendingCleared
  RunningRelisted
