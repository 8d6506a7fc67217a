SPECIFICATION FairSpec
CONSTANTS
  p1 = p1
  p2 = p2
  app = app
  tool = tool
  kworker = kworker
  x1 = x1
  x2 = x2
  Pid = {p1, p2}
  Name = {app, kworker}
  Context = {x1}
  Blacklisted = {kworker}
  Settings <- UpdateSettings
  RxBufferSize = 1
  MaxQueue = 1
  MaxUnread = 1
INVARIANT RunningListed
PROPERTIES
  DeadProcessLeaves
  RunningGetsListed
CHECK_DEADLOCK FALSE
