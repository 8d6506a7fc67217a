SPECIFICATION Spec
CONSTANTS
  p1 = p1
  p2 = p2
  app = app
  tool = tool
  kworker = kworker
  x1 = x1
  x2 = x2
  Pid = {p1, p2}
  Name = {app, kworker}
  Context = {x1, x2}
  Blacklisted = {kworker}
  Settings <- EventSettings
  RxBufferSize = 2
  MaxQueue = 1
  MaxUnread = 0
INVARIANT ContextsListed
CHECK_DEADLOCK FALSE
