SPECIFICATION FairSpec
CONSTANTS
  t1 = t1
  t2 = t2
  u1 = u1
  Collector = {t1, u1}
  TCP = {t1}
  UDSMonitorCollectorInactivity = TRUE
  TCPActiveWakeLock = TRUE
  WakeLockSysfs = TRUE
  UShortMax = 65535
  RemFinalizes = TRUE
  MaxInbox = 1
  MaxQueue = 3
PROPERTIES
  EndedSessionReleased
  SilentSessionEnds
  WakeLockReleased
