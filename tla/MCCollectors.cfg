SPECIFICATION Spec
CONSTANTS
  t1 = t1
  t2 = t2
  u1 = u1
  Collector <- MCCollector
  TCP <- MCTCP
  UDSMonitorCollectorInactivity = FALSE
  TCPActiveWakeLock = TRUE
  WakeLockSysfs = TRUE
  UShortMax = 65535
  RemFinalizes = TRUE
  MaxInbox = 1
  MaxQueue = 3
SYMMETRY Symmetry
INVARIANTS
  TypeOK
  CounterCountsSessions
  DeadCollectorsLeave
  SessionsMonitored
  WakeLockCurrent
PROPERTIES
  ImplementsSessions
