SPECIFICATION FairSpec
CONSTANTS
  tcp = tcp
  uds = uds
  Present = {"SysProcPressure", "SysProcBuddyInfo"}
  Client = {tcp, uds}
  TCP = {tcp}
  StartupEnabled = TRUE
  MaxSamples = 2
CHECK_DEADLOCK FALSE
INVARIANTS
  TypeOK
  UpdateQueuedOnce
  DroppedCacheStaysEmpty
PROPERTIES
  UpdatedOnAdvertisedLane
  SourceKeepsUpdating
  RequestAnswered
