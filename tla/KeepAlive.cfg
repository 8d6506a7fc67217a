SPECIFICATION Spec
CONSTANTS
  c1 = c1
  c2 = c2
  Client = {c1, c2}
  TCP = {c2}
  Obedient = {c1}
  Server = {"TCPServer"}
  Configs <- MCConfigs
  MinTimeout = 1
  DefaultTimeout = 3
  FallbackTimeout = 1
  Block = 1
  RemFinalizes = TRUE
INVARIANTS
  TypeOK
  ObedientKeptWithSlack
  SilentNoticed
  HeartbeatInTime
