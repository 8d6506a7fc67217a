SPECIFICATION Spec
CONSTANTS
  c1 = c1
  c2 = c2
  Client = {c1, c2}
  TCP = {c1, c2}
  Obedient = {c1}
  Server = {"TCPServer"}
  Configs <- MCMinimum
  MinTimeout = 3
  DefaultTimeout = 10
  FallbackTimeout = 1
  Block = 3
  RemFinalizes = TRUE
INVARIANT ObedientKept
