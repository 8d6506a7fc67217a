SPECIFICATION Spec
CONSTANTS
  ULong = 1048576
  UInt = 1024
  MaxTime = 3
CHECK_DEADLOCK FALSE
PROPERTY
  ResumeDiscarded
