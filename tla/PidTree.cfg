SPECIFICATION Spec
CONSTANTS
  NumProc = 6
  LastPid = 10
INVARIANT
  HeightsCoverDepth
PROPERTY
  ActsAsMap
CHECK_DEADLOCK FALSE
