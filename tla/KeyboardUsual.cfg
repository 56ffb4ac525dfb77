SPECIFICATION FairSpec
CONSTANTS
  Procs = {1, 2}
  BufLen = 2
  NumFd = 2
  Keys = {4, 10, 97}
  MaxKeys = 1
  Lens = {1, 3}
  Eofs = {}
INVARIANTS
  NeverAborts
  WaitsForKeys
  DeviceTestsPass
PROPERTIES
  ServedAgainOnlyAfterCut
  ReadEnds
CHECK_DEADLOCK FALSE
