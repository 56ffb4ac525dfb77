SPECIFICATION FairSpec
CONSTANTS
  NumProc = 3
  PidSpace = 5
  Blocks = 6
  Lens = {}
  Sleeps = {10, 30}
  TimeSlice = 10
  Eax = {0}
PROPERTIES
  ReadyRuns
  SleeperWakes
