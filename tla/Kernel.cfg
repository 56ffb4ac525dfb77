SPECIFICATION Spec
CONSTANTS
  NumProc = 4
  PidSpace = 6
  Blocks = 8
  Lens = {1, 2}
  Sleeps = {0, 5, 20}
  TimeSlice = 10
  Eax = {7}
VIEW LiveState
INVARIANTS
  TypeOK
  NoDuplicates
  InItsPlace
  WaitsOnTarget
  NoMissedRendezvous
  PidMapSound
  SleepHeadPositive
  DispatcherNeverRunsDry
PROPERTIES
  HeapBalance
  ReleasedByPeer
  SavedResultStable
  QueueAdvances
  SleepersTimed
