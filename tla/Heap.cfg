SPECIFICATION TestsWhilePrevTrue
CONSTANTS
  HoleStart = 10
  HoleEnd = 12
  MemEnd = 17
  Requests = {0, 16, 20, 48, 64, 128}
VIEW LiveState
INVARIANTS
  ListSound
  MarksExact
  RefusesWhenFull
PROPERTIES
  BlocksDisjoint
  TestsPass
