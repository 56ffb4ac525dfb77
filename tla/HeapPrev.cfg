SPECIFICATION Spec
CONSTANTS
  HoleStart = 9
  HoleEnd = 11
  MemEnd = 16
  Requests = {0, 16, 20, 48}
INVARIANT
  NextIsFree
