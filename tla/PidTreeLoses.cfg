SPECIFICATION Spec
CONSTANTS
  NumProc = 6
  LastPid = 13
INVARIANT
  LookupExact
CHECK_DEADLOCK FALSE
