SPECIFICATION Spec
CONSTANTS
  NumProc = 5
  Sigs = {16, 18, 20}
  FreeSigs = {}
  Eax = {7}
  Scenarios = {"root"}
INVARIANT
  DispatchNeverReturns
CHECK_DEADLOCK FALSE
