SPECIFICATION Spec
CONSTANTS
  Procs = {1, 2}
  BufLen = 2
  NumFd = 2
  Keys = {10, 97}
  MaxKeys = 2
  Lens = {0, 1, 3}
  Eofs = {97}
VIEW LiveState
INVARIANTS
  TypeOK
  Exclusive
PROPERTIES
  StreamInOrder
  ReadResult
CHECK_DEADLOCK FALSE
