SPECIFICATION Spec
CONSTANTS
  Procs = {1, 2}
  BufLen = 2
  NumFd = 2
  Keys = {10, 97}
  MaxKeys = 2
  Lens = {3}
  Eofs = {}
PROPERTIES
  ReadEndsOnce
CHECK_DEADLOCK FALSE
