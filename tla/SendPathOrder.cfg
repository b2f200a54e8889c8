CONSTANTS
  AppThreads = {a1}
  IoThreads = {io1}
  AppCalls = {"Send"}
  BufSize = 4
  Byte = {0, 1, 2, 3, 4}
  MaxLen = 2
  MaxBytes = 4
SPECIFICATION Spec
INVARIANTS WireInOrder
CHECK_DEADLOCK FALSE
