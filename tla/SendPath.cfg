CONSTANTS
  AppThreads = {a1, a2}
  IoThreads = {io1}
  AppCalls = {"Send", "SendBuffered", "Flush", "Disconnect"}
  BufSize = 3
  Byte = {0, 1, 2, 3, 4}
  MaxLen = 2
  MaxBytes = 4
SPECIFICATION FairSpec
INVARIANTS SendTypeOK StreamExact
PROPERTIES Drained
