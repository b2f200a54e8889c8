CONSTANTS
  Allocator = acceptor
  IoThreads = {io1}
  ProcThreads = {proc1, proc2}
  App = app
  BufSize = 5
  IoBufSize = 5
  Byte = {0, 1, 2, 3, 4}
  Sizes = {3, 4}
  MaxPackets = 2
SPECIFICATION FairSpec
INVARIANTS RecvTypeOK FramesExact
PROPERTIES Delivered
