CONSTANTS
  Sessions = {s1, s2}
  Allocators = {acceptor}
  AppThreads = {app}
  IoThreads = {io1, io2}
  ProcThreads = {}
  ClosingThread = closer
  Threads = {closer, acceptor, app, io1, io2}
  MaxPackets = 1
  OwnMode = FALSE
  SupportRIO = TRUE
  AttachMayFail = TRUE
  CallbackCalls = {"SendBuffered"}
  AppCalls = {"Disconnect", "ProcessPacket"}
SPECIFICATION Spec
SYMMETRY Symmetry
INVARIANTS PoolConsistent CloseIsQuiescent
PROPERTIES LifeSpec
