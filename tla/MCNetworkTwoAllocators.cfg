CONSTANTS
  Sessions = {s1}
  Allocators = {acceptor, connector}
  AppThreads = {app}
  IoThreads = {io1}
  ProcThreads = {}
  ClosingThread = closer
  Threads = {closer, acceptor, connector, app, io1}
  MaxPackets = 1
  OwnMode = FALSE
  SupportRIO = FALSE
  AttachMayFail = FALSE
  CallbackCalls = {}
  AppCalls = {"Disconnect"}
SPECIFICATION Spec
INVARIANTS OneRecv
