CONSTANTS
  Sessions = {s1}
  Allocators = {acceptor}
  AppThreads = {app}
  IoThreads = {io1}
  ProcThreads = {proc1}
  ClosingThread = closer
  Threads = {closer, acceptor, app, io1, proc1}
  MaxPackets = 1
  OwnMode = TRUE
  SupportRIO = FALSE
  AttachMayFail = FALSE
  CallbackCalls = {}
  AppCalls = {"Disconnect", "SendBuffered", "Flush"}
SPECIFICATION FairSpec
PROPERTIES Reclaimed
