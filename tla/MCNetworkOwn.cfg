CONSTANTS
  Sessions = {s1}
  Allocators = {acceptor}
  AppThreads = {}
  IoThreads = {io1, io2}
  ProcThreads = {proc1, proc2}
  ClosingThread = closer
  Threads = {closer, acceptor, io1, io2, proc1, proc2}
  MaxPackets = 2
  OwnMode = TRUE
  SupportRIO = FALSE
  AttachMayFail = FALSE
  CallbackCalls = {"Send", "Disconnect"}
  AppCalls = {}
SPECIFICATION Spec
SYMMETRY Symmetry
INVARIANTS TypeOK RefCountExact ClosingOnce CloseIsQuiescent SerialDispatch OneRecv OneSend RecvArmed PacketsWatched SendWatched NothingLost
