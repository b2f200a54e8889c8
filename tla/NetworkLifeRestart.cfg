CONSTANTS
  MaxSessionCount = 1
  IoThreads = {io1}
  ProcThreads = {proc1}
  Main = main
  Acceptor = acceptor
  Closer = closer
  App = app
  MaxStarts = 2
SPECIFICATION Spec
INVARIANTS WorkersServe
CHECK_DEADLOCK FALSE
