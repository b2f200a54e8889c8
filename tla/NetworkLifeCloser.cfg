CONSTANTS
  MaxSessionCount = 1
  IoThreads = {io1}
  ProcThreads = {proc1}
  Main = main
  Acceptor = acceptor
  Closer = closer
  App = app
  MaxStarts = 1
SPECIFICATION FairSpec
PROPERTIES CloserStops
CHECK_DEADLOCK FALSE
