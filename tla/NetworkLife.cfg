CONSTANTS
  MaxSessionCount = 2
  IoThreads = {io1}
  ProcThreads = {proc1}
  Main = main
  Acceptor = acceptor
  Closer = closer
  App = app
  MaxStarts = 1
SPECIFICATION FairSpec
INVARIANTS NetworkLifeTypeOK PoolOutlivesItsUsers EntriesSuffice
PROPERTIES WorkersStop
CHECK_DEADLOCK FALSE
