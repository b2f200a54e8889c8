CONSTANTS
  SlotCount = 2
  ClientCount = 1
  MaxConns = 3
  Room = 2
  MaxSeq = 4
  MaxChat = 3
  MaxStale = 1
SPECIFICATION FairSpec
INVARIANTS SampleTypeOK MapExact EchoMatches BroadcastsFollow
PROPERTIES ChatGoesOn
CHECK_DEADLOCK FALSE
