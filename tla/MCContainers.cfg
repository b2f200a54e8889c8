CONSTANTS
  BufSize = 4
  Byte = {0, 1}
  MaxLen = 4
  Chunks = {c1, c2, c3}
  ChunkSize = 2
  GrowSize = 2
  AllocCount = 2
  MaxBytes = 5
  Nodes = {n1, n2, n3, n4}
  Data = {}
  Head0 = Head0
  Null = Null
  ListHead = ListHead
  NullPtr = NullPtr
SPECIFICATION MCSpec
INVARIANTS RingTypeOK AllocTypeOK BlocksExclusive BlocksFit BlocksConserved ListExact PoolTypeOK NothingLeaks
PROPERTIES FifoSpec PoolIsStore
