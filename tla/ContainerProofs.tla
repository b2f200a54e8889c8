--------------------------- MODULE ContainerProofs ----------------------------
(***************************************************************************)
(* The containers of NetLib, for any size and every sequence of calls: the *)
(* ring buffer implements the bounded queue of bytes; the allocator gives  *)
(* no block out twice, loses none and gives none that is too small; a list *)
(* has the order asked for; the object pool implements the object store.   *)
(***************************************************************************)
EXTENDS RingFifo, GeneralAllocator, NodeList, ObjectPool, RingBufferProofs,
        FiniteSetTheorems, WellFoundedInduction

------------------------------------------------------------------------------
(* The ring buffer                                                         *)

\* The data of a call is a sequence of bytes of the length named.
LEMMA DataType ==
    ASSUME NEW len \in 0 .. MaxLen, NEW data \in [1 .. len -> Byte]
    PROVE  len \in Nat /\ data \in Seq(Byte) /\ Len(data) = len
  BY FifoAssumption

\* Every initial state is typed, and the queue it stands for is empty.
LEMMA RingInit ==
    ASSUME Init PROVE RingTypeOK /\ Fifo!Init
  <1>1. ring \in Rings /\ ring.head = 0 /\ ring.tail = 0
    BY RingAssumption DEF Init, Rings, Positions
  <1>2. Len(Contents(ring)) = 0 /\ Contents(ring) \in Seq(Byte)
    BY <1>1, ContentsIs, LengthBound
  <1>3. Contents(ring) = <<>>
    BY <1>2
  <1> QED BY <1>1, <1>3 DEF Init, RingTypeOK, Fifo!Init

\* Every step of the ring buffer is the same call on the queue.
LEMMA RingStep ==
    ASSUME RingTypeOK, [Next]_vars
    PROVE  RingTypeOK' /\ [Fifo!Next]_(Fifo!vars)
  <1>1. /\ ring \in Rings /\ ok \in BOOLEAN /\ last \in Seq(Byte)
        /\ Contents(ring) \in Seq(Byte)
        /\ Len(Contents(ring)) = GetDataLength(ring)
        /\ GetDataLength(ring) \in Nat /\ BufSize \in Nat
    BY ContentsIs, LengthBound, RingAssumption DEF RingTypeOK
  <1>2. ASSUME NEW m \in Nat
        PROVE  CanPutData(ring, m) <=> Len(Contents(ring)) + m <= BufSize - 1
    BY <1>1 DEF CanPutData
  <1>3. ASSUME NEW len \in 0 .. MaxLen, NEW data \in [1 .. len -> Byte], PutData(data)
        PROVE  RingTypeOK' /\ Fifo!PutData(data)
    <2>1. data \in Seq(Byte) /\ Len(data) \in Nat
      BY DataType
    <2>2. CASE CanPutData(ring, Len(data))
      <3>1. /\ ok' = TRUE /\ ring' = Put(ring, data) /\ last' = data
        BY <1>3, <2>2 DEF PutData
      <3>2. Put(ring, data) \in Rings /\ Contents(Put(ring, data)) = Contents(ring) \o data
        BY <1>1, <2>1, <2>2, PutAppends
      <3>3. Contents(ring)' = Contents(ring) \o data
        BY <3>1, <3>2
      <3>4. Len(Contents(ring)) + Len(data) <= BufSize - 1
        BY <1>2, <2>1, <2>2
      <3>5. Fifo!PutData(data)
        BY <3>1, <3>3, <3>4 DEF Fifo!PutData
      <3> QED BY <1>1, <2>1, <3>1, <3>2, <3>5 DEF RingTypeOK
    <2>3. CASE ~CanPutData(ring, Len(data))
      <3>1. /\ ok' = FALSE /\ ring' = ring /\ last' = data
        BY <1>3, <2>3 DEF PutData
      <3>2. Contents(ring)' = Contents(ring)
        BY <3>1
      <3>3. ~(Len(Contents(ring)) + Len(data) <= BufSize - 1)
        BY <1>2, <2>1, <2>3
      <3>4. (Len(Contents(ring)) + Len(data) <= BufSize - 1) = FALSE
        BY <3>3
      <3>5. Fifo!PutData(data)
        BY <3>1, <3>2, <3>4, Zenon DEF Fifo!PutData
      <3> QED BY <1>1, <2>1, <3>1, <3>5 DEF RingTypeOK
    <2> QED BY <2>2, <2>3
  <1>4. ASSUME NEW len \in 0 .. MaxLen, PutEmptyData(len)
        PROVE  RingTypeOK' /\ Fifo!PutEmptyData(len)
    <2>1. len \in Nat
      BY FifoAssumption
    <2>2. CASE CanPutData(ring, len)
      <3>1. /\ ok' = TRUE /\ ring' = PutEmpty(ring, len) /\ last' = last
        BY <1>4, <2>2 DEF PutEmptyData
      <3>2. PICK data \in [1 .. len -> Byte] :
               Contents(PutEmpty(ring, len)) = Contents(ring) \o data
        BY <1>1, <2>1, <2>2, PutEmptyAppends
      <3>3. Contents(ring)' = Contents(ring) \o data /\ PutEmpty(ring, len) \in Rings
        BY <1>1, <2>1, <2>2, <3>1, <3>2, PutEmptyAppends
      <3>4. Len(Contents(ring)) + len <= BufSize - 1
        BY <1>2, <2>1, <2>2
      <3>5. Fifo!PutEmptyData(len)
        BY <3>1, <3>3, <3>4 DEF Fifo!PutEmptyData
      <3> QED BY <1>1, <3>1, <3>3, <3>5 DEF RingTypeOK
    <2>3. CASE ~CanPutData(ring, len)
      <3>1. /\ ok' = FALSE /\ ring' = ring /\ last' = last
        BY <1>4, <2>3 DEF PutEmptyData
      <3>2. Contents(ring)' = Contents(ring)
        BY <3>1
      <3>3. ~(Len(Contents(ring)) + len <= BufSize - 1)
        BY <1>2, <2>1, <2>3
      <3>4. (Len(Contents(ring)) + len <= BufSize - 1) = FALSE
        BY <3>3
      <3>5. Fifo!PutEmptyData(len)
        BY <3>1, <3>2, <3>4, Zenon DEF Fifo!PutEmptyData
      <3> QED BY <1>1, <3>1, <3>5 DEF RingTypeOK
    <2> QED BY <2>2, <2>3
  <1>5. ASSUME NEW len \in 0 .. MaxLen, GetData(len)
        PROVE  RingTypeOK' /\ Fifo!GetData(len)
    <2>1. len \in Nat
      BY FifoAssumption
    <2>2. CASE len <= GetDataLength(ring)
      <3>1. ok' = TRUE /\ last' = Get(ring, len) /\ ring' = ring
        BY <1>5, <2>2 DEF GetData
      <3>2. Get(ring, len) = SubSeq(Contents(ring), 1, len) /\ Get(ring, len) \in Seq(Byte)
        BY <1>1, <2>1, <2>2, GetIsPrefix
      <3>3. Contents(ring)' = Contents(ring) /\ len <= Len(Contents(ring))
        BY <1>1, <2>2, <3>1
      <3>4. Fifo!GetData(len)
        BY <3>1, <3>2, <3>3 DEF Fifo!GetData
      <3> QED BY <1>1, <3>1, <3>2, <3>4 DEF RingTypeOK
    <2>3. CASE ~(len <= GetDataLength(ring))
      <3>1. ok' = FALSE /\ last' = last /\ ring' = ring
        <4>1. (len <= GetDataLength(ring)) = FALSE
          BY <2>3
        <4> QED BY <1>5, <4>1, Zenon DEF GetData
      <3>2. Contents(ring)' = Contents(ring) /\ (len <= Len(Contents(ring))) = FALSE
        BY <1>1, <2>3, <3>1
      <3>3. Fifo!GetData(len)
        BY <3>1, <3>2, Zenon DEF Fifo!GetData
      <3> QED BY <1>1, <3>1, <3>3 DEF RingTypeOK
    <2> QED BY <2>2, <2>3
  <1>6. ASSUME NEW len \in 0 .. MaxLen, PopData(len)
        PROVE  RingTypeOK' /\ Fifo!PopData(len)
    <2>1. len \in Nat /\ len <= GetDataLength(ring)
      BY <1>6, FifoAssumption DEF PopData
    <2>2. /\ Pop(ring, len) \in Rings
          /\ Contents(Pop(ring, len)) = SubSeq(Contents(ring), len + 1, Len(Contents(ring)))
      BY <1>1, <2>1, PopDrops
    <2>3. ring' = Pop(ring, len) /\ ok' = (ring'.head # ring'.tail) /\ last' = last
      BY <1>6 DEF PopData
    <2>4. /\ ring' \in Rings
          /\ Contents(ring)' = SubSeq(Contents(ring), len + 1, Len(Contents(ring)))
      BY <2>2, <2>3
    <2>5. Contents(ring') \in Seq(Byte) /\ (Len(Contents(ring')) = 0 <=> ring'.head = ring'.tail)
      BY <2>4, ContentsIs, LengthBound
    <2>6. (ring'.head # ring'.tail) = (Contents(ring)' # <<>>)
      BY <2>5
    <2>7. Fifo!PopData(len)
      BY <1>1, <2>1, <2>3, <2>4, <2>6 DEF Fifo!PopData
    <2>8. ok' \in BOOLEAN
      BY <2>3
    <2> QED BY <1>1, <2>3, <2>4, <2>7, <2>8 DEF RingTypeOK
  <1>7. ASSUME Clear
        PROVE  RingTypeOK' /\ Fifo!Clear
    <2>1. ring' = Cleared(ring) /\ ok' = ok /\ last' = last
      BY <1>7 DEF Clear
    <2>2. Cleared(ring) \in Rings /\ Contents(Cleared(ring)) = <<>>
      BY <1>1, ClearEmpties
    <2>3. Contents(ring)' = <<>>
      BY <2>1, <2>2
    <2>4. Fifo!Clear
      BY <2>1, <2>3 DEF Fifo!Clear
    <2> QED BY <1>1, <2>1, <2>2, <2>4 DEF RingTypeOK
  <1>8. ASSUME UNCHANGED vars
        PROVE  RingTypeOK' /\ UNCHANGED Fifo!vars
    <2>1. ring' = ring /\ ok' = ok /\ last' = last
      BY <1>8 DEF vars
    <2>2. Contents(ring)' = Contents(ring)
      BY <2>1
    <2> QED BY <2>1, <2>2 DEF RingTypeOK, Fifo!vars
  <1> QED
    BY <1>3, <1>4, <1>5, <1>6, <1>7, <1>8 DEF Next, Fifo!Next

\* The positions of the ring buffer never leave its array.
THEOREM RingTyped == Spec => []RingTypeOK
  <1>1. Init => RingTypeOK
    BY RingInit
  <1>2. RingTypeOK /\ [Next]_vars => RingTypeOK'
    BY RingStep
  <1> QED BY <1>1, <1>2, PTL DEF Spec

\* The ring buffer implements the bounded queue of bytes.
THEOREM RingIsFifo == Spec => FifoSpec
  <1>1. Init => Fifo!Init
    BY RingInit
  <1>2. RingTypeOK /\ [Next]_vars => [Fifo!Next]_(Fifo!vars)
    BY RingStep
  <1> QED BY <1>1, <1>2, RingTyped, PTL DEF Spec, FifoSpec, Fifo!Spec

------------------------------------------------------------------------------
(* Allocators: the inductive invariant                                     *)

\* A fixed allocator whose free list holds blocks of its own chunks, once each.
Sound(a) ==
    /\ a \in Allocator
    /\ \A i, j \in DOMAIN a.free : a.free[i] = a.free[j] => i = j
    /\ \A b \in FreeBlocks(a) : b[1] \in a.chunks

\* A block that a caller has belongs to the class of the size it was asked for,
\* or to none when it came from malloc.
Kept(h) ==
    \/ /\ h.bytes \in 1 .. MaxAlloc
       /\ h.bytes <= AllocSize(ClassOf(h.bytes))
       /\ h.block \in UsedBlocks(fixed[ClassOf(h.bytes)])
    \/ h.bytes > MaxAlloc /\ \A i \in Classes : h.block[1] \notin fixed[i].chunks

AInv ==
    /\ fixed \in [Classes -> Allocator]
    /\ \A i \in Classes : Sound(fixed[i])
    /\ \A i, j \in Classes : i # j => fixed[i].chunks \cap fixed[j].chunks = {}
    /\ held \in SUBSET Holdings
    /\ \A h \in held : Kept(h)
    /\ \A h, k \in held : h.block = k.block => h = k
    /\ BlocksConserved

------------------------------------------------------------------------------
(* Fixed allocators                                                        *)

\* alloc takes the head of the list, and nothing else, out of it.
LEMMA PopTakesHead ==
    ASSUME NEW a, Sound(a), a.free # <<>>
    PROVE  /\ Sound(Popped(a)) /\ Popped(a).chunks = a.chunks
           /\ Head(a.free) \in FreeBlocks(a)
           /\ FreeBlocks(Popped(a)) = FreeBlocks(a) \ {Head(a.free)}
<1> DEFINE q == a.free
           r == Popped(a).free
           n == Len(q)
<1>1. /\ q \in Seq(Blocks) /\ q # <<>> /\ r = Tail(q) /\ a.chunks \subseteq Chunks
      /\ Popped(a) \in Allocator /\ Popped(a).chunks = a.chunks
      /\ \A i, j \in DOMAIN q : q[i] = q[j] => i = j
      /\ \A b \in FreeBlocks(a) : b[1] \in a.chunks
  BY DEF Sound, Allocator, Popped
<1>2. /\ n \in Nat /\ n > 0 /\ DOMAIN q = 1..n /\ DOMAIN r = 1..(n - 1)
      /\ \A i \in 1..(n - 1) : r[i] = q[i + 1]
      /\ Head(q) = q[1]
  BY <1>1, HeadTailProperties, LenProperties, EmptySeq
<1>3. FreeBlocks(a) = {q[i] : i \in 1..n} /\ FreeBlocks(Popped(a)) = {r[i] : i \in 1..(n - 1)}
  BY <1>2 DEF FreeBlocks
<1>. HIDE DEF q, r, n
<1>4. /\ 1 \in 1..n /\ \A i \in 1..(n - 1) : i + 1 \in 1..n /\ i + 1 # 1
      /\ \A i \in 1..n : i # 1 => i - 1 \in 1..(n - 1) /\ i = (i - 1) + 1
  BY <1>2
<1>5. \A i, j \in 1..(n - 1) : r[i] = r[j] => i = j
  BY <1>1, <1>2, <1>4
<1>6. {r[i] : i \in 1..(n - 1)} = {q[i] : i \in 1..n} \ {q[1]}
  <2>1. \A i \in 1..(n - 1) : r[i] \in {q[j] : j \in 1..n} \ {q[1]}
    BY <1>1, <1>2, <1>4
  <2>2. \A i \in 1..n : q[i] # q[1] => \E j \in 1..(n - 1) : q[i] = r[j]
    BY <1>2, <1>4
  <2>. QED  BY <2>1, <2>2
<1>7. FreeBlocks(Popped(a)) = FreeBlocks(a) \ {Head(q)} /\ Head(q) \in FreeBlocks(a)
  BY <1>2, <1>3, <1>4, <1>6
<1>. QED  BY <1>1, <1>2, <1>5, <1>7 DEF Sound, q, r

\* free puts the block, and nothing else, into the list.
LEMMA PushAdds ==
    ASSUME NEW a, NEW b \in Blocks, Sound(a), b[1] \in a.chunks, b \notin FreeBlocks(a)
    PROVE  /\ Sound(Pushed(a, b)) /\ Pushed(a, b).chunks = a.chunks
           /\ FreeBlocks(Pushed(a, b)) = FreeBlocks(a) \cup {b}
<1> DEFINE q == a.free
           r == Pushed(a, b).free
           n == Len(q)
<1>1. /\ q \in Seq(Blocks) /\ r = <<b>> \o q /\ a.chunks \subseteq Chunks
      /\ Pushed(a, b).chunks = a.chunks
      /\ Pushed(a, b) = [a EXCEPT !.free = r] /\ a \in Allocator
      /\ \A i, j \in DOMAIN q : q[i] = q[j] => i = j
      /\ \A c \in FreeBlocks(a) : c[1] \in a.chunks
  BY DEF Sound, Allocator, Pushed
<1>2. /\ n \in Nat /\ DOMAIN q = 1..n /\ r \in Seq(Blocks) /\ DOMAIN r = 1..(n + 1)
      /\ r[1] = b /\ \A i \in 1..n : r[i + 1] = q[i]
  <2>1. <<b>> \in Seq(Blocks) /\ Len(<<b>>) = 1 /\ <<b>>[1] = b
    OBVIOUS
  <2>2. n \in Nat /\ DOMAIN q = 1..n
    BY <1>1, LenProperties
  <2>3. /\ r \in Seq(Blocks) /\ Len(r) = 1 + n
        /\ \A i \in 1..(1 + n) : r[i] = IF i <= 1 THEN <<b>>[i] ELSE q[i - 1]
    BY <1>1, <2>1, <2>2, ConcatProperties
  <2>4. DOMAIN r = 1..(n + 1) /\ 1 \in 1..(1 + n)
    BY <2>2, <2>3, LenProperties
  <2>5. \A i \in 1..n : i + 1 \in 1..(1 + n) /\ ~(i + 1 <= 1) /\ (i + 1) - 1 = i
    BY <2>2
  <2>. QED  BY <2>1, <2>2, <2>3, <2>4, <2>5
<1>3. FreeBlocks(a) = {q[i] : i \in 1..n} /\ FreeBlocks(Pushed(a, b)) = {r[i] : i \in 1..(n + 1)}
  BY <1>2 DEF FreeBlocks
<1>4. Pushed(a, b) \in Allocator
  BY <1>1, <1>2 DEF Allocator
<1>. HIDE DEF q, r, n
<1>5. /\ 1 \in 1..(n + 1) /\ \A i \in 1..n : i + 1 \in 1..(n + 1)
      /\ \A i \in 1..(n + 1) : i # 1 => i - 1 \in 1..n /\ i = (i - 1) + 1
  BY <1>2
<1>6. {r[i] : i \in 1..(n + 1)} = {q[i] : i \in 1..n} \cup {b}
  <2>1. \A i \in 1..(n + 1) : r[i] = b \/ \E j \in 1..n : r[i] = q[j]
    BY <1>2, <1>5
  <2>2. \A i \in 1..n : \E j \in 1..(n + 1) : q[i] = r[j]
    BY <1>2, <1>5
  <2>. QED  BY <1>2, <1>5, <2>1, <2>2
<1>7. \A i, j \in 1..(n + 1) : r[i] = r[j] => i = j
  <2>1. \A i \in 1..n : q[i] # b
    BY <1>3
  <2>. QED  BY <1>1, <1>2, <1>5, <2>1
<1>8. \A c \in FreeBlocks(a) \cup {b} : c[1] \in a.chunks
  BY <1>1
<1>. QED  BY <1>1, <1>2, <1>3, <1>4, <1>6, <1>7, <1>8 DEF Sound, r

\* fill_free_node makes every block of the chunk free, once.
LEMMA FillAddsChunk ==
    ASSUME NEW a, NEW c \in Chunks, Sound(a), a.free = <<>>
    PROVE  /\ Sound(Filled(a, c)) /\ Filled(a, c).chunks = a.chunks \cup {c}
           /\ FreeBlocks(Filled(a, c)) = BlocksOf(c)
           /\ Filled(a, c).free # <<>>
<1> DEFINE q == [i \in 1 .. ChunkSize |-> <<c, i>>]
<1>1. /\ \A i \in 1 .. ChunkSize : <<c, i>> \in Blocks
      /\ ChunkSize \in Nat /\ ChunkSize > 0
  BY FixedAllocatorAssumption DEF Blocks
<1>2. q \in Seq(Blocks) /\ Len(q) = ChunkSize /\ DOMAIN q = 1 .. ChunkSize
  BY <1>1
<1>3. Filled(a, c).free = q
  <2>1. Filled(a, c).free = q \o <<>>
    BY DEF Filled
  <2>. HIDE DEF q
  <2>. QED  BY <1>2, <2>1, ConcatEmptySeq
<1>4. Filled(a, c).chunks = a.chunks \cup {c} /\ Filled(a, c) \in Allocator
  <2>1. Filled(a, c) = [chunks |-> a.chunks \cup {c}, free |-> Filled(a, c).free]
    BY DEF Filled
  <2>2. a.chunks \cup {c} \in SUBSET Chunks
    BY DEF Sound, Allocator
  <2>3. Filled(a, c).free \in Seq(Blocks)
    BY <1>2, <1>3
  <2>. HIDE DEF q
  <2>4. Filled(a, c) \in Allocator
    BY <2>1, <2>2, <2>3 DEF Allocator
  <2>. QED  BY <2>1, <2>4
<1>5. FreeBlocks(Filled(a, c)) = BlocksOf(c)
  <2>1. FreeBlocks(Filled(a, c)) = {<<c, i>> : i \in 1 .. ChunkSize}
    BY <1>3, <1>2 DEF FreeBlocks
  <2>. QED  BY <2>1 DEF BlocksOf
<1>6. \A i, j \in DOMAIN q : q[i] = q[j] => i = j
  BY <1>2
<1>7. \A b \in BlocksOf(c) : b[1] = c
  BY DEF BlocksOf
<1>8. q # <<>>
  BY <1>1, <1>2, EmptySeq
<1>. QED  BY <1>3, <1>4, <1>5, <1>6, <1>7, <1>8 DEF Sound

\* The first half of alloc: the list has a head, and no block that was in use
\* has become free or the other way round.
LEMMA RefillKeepsUse ==
    ASSUME NEW a, Sound(a), NEW spare \in SUBSET (Chunks \ a.chunks), NEW b \in Refilled(a, spare)
    PROVE  /\ Sound(b) /\ b.free # <<>> /\ UsedBlocks(b) = UsedBlocks(a)
           /\ \A d \in b.chunks : d \in a.chunks \/ d \in spare
           /\ a.chunks \subseteq b.chunks
<1>1. CASE a.free # <<>>
  BY <1>1 DEF Refilled
<1>2. CASE a.free = <<>>
  <2>1. PICK c \in spare : b = Filled(a, c)
    BY <1>2 DEF Refilled
  <2>2. /\ Sound(b) /\ b.chunks = a.chunks \cup {c} /\ FreeBlocks(b) = BlocksOf(c)
        /\ b.free # <<>>
    BY <1>2, <2>1, FillAddsChunk
  <2>3. FreeBlocks(a) = {}
    BY <1>2 DEF FreeBlocks
  <2>4. UsedBlocks(b) = UsedBlocks(a)
    <3>1. \A d \in Blocks : d[1] = c <=> d \in BlocksOf(c)
      BY DEF Blocks, BlocksOf
    <3>. QED  BY <2>2, <2>3, <3>1 DEF UsedBlocks
  <2>. QED  BY <2>2, <2>4
<1>. QED  BY <1>1, <1>2

------------------------------------------------------------------------------
(* The general allocator                                                   *)

\* Every size up to the largest class has a class.
LEMMA ClassInside ==
    ASSUME NEW n \in 1 .. MaxAlloc
    PROVE  ClassOf(n) \in Classes
<1> DEFINE c == (n - 1) \div GrowSize
<1>1. GrowSize \in Nat /\ GrowSize > 0 /\ AllocCount \in Nat /\ n \in Int /\ n > 0
      /\ n <= GrowSize * AllocCount
  BY GeneralAllocatorAssumption DEF MaxAlloc
<1>2. c \in Nat /\ GrowSize * c <= n - 1
  BY <1>1
<1>. HIDE DEF c
<1>3. c < AllocCount
  <2>1. SUFFICES ASSUME c >= AllocCount PROVE FALSE
    BY <1>1, <1>2
  <2>2. GrowSize * c >= GrowSize * AllocCount
    BY <1>1, <1>2, <2>1
  <2>. QED  BY <1>1, <1>2, <2>2
<1>. QED  BY <1>1, <1>2, <1>3 DEF ClassOf, Classes, c

\* What callers have is in use in its class, or in no chunk of a class.
LEMMA HeldBlocks ==
    ASSUME AInv, NEW h \in held, NEW i \in Classes
    PROVE  /\ h.block \in Blocks /\ h.bytes \in Nat
           /\ h.block[1] \in fixed[i].chunks =>
                 /\ h.bytes \in 1 .. MaxAlloc /\ i = ClassOf(h.bytes)
                 /\ h.bytes <= AllocSize(i)
                 /\ h.block \in UsedBlocks(fixed[i])
<1>1. h.block \in Blocks /\ h.bytes \in Nat /\ Kept(h)
  BY DEF AInv, Holdings
<1>2. ASSUME h.block[1] \in fixed[i].chunks, h.bytes \in 1 .. MaxAlloc,
             h.block \in UsedBlocks(fixed[ClassOf(h.bytes)])
      PROVE  i = ClassOf(h.bytes)
  <2>1. ClassOf(h.bytes) \in Classes /\ h.block[1] \in fixed[ClassOf(h.bytes)].chunks
    BY <1>2, ClassInside DEF UsedBlocks
  <2>. QED  BY <1>2, <2>1 DEF AInv
<1>. QED  BY <1>1, <1>2 DEF Kept

\* What the heap can still give is in no chunk of a class and no caller has it.
LEMMA SpareChunks ==
    /\ Spare \subseteq Chunks
    /\ \A j \in Classes : \A d \in Spare : d \notin fixed[j].chunks
    /\ \A h \in held : h.block[1] \notin Spare
<1> DEFINE all == {fixed[i].chunks : i \in Classes}
           lent == {h.block[1] : h \in held}
<1>1. (\A j \in Classes : fixed[j].chunks \in all) /\ \A h \in held : h.block[1] \in lent
  OBVIOUS
<1>2. Spare = Chunks \ ((UNION all) \cup lent)
  BY DEF Spare
<1>. HIDE DEF all, lent
<1>3. \A S \in all : \A d \in S : d \in UNION all
  OBVIOUS
<1>4. \A d \in Spare : d \in Chunks /\ d \notin UNION all /\ d \notin lent
  BY <1>2
<1>. QED  BY <1>1, <1>3, <1>4

\* alloc of a size that has a class.
LEMMA AllocSmallKeeps ==
    ASSUME AInv, NEW n \in Nat, AllocSmall(n)
    PROVE  AInv'
<1> DEFINE i == ClassOf(n)
<1>1. /\ n \in 1 .. MaxAlloc /\ i \in Classes /\ n <= AllocSize(i)
      /\ fixed \in [Classes -> Allocator] /\ Sound(fixed[i])
  BY ClassInside DEF AllocSmall, AInv
<1>2. PICK a \in Refilled(fixed[i], Spare) :
         /\ fixed' = [fixed EXCEPT ![i] = Popped(a)]
         /\ held' = held \cup {[block |-> Head(a.free), bytes |-> n]}
  BY DEF AllocSmall
<1> DEFINE b == Head(a.free)
           new == [block |-> b, bytes |-> n]
           f == fixed'[i]
<1>. HIDE DEF i
<1>3. Spare \subseteq Chunks \ fixed[i].chunks
  BY <1>1, SpareChunks
<1>4. /\ Sound(a) /\ a.free # <<>> /\ UsedBlocks(a) = UsedBlocks(fixed[i])
      /\ \A d \in a.chunks : d \in fixed[i].chunks \/ d \in Spare
      /\ fixed[i].chunks \subseteq a.chunks
  BY <1>1, <1>2, <1>3, RefillKeepsUse
<1>5. /\ Sound(Popped(a)) /\ Popped(a).chunks = a.chunks
      /\ b \in FreeBlocks(a) /\ FreeBlocks(Popped(a)) = FreeBlocks(a) \ {b}
  BY <1>4, PopTakesHead
<1>6. b \in Blocks /\ b[1] \in a.chunks /\ b \notin UsedBlocks(a)
  <2>1. \A c \in FreeBlocks(a) : c \in Blocks
    BY <1>4, ElementOfSeq, LenProperties DEF Sound, Allocator, FreeBlocks
  <2>. QED  BY <1>4, <1>5, <2>1 DEF Sound, UsedBlocks
<1>7. /\ f = Popped(a) /\ fixed' \in [Classes -> Allocator]
      /\ \A j \in Classes \ {i} : fixed'[j] = fixed[j]
  BY <1>1, <1>2, <1>5 DEF Sound
<1>8. UsedBlocks(f) = UsedBlocks(fixed[i]) \cup {b}
  BY <1>4, <1>5, <1>6, <1>7 DEF UsedBlocks
<1>9. /\ f.chunks = a.chunks
      /\ \A d \in f.chunks : d \in fixed[i].chunks \/ d \in Spare
      /\ \A j \in Classes : \A d \in Spare : d \notin fixed[j].chunks
      /\ \A h \in held : h.block[1] \notin Spare
  <2>1. f.chunks = a.chunks
    BY <1>5, <1>7
  <2>2. /\ \A j \in Classes : \A d \in Spare : d \notin fixed[j].chunks
        /\ \A h \in held : h.block[1] \notin Spare
    BY SpareChunks
  <2>. HIDE DEF f
  <2>. QED  BY <1>4, <2>1, <2>2
<1>. HIDE DEF b, f
<1>10. \A j \in Classes : Sound(fixed'[j])
  BY <1>5, <1>7 DEF AInv, f
<1>11. \A j, k \in Classes : j # k => fixed'[j].chunks \cap fixed'[k].chunks = {}
  <2>1. \A j \in Classes \ {i} : f.chunks \cap fixed[j].chunks = {}
    BY <1>1, <1>9 DEF AInv
  <2>. QED  BY <1>7, <2>1 DEF AInv, f
<1>12. held' \in SUBSET Holdings
  BY <1>1, <1>2, <1>6 DEF AInv, Holdings, b
<1>13. ASSUME NEW h \in held PROVE Kept(h)'
  <2>1. Kept(h)
    BY DEF AInv
  <2>2. CASE h.bytes \in 1 .. MaxAlloc /\ h.block \in UsedBlocks(fixed[ClassOf(h.bytes)])
             /\ h.bytes <= AllocSize(ClassOf(h.bytes))
    <3>1. ClassOf(h.bytes) \in Classes
      BY <2>2, ClassInside
    <3>2. h.block \in UsedBlocks(fixed'[ClassOf(h.bytes)])
      BY <1>7, <1>8, <2>2, <3>1 DEF f
    <3>. QED  BY <2>2, <3>2 DEF Kept
  <2>3. CASE h.bytes > MaxAlloc /\ \A j \in Classes : h.block[1] \notin fixed[j].chunks
    <3>1. \A j \in Classes : h.block[1] \notin fixed'[j].chunks
      BY <1>1, <1>7, <1>9, <2>3 DEF f
    <3>. QED  BY <2>3, <3>1 DEF Kept
  <2>. QED  BY <2>1, <2>2, <2>3 DEF Kept
<1>14. Kept(new)'
  <2>1. b \in UsedBlocks(fixed'[i])
    BY <1>8 DEF f
  <2>. QED  BY <1>1, <2>1 DEF Kept, i
<1>15. ASSUME NEW h \in held PROVE h.block # b
  <2>1. SUFFICES ASSUME h.block = b PROVE FALSE
    OBVIOUS
  <2>2. b[1] \in fixed[i].chunks
    BY <1>6, <1>4, <1>9, <2>1
  <2>3. b \in UsedBlocks(fixed[i])
    BY <1>1, <2>1, <2>2, HeldBlocks
  <2>. QED  BY <1>4, <1>6, <2>3
<1>16. \A h, k \in held' : h.block = k.block => h = k
  BY <1>2, <1>15 DEF AInv, b
<1>17. BlocksConserved'
  <2>1. \A j \in Classes : UsedBlocks(fixed[j]) \subseteq {h.block : h \in held}
    BY DEF AInv, BlocksConserved
  <2>2. {h.block : h \in held'} = {h.block : h \in held} \cup {b}
    <3>1. held' = held \cup {new} /\ new.block = b
      BY <1>2 DEF b
    <3>. HIDE DEF new
    <3>. QED  BY <3>1
  <2>3. \A j \in Classes : UsedBlocks(fixed'[j]) \subseteq {h.block : h \in held'}
    BY <1>1, <1>7, <1>8, <2>1, <2>2 DEF f
  <2>. QED  BY <2>3 DEF BlocksConserved, UsedBlocks, FreeBlocks
<1>18. \A h \in held' : Kept(h)'
  BY <1>2, <1>13, <1>14 DEF b
<1>. QED  BY <1>7, <1>10, <1>11, <1>12, <1>16, <1>17, <1>18 DEF AInv

\* alloc of a larger size: a block of its own from malloc.
LEMMA AllocLargeKeeps ==
    ASSUME AInv, NEW n \in Nat, AllocLarge(n)
    PROVE  AInv'
<1>1. PICK c \in Spare : held' = held \cup {[block |-> <<c, 1>>, bytes |-> n]}
  BY DEF AllocLarge
<1> DEFINE b == <<c, 1>>
           new == [block |-> b, bytes |-> n]
<1>2. /\ n > MaxAlloc /\ fixed' = fixed /\ c \in Chunks /\ b[1] = c
      /\ \A i \in Classes : c \notin fixed[i].chunks
      /\ \A h \in held : h.block[1] # c
  BY SpareChunks DEF AllocLarge
<1>3. b \in Blocks /\ new \in Holdings /\ new.block = b /\ new.bytes = n
  BY <1>2, FixedAllocatorAssumption DEF Blocks, Holdings
<1>. HIDE DEF b, new
<1>4. held' = held \cup {new}
  BY <1>1 DEF new, b
<1>5. \A h \in held' : Kept(h)'
  <2>1. \A h \in held : Kept(h)'
    BY <1>2 DEF AInv, Kept
  <2>2. Kept(new)'
    BY <1>2, <1>3 DEF Kept
  <2>. QED  BY <1>4, <2>1, <2>2
<1>6. \A h, k \in held' : h.block = k.block => h = k
  BY <1>2, <1>3, <1>4 DEF AInv
<1>7. BlocksConserved'
  BY <1>2, <1>4 DEF AInv, BlocksConserved
<1>8. held' \in SUBSET Holdings
  BY <1>3, <1>4 DEF AInv
<1>. QED  BY <1>2, <1>5, <1>6, <1>7, <1>8 DEF AInv

\* free: the block goes back to the class it was taken from.
LEMMA FreeKeeps ==
    ASSUME AInv, NEW h \in held, Free(h)
    PROVE  AInv'
<1>1. /\ held' = held \ {h} /\ held' \in SUBSET Holdings
      /\ \A k, l \in held' : k.block = l.block => k = l
      /\ \A k \in held' : k \in held /\ k.block # h.block
  BY DEF Free, AInv
<1>2. Kept(h) /\ h.block \in Blocks /\ h.bytes \in Nat
  BY DEF AInv, Holdings
<1>3. CASE h.bytes > MaxAlloc
  <2>1. fixed' = fixed
    BY <1>3 DEF Free
  <2>2. \A k \in held' : Kept(k)'
    BY <1>1, <2>1 DEF AInv, Kept
  <2>3. BlocksConserved'
    <3>1. \A i \in Classes : h.block[1] \notin fixed[i].chunks
      <4>1. MaxAlloc \in Nat
        BY GeneralAllocatorAssumption DEF MaxAlloc
      <4>. QED  BY <1>2, <1>3, <4>1 DEF Kept
    <3>2. ASSUME NEW i \in Classes, NEW b \in UsedBlocks(fixed[i])
          PROVE  \E k \in held' : b = k.block
      <4>1. PICK k \in held : b = k.block
        BY DEF AInv, BlocksConserved
      <4>2. k # h
        BY <3>1, <4>1 DEF UsedBlocks
      <4>. QED  BY <1>1, <4>1, <4>2
    <3>. QED  BY <2>1, <3>2 DEF BlocksConserved
  <2>. QED  BY <1>1, <2>1, <2>2, <2>3 DEF AInv
<1>4. CASE ~(h.bytes > MaxAlloc)
  <2> DEFINE i == ClassOf(h.bytes)
             a == fixed[i]
             f == fixed'[i]
             b == h.block
  <2>1. i \in Classes /\ b \in UsedBlocks(a) /\ Sound(a) /\ fixed \in [Classes -> Allocator]
    BY <1>2, <1>4, ClassInside DEF Kept, AInv
  <2>2. fixed' = [fixed EXCEPT ![i] = Pushed(@, b)]
    BY <1>4 DEF Free
  <2>. HIDE DEF i
  <2>3. b[1] \in a.chunks /\ b \notin FreeBlocks(a)
    BY <2>1 DEF UsedBlocks
  <2>4. /\ Sound(Pushed(a, b)) /\ Pushed(a, b).chunks = a.chunks
        /\ FreeBlocks(Pushed(a, b)) = FreeBlocks(a) \cup {b}
    BY <1>2, <2>1, <2>3, PushAdds
  <2>5. f = Pushed(a, b) /\ \A j \in Classes \ {i} : fixed'[j] = fixed[j]
    BY <2>1, <2>2
  <2>6. UsedBlocks(f) = UsedBlocks(a) \ {b}
    BY <2>4, <2>5 DEF UsedBlocks
  <2>7. fixed' \in [Classes -> Allocator] /\ \A j \in Classes : Sound(fixed'[j])
    BY <2>1, <2>2, <2>4, <2>5 DEF AInv, Sound
  <2>8. \A j \in Classes : fixed'[j].chunks = fixed[j].chunks
    BY <2>4, <2>5
  <2>9. ASSUME NEW k \in held' PROVE Kept(k)'
    <3>1. Kept(k) /\ k.block # b
      BY <1>1 DEF AInv
    <3>2. CASE k.bytes \in 1 .. MaxAlloc /\ k.block \in UsedBlocks(fixed[ClassOf(k.bytes)])
               /\ k.bytes <= AllocSize(ClassOf(k.bytes))
      <4>1. ClassOf(k.bytes) \in Classes
        BY <3>2, ClassInside
      <4>2. k.block \in UsedBlocks(fixed'[ClassOf(k.bytes)])
        BY <2>5, <2>6, <3>1, <3>2, <4>1
      <4>. QED  BY <3>2, <4>2 DEF Kept
    <3>3. CASE k.bytes > MaxAlloc /\ \A j \in Classes : k.block[1] \notin fixed[j].chunks
      BY <2>8, <3>3 DEF Kept
    <3>. QED  BY <3>1, <3>2, <3>3 DEF Kept
  <2>10. BlocksConserved'
    <3>1. ASSUME NEW j \in Classes, NEW d \in UsedBlocks(fixed'[j])
          PROVE  \E k \in held' : d = k.block
      <4>1. d \in UsedBlocks(fixed[j]) /\ d # b
        <5>1. CASE j = i
          BY <2>6, <5>1
        <5>2. CASE j # i
          <6>1. fixed[i].chunks \cap fixed[j].chunks = {}
            BY <2>1, <5>2 DEF AInv
          <6>. QED  BY <2>3, <2>5, <5>2, <6>1 DEF UsedBlocks
        <5>. QED  BY <5>1, <5>2
      <4>2. PICK k \in held : d = k.block
        BY <4>1 DEF AInv, BlocksConserved
      <4>. QED  BY <1>1, <4>1, <4>2
    <3>. QED  BY <3>1 DEF BlocksConserved
  <2>. QED  BY <1>1, <2>7, <2>8, <2>9, <2>10 DEF AInv
<1>. QED  BY <1>3, <1>4

------------------------------------------------------------------------------
(* The theorems                                                            *)

\* Initially there is no chunk.
LEMMA InitAInv == AllocInit => AInv
<1> SUFFICES ASSUME AllocInit PROVE AInv
  OBVIOUS
<1>1. /\ fixed \in [Classes -> Allocator] /\ held = {}
      /\ \A i \in Classes : fixed[i] = NewAllocator
  BY DEF AllocInit, NewAllocator, Allocator
<1>2. Sound(NewAllocator) /\ NewAllocator.chunks = {} /\ UsedBlocks(NewAllocator) = {}
  BY DEF NewAllocator, Sound, Allocator, FreeBlocks, UsedBlocks
<1>. QED  BY <1>1, <1>2 DEF AInv, BlocksConserved

\* Every call keeps the invariant.
LEMMA NextAInv == AInv /\ [AllocNext]_allocVars => AInv'
<1> SUFFICES ASSUME AInv, [AllocNext]_allocVars PROVE AInv'
  OBVIOUS
<1>1. CASE UNCHANGED allocVars
  BY <1>1 DEF allocVars, AInv, Kept, BlocksConserved
<1>2. ASSUME NEW n \in 0 .. MaxBytes, AllocSmall(n) \/ AllocLarge(n) \/ AllocFails(n)
      PROVE  AInv'
  <2>1. n \in Nat
    BY GeneralAllocatorAssumption
  <2>. QED  BY <1>1, <1>2, <2>1, AllocSmallKeeps, AllocLargeKeeps DEF AllocFails
<1>. QED  BY <1>1, <1>2, FreeKeeps DEF AllocNext

\* The invariant holds after every sequence of calls.
THEOREM AllocatorInvariance == AllocSpec => []AInv
BY InitAInv, NextAInv, PTL DEF AllocSpec

\* The free lists of all classes and the callers have each block once: alloc
\* gives no block out twice and free puts none where it is already.
THEOREM BlocksAreExclusive == AllocSpec => []BlocksExclusive
<1>1. ASSUME AInv PROVE BlocksExclusive
  <2>1. ASSUME NEW i \in Classes, NEW h \in held PROVE h.block \notin FreeBlocks(fixed[i])
    <3>1. h.block \in FreeBlocks(fixed[i]) => h.block[1] \in fixed[i].chunks
      BY <1>1 DEF AInv, Sound
    <3>2. h.block[1] \in fixed[i].chunks => h.block \in UsedBlocks(fixed[i])
      BY <1>1, HeldBlocks
    <3>. QED  BY <3>1, <3>2 DEF UsedBlocks
  <2>2. \A i, j \in Classes : i # j => FreeBlocks(fixed[i]) \cap FreeBlocks(fixed[j]) = {}
    BY <1>1 DEF AInv, Sound
  <2>. QED  BY <1>1, <2>1, <2>2 DEF BlocksExclusive, AInv, Sound
<1>. QED  BY <1>1, AllocatorInvariance, PTL

\* A block that a caller has is as large as was asked for, since alloc and free
\* of a size agree on its class.
THEOREM BlocksAreLarge == AllocSpec => []BlocksFit
<1>1. AInv => BlocksFit
  BY HeldBlocks DEF BlocksFit
<1>. QED  BY <1>1, AllocatorInvariance, PTL

\* Every block of every chunk is free or somebody has it.
THEOREM BlocksAreConserved == AllocSpec => []BlocksConserved
<1>1. AInv => BlocksConserved
  BY DEF AInv
<1>. QED  BY <1>1, AllocatorInvariance, PTL

\* Both variables keep their types; in particular no free list ever holds what is
\* no block.
THEOREM AllocTyped == AllocSpec => []AllocTypeOK
<1>1. AInv => AllocTypeOK
  BY DEF AInv, AllocTypeOK
<1>. QED  BY <1>1, AllocatorInvariance, PTL

------------------------------------------------------------------------------
\* The i-th element of the circle through h with the elements of s behind it.
At(h, s, i) == IF i \in 1 .. Len(s) THEN s[i] ELSE h

\* The pointers nx and pv are that circle, in both directions.
Ringed(nx, pv, h, s) ==
    \A i \in 0 .. Len(s) : nx[At(h, s, i)] = At(h, s, i + 1) /\ pv[At(h, s, i + 1)] = At(h, s, i)

\* The sequence t is s with m behind its first k elements, or without its k-th.
IsInserted(t, s, k, m) ==
    /\ Len(t) = Len(s) + 1
    /\ \A i \in 1 .. Len(s) + 1 :
          t[i] = IF i <= k THEN s[i] ELSE IF i = k + 1 THEN m ELSE s[i - 1]
IsRemoved(t, s, k) ==
    /\ Len(t) = Len(s) - 1
    /\ \A i \in 1 .. Len(s) - 1 : t[i] = IF i < k THEN s[i] ELSE s[i + 1]

\* What is in a sequence.
Elements(s) == {s[i] : i \in 1 .. Len(s)}

\* A sequence without repetitions that does not contain h.
Simple(h, s) ==
    /\ \A i, j \in 1 .. Len(s) : s[i] = s[j] => i = j
    /\ \A i \in 1 .. Len(s) : s[i] # h

\* The places of a circle differ, but that it begins and ends with its head.
LEMMA PlacesDiffer ==
    ASSUME NEW S, NEW s \in Seq(S), NEW h, Simple(h, s),
           NEW i \in 0 .. Len(s) + 1, NEW j \in 0 .. Len(s) + 1, At(h, s, i) = At(h, s, j)
    PROVE  i = j \/ (i = 0 /\ j = Len(s) + 1) \/ (i = Len(s) + 1 /\ j = 0)
<1>1. Len(s) \in Nat
  BY LenProperties
<1>2. CASE i \in 1 .. Len(s) /\ j \in 1 .. Len(s)
  BY <1>2 DEF At, Simple
<1>3. CASE ~(i \in 1 .. Len(s) /\ j \in 1 .. Len(s))
  BY <1>1, <1>3 DEF At, Simple
<1>. QED  BY <1>2, <1>3

\* Linking a new element in between two neighbours puts it there in both directions.
LEMMA LinkIn ==
    ASSUME NEW P, NEW nx, NEW pv, NEW h \in P, NEW S, NEW s \in Seq(S), NEW m \in P, NEW t \in Seq(S),
           S \subseteq P, DOMAIN nx = P, DOMAIN pv = P,
           Simple(h, s), m # h, \A i \in 1 .. Len(s) : s[i] # m,
           NEW k \in 0 .. Len(s), IsInserted(t, s, k, m), Ringed(nx, pv, h, s)
    PROVE  Ringed([nx EXCEPT ![m] = At(h, s, k + 1), ![At(h, s, k)] = m],
                  [pv EXCEPT ![m] = At(h, s, k), ![At(h, s, k + 1)] = m], h, t)
<1> DEFINE n == Len(s)
           p == At(h, s, k)
           q == At(h, s, k + 1)
           nx1 == [nx EXCEPT ![m] = q, ![p] = m]
           pv1 == [pv EXCEPT ![m] = p, ![q] = m]
<1>1. n \in Nat /\ Len(t) = n + 1 /\ k \in Nat /\ k <= n
  BY LenProperties DEF IsInserted
<1>2. \A i \in 0 .. n + 1 : At(h, s, i) \in P /\ At(h, s, i) # m
  BY <1>1, ElementOfSeq DEF At
<1>3. /\ \A i \in 0 .. k : At(h, t, i) = At(h, s, i)
      /\ At(h, t, k + 1) = m
      /\ \A i \in k + 2 .. n + 2 : At(h, t, i) = At(h, s, i - 1)
  <2>1. \A i \in 0 .. k : At(h, t, i) = At(h, s, i)
    BY <1>1 DEF At, IsInserted
  <2>2. At(h, t, k + 1) = m
    BY <1>1 DEF At, IsInserted
  <2>3. \A i \in k + 2 .. n + 2 : At(h, t, i) = At(h, s, i - 1)
    BY <1>1 DEF At, IsInserted
  <2>. QED  BY <2>1, <2>2, <2>3
<1>4. p \in P /\ q \in P /\ p # m /\ q # m
  BY <1>1, <1>2
<1>5. /\ nx1[p] = m /\ nx1[m] = q /\ pv1[q] = m /\ pv1[m] = p
      /\ \A x \in P : x # p /\ x # m => nx1[x] = nx[x]
      /\ \A x \in P : x # q /\ x # m => pv1[x] = pv[x]
  BY <1>4
<1>6. \A i \in 0 .. n : i # k => At(h, s, i) # p
  <2>. SUFFICES ASSUME NEW i \in 0 .. n, i # k, At(h, s, i) = p PROVE FALSE
    OBVIOUS
  <2>1. i \in 0 .. Len(s) + 1 /\ k \in 0 .. Len(s) + 1
    BY <1>1
  <2>. QED  BY <1>1, <2>1, PlacesDiffer
<1>7. \A i \in 1 .. n + 1 : i # k + 1 => At(h, s, i) # q
  <2>. SUFFICES ASSUME NEW i \in 1 .. n + 1, i # k + 1, At(h, s, i) = q PROVE FALSE
    OBVIOUS
  <2>1. i \in 0 .. Len(s) + 1 /\ k + 1 \in 0 .. Len(s) + 1
    BY <1>1
  <2>. QED  BY <1>1, <2>1, PlacesDiffer
<1>8. \A i \in 0 .. n : i # k => nx1[At(h, s, i)] = At(h, s, i + 1)
  BY <1>1, <1>2, <1>5, <1>6 DEF Ringed
<1>9. \A i \in 0 .. n : i # k => pv1[At(h, s, i + 1)] = At(h, s, i)
  <2>1. \A i \in 0 .. n : i # k => i + 1 \in 1 .. n + 1 /\ i + 1 # k + 1 /\ i + 1 \in 0 .. n + 1
    BY <1>1
  <2>. QED  BY <1>1, <1>2, <1>5, <1>7, <2>1 DEF Ringed
<1>. HIDE DEF nx1, pv1, p, q, n
<1>10. ASSUME NEW i \in 0 .. n + 1
       PROVE  nx1[At(h, t, i)] = At(h, t, i + 1) /\ pv1[At(h, t, i + 1)] = At(h, t, i)
  <2>1. CASE i < k
    <3>1. /\ i \in 0 .. k /\ i + 1 \in 0 .. k /\ i \in 0 .. n /\ i # k
      BY <1>1, <2>1
    <3>. QED  BY <1>3, <1>8, <1>9, <3>1
  <2>2. CASE i = k
    <3>1. At(h, t, i) = p /\ At(h, t, i + 1) = m
      BY <1>1, <1>3, <2>2 DEF p
    <3>. QED  BY <1>5, <3>1
  <2>3. CASE i = k + 1
    <3>1. At(h, t, i) = m /\ i + 1 \in k + 2 .. n + 2 /\ (i + 1) - 1 = k + 1
      BY <1>1, <1>3, <2>3
    <3>2. At(h, t, i + 1) = q
      BY <1>3, <3>1 DEF q
    <3>. QED  BY <1>5, <3>1, <3>2
  <2>4. CASE i > k + 1
    <3>1. PICK j \in 0 .. n : j = i - 1
      BY <1>1, <2>4
    <3>2. /\ i \in k + 2 .. n + 2 /\ i + 1 \in k + 2 .. n + 2
          /\ i - 1 = j /\ (i + 1) - 1 = j + 1 /\ j # k
      BY <1>1, <2>4, <3>1
    <3>3. At(h, t, i) = At(h, s, j) /\ At(h, t, i + 1) = At(h, s, j + 1)
      BY <1>3, <3>2
    <3>. QED  BY <1>8, <1>9, <3>2, <3>3
  <2>. QED  BY <1>1, <2>1, <2>2, <2>3, <2>4
<1>. QED  BY <1>1, <1>10 DEF Ringed, nx1, pv1, p, q, n

\* Unlinking the k-th element takes it, and nothing else, out of the circle.
LEMMA LinkOut ==
    ASSUME NEW P, NEW nx, NEW pv, NEW h \in P, NEW S, NEW s \in Seq(S), NEW t \in Seq(S),
           S \subseteq P, DOMAIN nx = P, DOMAIN pv = P,
           Simple(h, s), NEW k \in 1 .. Len(s), IsRemoved(t, s, k), Ringed(nx, pv, h, s)
    PROVE  /\ nx[s[k]] = At(h, s, k + 1) /\ pv[s[k]] = At(h, s, k - 1)
           /\ Ringed([nx EXCEPT ![At(h, s, k - 1)] = At(h, s, k + 1), ![s[k]] = s[k]],
                     [pv EXCEPT ![At(h, s, k + 1)] = At(h, s, k - 1), ![s[k]] = s[k]], h, t)
<1> DEFINE n == Len(s)
           p == At(h, s, k - 1)
           q == At(h, s, k + 1)
           m == s[k]
           nx1 == [nx EXCEPT ![p] = q, ![m] = m]
           pv1 == [pv EXCEPT ![q] = p, ![m] = m]
<1>1. n \in Nat /\ Len(t) = n - 1 /\ k \in Nat /\ 1 <= k /\ k <= n
  BY LenProperties DEF IsRemoved
<1>2. \A i \in 0 .. n + 1 : At(h, s, i) \in P
  BY <1>1, ElementOfSeq DEF At
<1>3. /\ m = At(h, s, k)
      /\ \A i \in 0 .. k - 1 : At(h, t, i) = At(h, s, i)
      /\ \A i \in k .. n : At(h, t, i) = At(h, s, i + 1)
  <2>1. \A i \in 0 .. k - 1 : At(h, t, i) = At(h, s, i)
    BY <1>1 DEF At, IsRemoved
  <2>2. \A i \in k .. n : At(h, t, i) = At(h, s, i + 1)
    BY <1>1 DEF At, IsRemoved
  <2>. QED  BY <1>1, <2>1, <2>2 DEF At
<1>4. \A i \in 0 .. n + 1 : i # k => At(h, s, i) # m
  BY <1>1, <1>3, PlacesDiffer
<1>5. nx[m] = q /\ pv[m] = p
  <2>1. k \in 0 .. n /\ k - 1 \in 0 .. n /\ (k - 1) + 1 = k
    BY <1>1
  <2>. QED  BY <1>3, <2>1 DEF Ringed
<1>6. k - 1 \in 0 .. n + 1 /\ k + 1 \in 0 .. n + 1 /\ k - 1 # k /\ k + 1 # k
  BY <1>1
<1>7. p \in P /\ q \in P /\ m \in P /\ p # m /\ q # m
  <2>1. k \in 0 .. n + 1
    BY <1>1
  <2>. QED  BY <1>2, <1>3, <1>4, <1>6, <2>1
<1>8. /\ nx1[p] = q /\ pv1[q] = p
      /\ \A x \in P : x # p /\ x # m => nx1[x] = nx[x]
      /\ \A x \in P : x # q /\ x # m => pv1[x] = pv[x]
  BY <1>7
<1>9. \A i \in 0 .. n : i # k - 1 => At(h, s, i) # p
  <2>. SUFFICES ASSUME NEW i \in 0 .. n, i # k - 1, At(h, s, i) = p PROVE FALSE
    OBVIOUS
  <2>1. i \in 0 .. Len(s) + 1 /\ k - 1 \in 0 .. Len(s) + 1
    BY <1>1
  <2>. QED  BY <1>1, <2>1, PlacesDiffer
<1>10. \A i \in 1 .. n + 1 : i # k + 1 => At(h, s, i) # q
  <2>. SUFFICES ASSUME NEW i \in 1 .. n + 1, i # k + 1, At(h, s, i) = q PROVE FALSE
    OBVIOUS
  <2>1. i \in 0 .. Len(s) + 1 /\ k + 1 \in 0 .. Len(s) + 1
    BY <1>1
  <2>. QED  BY <1>1, <2>1, PlacesDiffer
<1>11. \A i \in 0 .. n : i # k /\ i # k - 1 =>
           nx1[At(h, s, i)] = At(h, s, i + 1) /\ pv1[At(h, s, i + 1)] = At(h, s, i)
  <2>1. \A i \in 0 .. n : i # k /\ i # k - 1 =>
            /\ i + 1 \in 1 .. n + 1 /\ i + 1 # k + 1 /\ i + 1 # k
            /\ i \in 0 .. n + 1 /\ i + 1 \in 0 .. n + 1
    BY <1>1
  <2>. QED  BY <1>2, <1>4, <1>8, <1>9, <1>10, <2>1 DEF Ringed
<1>. HIDE DEF nx1, pv1, p, q, n, m
<1>12. ASSUME NEW i \in 0 .. n - 1
       PROVE  nx1[At(h, t, i)] = At(h, t, i + 1) /\ pv1[At(h, t, i + 1)] = At(h, t, i)
  <2>1. CASE i < k - 1
    <3>1. /\ i \in 0 .. k - 1 /\ i + 1 \in 0 .. k - 1 /\ i \in 0 .. n /\ i # k - 1 /\ i # k
      BY <1>1, <2>1
    <3>. QED  BY <1>3, <1>11, <3>1
  <2>2. CASE i = k - 1
    <3>1. i \in 0 .. k - 1 /\ i + 1 = k /\ k \in k .. n
      BY <1>1, <2>2
    <3>2. At(h, t, i) = p /\ At(h, t, i + 1) = q
      BY <1>3, <2>2, <3>1 DEF p, q
    <3>. QED  BY <1>8, <3>2
  <2>3. CASE i >= k
    <3>1. PICK j \in 0 .. n : j = i + 1
      BY <1>1, <2>3
    <3>2. i \in k .. n /\ j \in k .. n /\ j # k /\ j # k - 1
      BY <1>1, <2>3, <3>1
    <3>3. At(h, t, i) = At(h, s, j) /\ At(h, t, i + 1) = At(h, s, j + 1)
      BY <1>3, <3>1, <3>2
    <3>. QED  BY <1>11, <3>2, <3>3
  <2>. QED  BY <1>1, <2>1, <2>2, <2>3
<1>. QED  BY <1>1, <1>5, <1>12 DEF Ringed, nx1, pv1, p, q, n, m

------------------------------------------------------------------------------
(* The list                                                                *)

\* InsertedAt and RemovedAt do what their names say.
LEMMA InsertedIs ==
    ASSUME NEW S, NEW s \in Seq(S), NEW m \in S, NEW k \in 0 .. Len(s)
    PROVE  InsertedAt(s, k, m) \in Seq(S) /\ IsInserted(InsertedAt(s, k, m), s, k, m)
<1> DEFINE a == SubSeq(s, 1, k)
           b == <<m>>
           c == SubSeq(s, k + 1, Len(s))
           n == Len(s)
<1>1. n \in Nat /\ k \in Nat /\ k <= n /\ k \in Int /\ n \in Int /\ k + 1 \in Int
  BY LenProperties
<1>2. \A i \in 1 .. n : s[i] \in S
  BY ElementOfSeq
<1>3. a \in Seq(S) /\ Len(a) = k /\ \A i \in 1 .. k : a[i] = s[i]
  <2>1. \A i \in 1 .. k : s[i] \in S
    BY <1>1, <1>2
  <2>2. /\ a \in Seq(S) /\ Len(a) = IF 1 <= k THEN k - 1 + 1 ELSE 0
        /\ \A i \in 1 .. k - 1 + 1 : a[i] = s[1 + i - 1]
    BY <1>1, <2>1, SubSeqProperties
  <2>. HIDE DEF a
  <2>. QED  BY <1>1, <2>2
<1>4. b \in Seq(S) /\ Len(b) = 1 /\ b[1] = m
  OBVIOUS
<1>5. c \in Seq(S) /\ Len(c) = n - k /\ \A i \in 1 .. n - k : c[i] = s[k + i]
  <2>1. \A i \in k + 1 .. n : s[i] \in S
    BY <1>1, <1>2
  <2>2. /\ c \in Seq(S) /\ Len(c) = IF k + 1 <= n THEN n - (k + 1) + 1 ELSE 0
        /\ \A i \in 1 .. n - (k + 1) + 1 : c[i] = s[(k + 1) + i - 1]
    BY <1>1, <2>1, SubSeqProperties
  <2>. HIDE DEF c, n
  <2>3. n - (k + 1) + 1 = n - k /\ (\A i \in 1 .. n - k : (k + 1) + i - 1 = k + i)
    BY <1>1
  <2>. QED  BY <1>1, <2>2, <2>3
<1>6. InsertedAt(s, k, m) = (a \o b) \o c
  BY DEF InsertedAt
<1>. HIDE DEF a, b, c, n
<1>7. /\ a \o b \in Seq(S) /\ Len(a \o b) = k + 1
      /\ \A i \in 1 .. k + 1 : (a \o b)[i] = IF i <= k THEN s[i] ELSE m
  <2>0. /\ a \o b \in Seq(S) /\ Len(a \o b) = Len(a) + Len(b)
        /\ \A i \in 1 .. Len(a) + Len(b) :
              (a \o b)[i] = IF i <= Len(a) THEN a[i] ELSE b[i - Len(a)]
    BY <1>3, <1>4, ConcatProperties
  <2>1. /\ a \o b \in Seq(S) /\ Len(a \o b) = k + 1
        /\ \A i \in 1 .. k + 1 : (a \o b)[i] = IF i <= k THEN a[i] ELSE b[i - k]
    BY <1>3, <1>4, <2>0
  <2>2. \A i \in 1 .. k + 1 : i <= k \/ i - k = 1
    BY <1>1
  <2>. QED  BY <1>3, <1>4, <2>1, <2>2
<1>8. /\ (a \o b) \o c \in Seq(S) /\ Len((a \o b) \o c) = n + 1
      /\ \A i \in 1 .. n + 1 : ((a \o b) \o c)[i] =
             IF i <= k + 1 THEN (a \o b)[i] ELSE c[i - (k + 1)]
  <2>. DEFINE d == a \o b
  <2>0. d \in Seq(S) /\ Len(d) = k + 1
    BY <1>7
  <2>. HIDE DEF d
  <2>1. /\ d \o c \in Seq(S) /\ Len(d \o c) = Len(d) + Len(c)
        /\ \A i \in 1 .. Len(d) + Len(c) :
              (d \o c)[i] = IF i <= Len(d) THEN d[i] ELSE c[i - Len(d)]
    BY <1>5, <2>0, ConcatProperties
  <2>2. Len(d) + Len(c) = n + 1
    BY <1>1, <1>5, <2>0
  <2>3. /\ d \o c \in Seq(S) /\ Len(d \o c) = n + 1
        /\ \A i \in 1 .. n + 1 : (d \o c)[i] = IF i <= k + 1 THEN d[i] ELSE c[i - (k + 1)]
    BY <2>0, <2>1, <2>2
  <2>. QED  BY <2>3 DEF d
<1>9. \A i \in 1 .. n + 1 : ((a \o b) \o c)[i] =
          IF i <= k THEN s[i] ELSE IF i = k + 1 THEN m ELSE s[i - 1]
  <2>. TAKE i \in 1 .. n + 1
  <2>1. CASE i <= k + 1
    <3>1. i \in 1 .. k + 1 /\ (i <= k \/ i = k + 1)
      BY <1>1, <2>1
    <3>2. ((a \o b) \o c)[i] = IF i <= k THEN s[i] ELSE m
      BY <1>7, <1>8, <2>1, <3>1
    <3>. QED  BY <3>1, <3>2
  <2>2. CASE ~(i <= k + 1)
    <3>1. /\ i - (k + 1) \in 1 .. n - k /\ k + (i - (k + 1)) = i - 1
          /\ ~(i <= k) /\ i # k + 1
      BY <1>1, <2>2
    <3>2. ((a \o b) \o c)[i] = s[i - 1]
      BY <1>5, <1>8, <2>2, <3>1
    <3>. QED  BY <3>1, <3>2
  <2>. QED  BY <2>1, <2>2
<1>. QED  BY <1>6, <1>8, <1>9 DEF IsInserted, n

\* What RemovedAt does to a sequence.
LEMMA RemovedIs ==
    ASSUME NEW S, NEW s \in Seq(S), NEW k \in 1 .. Len(s)
    PROVE  RemovedAt(s, k) \in Seq(S) /\ IsRemoved(RemovedAt(s, k), s, k)
<1> DEFINE a == SubSeq(s, 1, k - 1)
           c == SubSeq(s, k + 1, Len(s))
           n == Len(s)
<1>1. n \in Nat /\ k \in Nat /\ 1 <= k /\ k <= n /\ k - 1 \in Int /\ n \in Int /\ k + 1 \in Int
  BY LenProperties
<1>2. \A i \in 1 .. n : s[i] \in S
  BY ElementOfSeq
<1>3. a \in Seq(S) /\ Len(a) = k - 1 /\ \A i \in 1 .. k - 1 : a[i] = s[i]
  <2>1. \A i \in 1 .. k - 1 : s[i] \in S
    BY <1>1, <1>2
  <2>2. /\ a \in Seq(S) /\ Len(a) = IF 1 <= k - 1 THEN (k - 1) - 1 + 1 ELSE 0
        /\ \A i \in 1 .. (k - 1) - 1 + 1 : a[i] = s[1 + i - 1]
    BY <1>1, <2>1, SubSeqProperties
  <2>. HIDE DEF a
  <2>. QED  BY <1>1, <2>2
<1>5. c \in Seq(S) /\ Len(c) = n - k /\ \A i \in 1 .. n - k : c[i] = s[k + i]
  <2>1. \A i \in k + 1 .. n : s[i] \in S
    BY <1>1, <1>2
  <2>2. /\ c \in Seq(S) /\ Len(c) = IF k + 1 <= n THEN n - (k + 1) + 1 ELSE 0
        /\ \A i \in 1 .. n - (k + 1) + 1 : c[i] = s[(k + 1) + i - 1]
    BY <1>1, <2>1, SubSeqProperties
  <2>. HIDE DEF c, n
  <2>3. n - (k + 1) + 1 = n - k /\ (\A i \in 1 .. n - k : (k + 1) + i - 1 = k + i)
    BY <1>1
  <2>. QED  BY <1>1, <2>2, <2>3
<1>6. RemovedAt(s, k) = a \o c
  BY DEF RemovedAt
<1>. HIDE DEF a, c, n
<1>7. /\ a \o c \in Seq(S) /\ Len(a \o c) = n - 1
      /\ \A i \in 1 .. n - 1 : (a \o c)[i] = IF i <= k - 1 THEN a[i] ELSE c[i - (k - 1)]
  <2>1. (k - 1) + (n - k) = n - 1
    BY <1>1
  <2>. QED  BY <1>3, <1>5, <2>1, ConcatProperties
<1>8. \A i \in 1 .. n - 1 : (a \o c)[i] = IF i < k THEN s[i] ELSE s[i + 1]
  <2>. TAKE i \in 1 .. n - 1
  <2>1. CASE i < k
    <3>1. i \in 1 .. k - 1 /\ i <= k - 1
      BY <1>1, <2>1
    <3>. QED  BY <1>3, <1>7, <2>1, <3>1
  <2>2. CASE ~(i < k)
    <3>1. i - (k - 1) \in 1 .. n - k /\ k + (i - (k - 1)) = i + 1 /\ ~(i <= k - 1)
      BY <1>1, <2>2
    <3>. QED  BY <1>5, <1>7, <2>2, <3>1
  <2>. QED  BY <2>1, <2>2
<1>. QED  BY <1>6, <1>7, <1>8 DEF IsRemoved, n

\* What is in a sequence after an insertion or a removal, and that it stays simple.
LEMMA InsertedKeeps ==
    ASSUME NEW S, NEW s \in Seq(S), NEW t \in Seq(S), NEW m, NEW h, NEW k \in 0 .. Len(s),
           IsInserted(t, s, k, m), Simple(h, s), m # h, \A i \in 1 .. Len(s) : s[i] # m
    PROVE  /\ Simple(h, t)
           /\ Elements(t) = Elements(s) \cup {m}
<1> DEFINE n == Len(s)
<1>1. n \in Nat /\ k \in Nat /\ k <= n /\ Len(t) = n + 1
  BY LenProperties DEF IsInserted
<1>2. /\ \A i \in 1 .. k : t[i] = s[i] /\ i \in 1 .. n
      /\ t[k + 1] = m
      /\ \A i \in k + 2 .. n + 1 : t[i] = s[i - 1] /\ i - 1 \in 1 .. n /\ i - 1 > k
  <2>1. \A i \in 1 .. k : t[i] = s[i] /\ i \in 1 .. n
    BY <1>1 DEF IsInserted
  <2>2. t[k + 1] = m
    BY <1>1 DEF IsInserted
  <2>3. \A i \in k + 2 .. n + 1 : t[i] = s[i - 1] /\ i - 1 \in 1 .. n /\ i - 1 > k
    BY <1>1 DEF IsInserted
  <2>. QED  BY <2>1, <2>2, <2>3
<1>3. \A i \in 1 .. n + 1 : i \in 1 .. k \/ i = k + 1 \/ i \in k + 2 .. n + 1
  BY <1>1
<1>4. /\ \A i \in 1 .. k : i \in 1 .. n + 1
      /\ k + 1 \in 1 .. n + 1
      /\ \A i \in 1 .. n : i \in 1 .. k \/ i + 1 \in k + 2 .. n + 1
      /\ \A i \in 1 .. n : i + 1 \in 1 .. n + 1 /\ (i + 1) - 1 = i
  BY <1>1
<1>5. ASSUME NEW i \in 1 .. n + 1, NEW j \in 1 .. n + 1, t[i] = t[j] PROVE i = j
  <2>1. \A u, v \in 1 .. n : s[u] = s[v] => u = v
    BY DEF Simple
  <2>. HIDE DEF n
  <2>2. CASE i = k + 1
    BY <1>2, <1>3, <1>5, <2>2 DEF n
  <2>3. CASE j = k + 1
    BY <1>2, <1>3, <1>5, <2>3 DEF n
  <2>4. CASE i # k + 1 /\ j # k + 1
    <3>1. CASE i \in 1 .. k /\ j \in 1 .. k
      BY <1>2, <1>5, <2>1, <3>1
    <3>2. CASE i \in k + 2 .. n + 1 /\ j \in k + 2 .. n + 1
      <4>1. i - 1 = j - 1
        BY <1>2, <1>5, <2>1, <3>2
      <4>. QED  BY <1>1, <3>2, <4>1
    <3>3. CASE i \in 1 .. k /\ j \in k + 2 .. n + 1
      <4>1. i = j - 1
        BY <1>2, <1>5, <2>1, <3>3
      <4>. QED  BY <1>1, <3>3, <4>1
    <3>4. CASE j \in 1 .. k /\ i \in k + 2 .. n + 1
      <4>1. j = i - 1
        BY <1>2, <1>5, <2>1, <3>4
      <4>. QED  BY <1>1, <3>4, <4>1
    <3>. QED  BY <1>3, <2>4, <3>1, <3>2, <3>3, <3>4
  <2>. QED  BY <2>2, <2>3, <2>4
<1>6. \A i \in 1 .. n + 1 : t[i] # h
  BY <1>2, <1>3 DEF Simple
<1>7. \A i \in 1 .. n + 1 : t[i] = m \/ \E j \in 1 .. n : t[i] = s[j]
  BY <1>2, <1>3
<1>8. \A i \in 1 .. n : \E j \in 1 .. n + 1 : s[i] = t[j]
  BY <1>2, <1>4
<1>9. \E j \in 1 .. n + 1 : m = t[j]
  BY <1>2, <1>4
<1>. HIDE DEF n
<1>10. {t[i] : i \in 1 .. n + 1} = {s[i] : i \in 1 .. n} \cup {m}
  <2>1. {t[i] : i \in 1 .. n + 1} \subseteq {s[i] : i \in 1 .. n} \cup {m}
    BY <1>7
  <2>2. {s[i] : i \in 1 .. n} \subseteq {t[i] : i \in 1 .. n + 1}
    BY <1>8
  <2>3. m \in {t[i] : i \in 1 .. n + 1}
    BY <1>9
  <2>. QED  BY <2>1, <2>2, <2>3
<1>. QED  BY <1>1, <1>5, <1>6, <1>10 DEF Simple, Elements, n

\* Without one of its nodes a simple sequence is simple and has all others.
LEMMA RemovedKeeps ==
    ASSUME NEW S, NEW s \in Seq(S), NEW t \in Seq(S), NEW h, NEW k \in 1 .. Len(s),
           IsRemoved(t, s, k), Simple(h, s)
    PROVE  /\ Simple(h, t)
           /\ Elements(t) = Elements(s) \ {s[k]}
<1> DEFINE n == Len(s)
<1>1. n \in Nat /\ k \in Nat /\ 1 <= k /\ k <= n /\ Len(t) = n - 1
  BY LenProperties DEF IsRemoved
<1>2. /\ \A i \in 1 .. n - 1 : i < k => t[i] = s[i] /\ i \in 1 .. n
      /\ \A i \in 1 .. n - 1 : ~(i < k) => t[i] = s[i + 1] /\ i + 1 \in 1 .. n
  BY <1>1 DEF IsRemoved
<1>3. /\ \A i \in 1 .. n : i < k => i \in 1 .. n - 1
      /\ \A i \in 1 .. n : i > k => i - 1 \in 1 .. n - 1 /\ ~(i - 1 < k) /\ (i - 1) + 1 = i
      /\ \A i \in 1 .. n : i < k \/ i = k \/ i > k
      /\ \A i \in 1 .. n - 1 : ~(i < k) => i + 1 # k
      /\ \A i \in 1 .. n - 1 : i < k => i # k
  BY <1>1
<1>4. \A u, v \in 1 .. n : s[u] = s[v] => u = v
  BY DEF Simple
<1>. HIDE DEF n
<1>5. ASSUME NEW i \in 1 .. n - 1, NEW j \in 1 .. n - 1, t[i] = t[j] PROVE i = j
  <2>1. CASE i < k /\ j < k
    BY <1>2, <1>4, <1>5, <2>1
  <2>2. CASE ~(i < k) /\ ~(j < k)
    <3>1. i + 1 = j + 1
      BY <1>2, <1>4, <1>5, <2>2
    <3>. QED  BY <1>1, <3>1
  <2>3. CASE i < k /\ ~(j < k)
    <3>1. i = j + 1
      BY <1>2, <1>4, <1>5, <2>3
    <3>. QED  BY <1>1, <2>3, <3>1
  <2>4. CASE ~(i < k) /\ j < k
    <3>1. i + 1 = j
      BY <1>2, <1>4, <1>5, <2>4
    <3>. QED  BY <1>1, <2>4, <3>1
  <2>. QED  BY <2>1, <2>2, <2>3, <2>4
<1>6. \A i \in 1 .. n - 1 : t[i] # h
  BY <1>2 DEF Simple, n
<1>7. \A i \in 1 .. n - 1 : \E j \in 1 .. n : t[i] = s[j] /\ j # k
  <2>. TAKE i \in 1 .. n - 1
  <2>1. CASE i < k
    BY <1>2, <1>3, <2>1
  <2>2. CASE ~(i < k)
    BY <1>2, <1>3, <2>2
  <2>. QED  BY <2>1, <2>2
<1>8. \A i \in 1 .. n : i # k => \E j \in 1 .. n - 1 : s[i] = t[j]
  <2>. TAKE i \in 1 .. n
  <2>1. CASE i < k
    BY <1>2, <1>3, <2>1
  <2>2. CASE i > k
    <3>1. i - 1 \in 1 .. n - 1 /\ s[i] = t[i - 1]
      BY <1>2, <1>3, <2>2
    <3>. QED  BY <3>1
  <2>. QED  BY <1>3, <2>1, <2>2
<1>9. k \in 1 .. n
  BY <1>1
<1>10. {t[i] : i \in 1 .. n - 1} = {s[i] : i \in 1 .. n} \ {s[k]}
  BY <1>4, <1>7, <1>8, <1>9
<1>. QED  BY <1>1, <1>5, <1>6, <1>10 DEF Simple, Elements, n
\* Circle and After walk the same circle as At.
LEMMA LinkedIsRinged ==
    ASSUME NEW l, NEW s \in Seq(Nodes)
    PROVE  Linked(l, s) <=> Ringed(l.next, l.prev, Head0, s)
<1> DEFINE n == Len(s)
           c == Circle(s)
           h == Head0
<1>1. n \in Nat
  BY LenProperties
<1>2. /\ s \in Seq(Places) /\ <<Head0>> \in Seq(Places) /\ Len(<<Head0>>) = 1
      /\ <<Head0>>[1] = Head0
  <2>1. \A i \in 1 .. n : s[i] \in Places
    BY ElementOfSeq DEF Places
  <2>2. s \in Seq(Places)
    BY <2>1
  <2>. QED  BY <2>2 DEF Places
<1>3. Len(c) = n + 1 /\ \A i \in 1 .. n + 1 : c[i] = IF i <= 1 THEN Head0 ELSE s[i - 1]
  <2>1. /\ Len(c) = Len(<<Head0>>) + n
        /\ \A i \in 1 .. Len(<<Head0>>) + n :
              c[i] = IF i <= Len(<<Head0>>) THEN <<Head0>>[i] ELSE s[i - Len(<<Head0>>)]
    BY <1>2, ConcatProperties DEF Circle
  <2>. HIDE DEF c, n
  <2>2. Len(<<Head0>>) + n = n + 1
    BY <1>1, <1>2
  <2>3. \A i \in 1 .. n + 1 : i <= 1 => i = 1
    BY <1>1
  <2>. QED  BY <1>2, <2>1, <2>2, <2>3
<1>. HIDE DEF c
<1>4. \A i \in 1 .. n + 1 : c[i] = At(h, s, i - 1)
  BY <1>1, <1>3 DEF At
<1>5. \A i \in 1 .. n + 1 : After(c, i) = At(h, s, i)
  BY <1>1, <1>3 DEF At, After
<1>. HIDE DEF n, h
<1>6. (\A i \in 1 .. n + 1 : l.next[At(h, s, i - 1)] = At(h, s, i)
                             /\ l.prev[At(h, s, i)] = At(h, s, i - 1))
        <=> Ringed(l.next, l.prev, h, s)
  <2>1. ASSUME \A i \in 1 .. n + 1 : l.next[At(h, s, i - 1)] = At(h, s, i)
                             /\ l.prev[At(h, s, i)] = At(h, s, i - 1),
               NEW j \in 0 .. n
        PROVE  l.next[At(h, s, j)] = At(h, s, j + 1) /\ l.prev[At(h, s, j + 1)] = At(h, s, j)
    <3>1. PICK i \in 1 .. n + 1 : i = j + 1
      BY <1>1
    <3>2. i - 1 = j
      BY <1>1, <3>1
    <3>. QED  BY <2>1, <3>1, <3>2
  <2>2. ASSUME Ringed(l.next, l.prev, h, s), NEW i \in 1 .. n + 1
        PROVE  l.next[At(h, s, i - 1)] = At(h, s, i) /\ l.prev[At(h, s, i)] = At(h, s, i - 1)
    <3>1. PICK j \in 0 .. n : j = i - 1
      BY <1>1
    <3>2. j + 1 = i
      BY <1>1, <3>1
    <3>. QED  BY <2>2, <3>1, <3>2 DEF Ringed, n
  <2>. QED  BY <2>1, <2>2 DEF Ringed, n
<1>. QED  BY <1>4, <1>5, <1>6 DEF Linked, c, n, h

\* The invariant: ListExact with the types it needs.
LInv ==
    /\ chain \in Links
    /\ order \in Seq(Nodes)
    /\ Simple(Head0, order)
    /\ Ringed(chain.next, chain.prev, Head0, order)
    /\ \A n \in Nodes : ~InList(n) => IsTieOff(chain, n)

\* A node that was in no list is linked in behind the k-th place.
LEMMA BetweenKeeps ==
    ASSUME LInv, NEW m \in Nodes, ~InList(m), NEW k \in 0 .. Len(order),
           chain' = Between(chain, At(Head0, order, k), m, At(Head0, order, k + 1)),
           order' = InsertedAt(order, k, m)
    PROVE  LInv'
<1> DEFINE h == Head0
           p == At(h, order, k)
           q == At(h, order, k + 1)
           nx1 == [chain.next EXCEPT ![m] = q, ![p] = m]
           pv1 == [chain.prev EXCEPT ![m] = p, ![q] = m]
<1>1. /\ Len(order) \in Nat /\ DOMAIN order = 1 .. Len(order) /\ order \in Seq(Nodes)
      /\ h \in Places /\ m \in Places /\ m # h /\ Nodes \subseteq Places
  BY LenProperties, LinkedListAssumption DEF LInv, Places
<1>2. \A i \in 0 .. Len(order) + 1 : At(h, order, i) \in Places /\ At(h, order, i) # m
  BY <1>1, ElementOfSeq DEF At, InList
<1>3. p \in Places /\ q \in Places /\ p # m /\ q # m
  BY <1>1, <1>2
<1>4. /\ chain.next \in [Places -> Places \cup {Null}]
      /\ chain.prev \in [Places -> Places \cup {Null}]
      /\ chain.data \in [Nodes -> Data \cup {Null}]
      /\ chain = [prev |-> chain.prev, next |-> chain.next, data |-> chain.data]
  BY DEF LInv, Links
<1>5. chain' = [prev |-> pv1, next |-> nx1, data |-> chain.data]
  BY <1>4 DEF Between
<1>6. /\ nx1 \in [Places -> Places \cup {Null}] /\ pv1 \in [Places -> Places \cup {Null}]
      /\ \A x \in Places : x # p /\ x # m => nx1[x] = chain.next[x]
      /\ \A x \in Places : x # q /\ x # m => pv1[x] = chain.prev[x]
  BY <1>1, <1>3, <1>4
<1>7. chain' \in Links
  BY <1>4, <1>5, <1>6 DEF Links
<1>8. order' \in Seq(Nodes) /\ IsInserted(order', order, k, m)
  BY <1>1, InsertedIs
<1>9. Simple(h, order) /\ \A i \in 1 .. Len(order) : order[i] # m
  BY <1>1 DEF LInv, InList
<1>10. /\ Simple(h, order')
       /\ Elements(order') = Elements(order) \cup {m}
  BY <1>1, <1>8, <1>9, InsertedKeeps
<1>11. Ringed(chain.next, chain.prev, h, order)
  BY DEF LInv
<1>12. Ringed(nx1, pv1, h, order')
  BY <1>1, <1>4, <1>8, <1>9, <1>11, LinkIn
<1>. HIDE DEF nx1, pv1
<1>13. Ringed(chain'.next, chain'.prev, h, order')
  BY <1>5, <1>12
<1>14. ASSUME NEW n \in Nodes, ~InList(n)' PROVE IsTieOff(chain', n)
  <2>1. DOMAIN order' = 1 .. Len(order')
    BY <1>8, LenProperties
  <2>2. n \notin Elements(order')
    BY <1>14, <2>1 DEF InList, Elements
  <2>3. n # m /\ n \notin Elements(order)
    BY <1>10, <2>2
  <2>4. ~InList(n) /\ n # h
    BY <1>1, <2>3, LinkedListAssumption DEF InList, Elements
  <2>5. n # p /\ n # q
    BY <2>3, <2>4 DEF At, Elements
  <2>6. IsTieOff(chain, n)
    BY <2>4 DEF LInv
  <2>. QED  BY <1>1, <1>5, <1>6, <2>3, <2>5, <2>6 DEF IsTieOff
<1>. QED  BY <1>7, <1>8, <1>10, <1>13, <1>14 DEF LInv

\* The node at the k-th place is removed and points to itself again.
LEMMA RemoveKeeps ==
    ASSUME LInv, NEW k \in 1 .. Len(order), chain' = Remove(chain, order[k]),
           order' \in Seq(Nodes), IsRemoved(order', order, k)
    PROVE  LInv'
<1> DEFINE h == Head0
           m == order[k]
           p == At(h, order, k - 1)
           q == At(h, order, k + 1)
           nx1 == [chain.next EXCEPT ![p] = q, ![m] = m]
           pv1 == [chain.prev EXCEPT ![q] = p, ![m] = m]
<1>1. /\ Len(order) \in Nat /\ DOMAIN order = 1 .. Len(order) /\ order \in Seq(Nodes)
      /\ h \in Places /\ m \in Nodes /\ m \in Places /\ Nodes \subseteq Places
  BY LenProperties, ElementOfSeq, LinkedListAssumption DEF LInv, Places
<1>2. \A i \in 0 .. Len(order) + 1 : At(h, order, i) \in Places
  BY <1>1, ElementOfSeq DEF At
<1>3. p \in Places /\ q \in Places
  BY <1>1, <1>2
<1>4. /\ chain.next \in [Places -> Places \cup {Null}]
      /\ chain.prev \in [Places -> Places \cup {Null}]
      /\ chain.data \in [Nodes -> Data \cup {Null}]
      /\ chain = [prev |-> chain.prev, next |-> chain.next, data |-> chain.data]
  BY DEF LInv, Links
<1>5. Simple(h, order) /\ Ringed(chain.next, chain.prev, h, order)
  BY DEF LInv
<1>6. chain.next[m] = q /\ chain.prev[m] = p /\ Ringed(nx1, pv1, h, order')
  BY <1>1, <1>4, <1>5, LinkOut
<1>7. chain' = [prev |-> pv1, next |-> nx1, data |-> chain.data]
  BY <1>4, <1>6 DEF Remove, Unlinked, TieOff
<1>8. /\ nx1 \in [Places -> Places \cup {Null}] /\ pv1 \in [Places -> Places \cup {Null}]
      /\ \A x \in Places : x # p /\ x # m => nx1[x] = chain.next[x]
      /\ \A x \in Places : x # q /\ x # m => pv1[x] = chain.prev[x]
      /\ nx1[m] = m /\ pv1[m] = m
  BY <1>1, <1>3, <1>4
<1>9. chain' \in Links
  BY <1>4, <1>7, <1>8 DEF Links
<1>10. /\ Simple(h, order')
       /\ Elements(order') = Elements(order) \ {m}
  BY <1>1, <1>5, RemovedKeeps
<1>. HIDE DEF nx1, pv1
<1>11. Ringed(chain'.next, chain'.prev, h, order')
  BY <1>6, <1>7
<1>12. ASSUME NEW n \in Nodes, ~InList(n)' PROVE IsTieOff(chain', n)
  <2>1. DOMAIN order' = 1 .. Len(order')
    BY LenProperties
  <2>2. n \notin Elements(order')
    BY <1>12, <2>1 DEF InList, Elements
  <2>3. CASE n = m
    BY <1>7, <1>8, <2>3 DEF IsTieOff
  <2>4. CASE n # m
    <3>1. n \notin Elements(order)
      BY <1>10, <2>2, <2>4
    <3>2. ~InList(n) /\ n # h
      BY <1>1, <3>1, LinkedListAssumption DEF InList, Elements
    <3>3. n # p /\ n # q
      BY <3>1, <3>2 DEF At, Elements
    <3>4. IsTieOff(chain, n)
      BY <3>2 DEF LInv
    <3>. QED  BY <1>1, <1>7, <1>8, <2>4, <3>3, <3>4 DEF IsTieOff
  <2>. QED  BY <2>3, <2>4
<1>. QED  BY <1>9, <1>10, <1>11, <1>12 DEF LInv

\* A new list has only its head.
LEMMA ListStarts == ListInit => LInv
<1> SUFFICES ASSUME ListInit PROVE LInv
  OBVIOUS
<1>1. /\ order = <<>> /\ order \in Seq(Nodes) /\ Len(order) = 0
      /\ chain.next = [p \in Places |-> p] /\ chain.prev = [p \in Places |-> p]
  BY DEF ListInit
<1>2. chain \in Links
  BY DEF ListInit, Links
<1>3. Simple(Head0, order)
  BY <1>1 DEF Simple
<1>4. Ringed(chain.next, chain.prev, Head0, order)
  BY <1>1 DEF Ringed, At, Places
<1>5. \A n \in Nodes : IsTieOff(chain, n)
  BY <1>1 DEF IsTieOff, Places
<1>. QED  BY <1>1, <1>2, <1>3, <1>4, <1>5 DEF LInv

\* Every call keeps it.
LEMMA ListSteps == LInv /\ [ListNext]_listVars => LInv'
<1> SUFFICES ASSUME LInv, [ListNext]_listVars PROVE LInv'
  OBVIOUS
<1> DEFINE h == Head0
           n == Len(order)
<1>1. /\ n \in Nat /\ DOMAIN order = 1 .. n /\ order \in Seq(Nodes)
      /\ Ringed(chain.next, chain.prev, h, order)
  BY LenProperties DEF LInv
<1>2. At(h, order, 0) = h /\ At(h, order, n + 1) = h
  BY <1>1 DEF At
<1>3. \A i \in 1 .. n : At(h, order, i) = order[i]
  BY DEF At
<1>4. \A i \in 0 .. n : chain.next[At(h, order, i)] = At(h, order, i + 1)
                        /\ chain.prev[At(h, order, i + 1)] = At(h, order, i)
  BY <1>1 DEF Ringed
<1>. HIDE DEF n, h
<1>5. ASSUME NEW m \in Nodes, Push(m) PROVE LInv'
  <2>1. 0 \in 0 .. n /\ n \in 0 .. n
    BY <1>1
  <2>2. CASE chain' = PushFront(chain, m) /\ order' = InsertedAt(order, 0, m)
    <3>1. chain' = Between(chain, At(h, order, 0), m, At(h, order, 0 + 1))
      BY <1>2, <1>4, <2>1, <2>2 DEF PushFront, AddAfter, h
    <3>. QED  BY <1>5, <2>1, <2>2, <3>1, BetweenKeeps DEF Push, h, n
  <2>3. CASE chain' = PushBack(chain, m) /\ order' = InsertedAt(order, n, m)
    <3>1. chain' = Between(chain, At(h, order, n), m, At(h, order, n + 1))
      BY <1>2, <1>4, <2>1, <2>3 DEF PushBack, AddBefore, h
    <3>. QED  BY <1>5, <2>1, <2>3, <3>1, BetweenKeeps DEF Push, h, n
  <2>. QED  BY <1>5, <2>2, <2>3 DEF Push, n
<1>6. ASSUME NEW m \in Nodes, NEW i \in DOMAIN order, Insert(i, m) PROVE LInv'
  <2>1. i \in 1 .. n /\ i \in 0 .. n /\ i - 1 \in 0 .. n /\ (i - 1) + 1 = i
    BY <1>1
  <2>2. CASE chain' = AddAfter(chain, order[i], m) /\ order' = InsertedAt(order, i, m)
    <3>1. chain' = Between(chain, At(h, order, i), m, At(h, order, i + 1))
      BY <1>3, <1>4, <2>1, <2>2 DEF AddAfter
    <3>. QED  BY <1>6, <2>1, <2>2, <3>1, BetweenKeeps DEF Insert, h, n
  <2>3. CASE chain' = AddBefore(chain, order[i], m) /\ order' = InsertedAt(order, i - 1, m)
    <3>1. chain' = Between(chain, At(h, order, i - 1), m, At(h, order, (i - 1) + 1))
      BY <1>3, <1>4, <2>1, <2>3 DEF AddBefore
    <3>. QED  BY <1>6, <2>1, <2>3, <3>1, BetweenKeeps DEF Insert, h, n
  <2>. QED  BY <1>6, <2>2, <2>3 DEF Insert
<1>7. ASSUME NEW i \in DOMAIN order, Erase(i) PROVE LInv'
  <2>1. i \in 1 .. Len(order) /\ chain' = Remove(chain, order[i]) /\ order' = RemovedAt(order, i)
    BY <1>1, <1>7 DEF Erase, n
  <2>2. order' \in Seq(Nodes) /\ IsRemoved(order', order, i)
    BY <1>1, <2>1, RemovedIs
  <2>. QED  BY <2>1, <2>2, RemoveKeeps
<1>8. ASSUME UNCHANGED <<chain, order>> PROVE LInv'
  BY <1>8 DEF LInv, InList, IsTieOff
<1>9. ASSUME ClearStep PROVE LInv'
  <2>1. CASE Empty(chain)
    <3>1. /\ chain.next \in [Places -> Places \cup {Null}]
          /\ chain.prev \in [Places -> Places \cup {Null}]
          /\ chain = [prev |-> chain.prev, next |-> chain.next, data |-> chain.data]
          /\ h \in Places
      BY DEF LInv, Links, Places, h
    <3>2. chain.next[h] = h /\ chain.prev[h] = h
      BY <2>1 DEF Empty, IsTieOff, h
    <3>3. chain' = Remove(chain, h) /\ order' = order
      BY <1>9, <2>1 DEF ClearStep, h
    <3>4. [chain.next EXCEPT ![h] = h] = chain.next /\ [chain.prev EXCEPT ![h] = h] = chain.prev
      BY <3>1, <3>2
    <3>5. Unlinked(chain, h) = chain
      BY <3>1, <3>2, <3>4 DEF Unlinked
    <3>6. chain' = chain
      BY <3>1, <3>3, <3>4, <3>5 DEF Remove, TieOff
    <3>. QED  BY <1>8, <3>3, <3>6
  <2>2. CASE ~Empty(chain)
    <3>1. n # 0
      <4>1. ASSUME n = 0 PROVE FALSE
        BY <1>2, <1>4, <2>2, <4>1 DEF Empty, IsTieOff, h
      <4>. QED  BY <4>1
    <3>2. 1 \in 1 .. n /\ 0 \in 0 .. n /\ 0 + 1 = 1 /\ order # <<>>
      BY <1>1, <3>1 DEF n
    <3>3. Begin(chain) = order[1]
      BY <1>2, <1>3, <1>4, <3>2 DEF Begin, h
    <3>4. chain' = Remove(chain, order[1]) /\ order' = Tail(order)
      BY <1>9, <2>2, <3>3 DEF ClearStep
    <3>5. /\ Tail(order) \in Seq(Nodes) /\ Len(Tail(order)) = n - 1
          /\ \A i \in 1 .. n - 1 : Tail(order)[i] = order[i + 1]
      BY <1>1, <3>2, HeadTailProperties DEF n
    <3>6. IsRemoved(Tail(order), order, 1)
      BY <1>1, <3>5 DEF IsRemoved, n
    <3>. QED  BY <3>2, <3>4, <3>5, <3>6, RemoveKeeps DEF n
  <2>. QED  BY <2>1, <2>2
<1>. QED  BY <1>5, <1>6, <1>7, <1>8, <1>9 DEF ListNext, ClearBegin, listVars

\* The list reads as the order that was asked for, forwards and backwards: AddBefore,
\* AddAfter, Remove and the clear of LinkedList keep every pointer right.
THEOREM ListIsExact == ListSpec => []ListExact
<1>1. LInv => ListExact
  <2>. SUFFICES ASSUME LInv PROVE ListExact
    OBVIOUS
  <2>1. order \in Seq(Nodes) /\ DOMAIN order = 1 .. Len(order)
    BY LenProperties DEF LInv
  <2>2. \A i \in DOMAIN order : order[i] \in Nodes
    BY <2>1, ElementOfSeq
  <2>3. Linked(chain, order)
    BY <2>1, LinkedIsRinged DEF LInv
  <2>. QED  BY <2>1, <2>2, <2>3 DEF ListExact, LInv, Simple
<1>. QED  BY <1>1, ListStarts, ListSteps, PTL DEF ListSpec

------------------------------------------------------------------------------
(* The object pool                                                         *)

\* A nonempty set of natural numbers has a least element.
LEMMA Least ==
    ASSUME NEW T, T \subseteq Nat, T # {}
    PROVE  \E x \in T : \A y \in T : x <= y
<1> DEFINE R == OpToRel(<, Nat)
<1>1. IsWellFoundedOn(R, Nat)
  BY NatLessThanWellFounded
<1>2. \A x, y \in Nat : x < y => <<x, y>> \in R
  BY DEF OpToRel
<1>. HIDE DEF R
<1>3. PICK x \in T : \A y \in T : ~(<<y, x>> \in R)
  BY <1>1, WFMin
<1>4. ASSUME NEW y \in T PROVE x <= y
  <2>1. x \in Nat /\ y \in Nat /\ ~(y < x)
    BY <1>2, <1>3
  <2>. QED  BY <2>1
<1>. QED  BY <1>4

\* Blocks are finite in number.
LEMMA BlocksFinite == IsFiniteSet(Blocks) /\ Cardinality(Blocks) \in Nat
<1>1. IsFiniteSet(1 .. ChunkSize)
  BY FixedAllocatorAssumption, FS_Interval
<1>2. IsFiniteSet(Blocks)
  BY <1>1, PoolAssumption, FS_Product DEF Blocks
<1>. QED  BY <1>2, FS_CardinalityType

\* alloc takes a block that was free or new.
LEMMA AllocTakes ==
    ASSUME NEW a, Sound(a), NEW spare \in SUBSET (Chunks \ a.chunks), NEW b \in Refilled(a, spare)
    PROVE  /\ Head(b.free) \in Blocks /\ Head(b.free) \notin UsedBlocks(a)
           /\ Sound(Popped(b)) /\ Popped(b) \in Allocator
           /\ UsedBlocks(Popped(b)) = UsedBlocks(a) \cup {Head(b.free)}
           /\ Popped(b).chunks \subseteq a.chunks \cup spare
<1>1. /\ Sound(b) /\ b.free # <<>> /\ UsedBlocks(b) = UsedBlocks(a)
      /\ b.chunks \subseteq a.chunks \cup spare
  BY RefillKeepsUse
<1>2. /\ Sound(Popped(b)) /\ Popped(b).chunks = b.chunks
      /\ Head(b.free) \in FreeBlocks(b)
      /\ FreeBlocks(Popped(b)) = FreeBlocks(b) \ {Head(b.free)}
  BY <1>1, PopTakesHead
<1>3. Head(b.free) \in Blocks /\ Head(b.free)[1] \in b.chunks
  <2>1. \A c \in FreeBlocks(b) : c \in Blocks /\ c[1] \in b.chunks
    BY <1>1, ElementOfSeq, LenProperties DEF Sound, Allocator, FreeBlocks
  <2>. QED  BY <1>2, <2>1
<1>4. Head(b.free) \notin UsedBlocks(b) /\ UsedBlocks(Popped(b)) = UsedBlocks(b) \cup {Head(b.free)}
  BY <1>2, <1>3 DEF UsedBlocks
<1>. QED  BY <1>1, <1>2, <1>3, <1>4 DEF Sound

\* free gives a block back that was in use.
LEMMA FreeGives ==
    ASSUME NEW a, Sound(a), NEW b \in UsedBlocks(a)
    PROVE  /\ Sound(Pushed(a, b)) /\ Pushed(a, b).chunks = a.chunks
           /\ UsedBlocks(Pushed(a, b)) = UsedBlocks(a) \ {b}
<1>1. b \in Blocks /\ b[1] \in a.chunks /\ b \notin FreeBlocks(a)
  BY DEF UsedBlocks
<1>2. /\ Sound(Pushed(a, b)) /\ Pushed(a, b).chunks = a.chunks
      /\ FreeBlocks(Pushed(a, b)) = FreeBlocks(a) \cup {b}
  BY <1>1, PushAdds
<1>3. UsedBlocks(Pushed(a, b)) = UsedBlocks(a) \ {b}
  BY <1>2 DEF UsedBlocks
<1>. QED  BY <1>2, <1>3

\* Nothing of a new or emptied allocator is in use.
LEMMA NewUnused == Sound(NewAllocator) /\ UsedBlocks(NewAllocator) = {} /\ NewAllocator.chunks = {}
BY DEF NewAllocator, Sound, Allocator, FreeBlocks, UsedBlocks

\* The nodes of s, in this order, are the list l of the pool, and each carries an
\* object of its own.
Chain(l, s) ==
    /\ l \in List!Links
    /\ s \in Seq(Blocks)
    /\ Simple(ListHead, s)
    /\ Ringed(l.next, l.prev, ListHead, s)
    /\ \A i \in 1 .. Len(s) : l.data[s[i]] \in Blocks
    /\ \A i, j \in 1 .. Len(s) : l.data[s[i]] = l.data[s[j]] => i = j

\* The objects in the list.
Stored(l, s) == {l.data[s[i]] : i \in 1 .. Len(s)}

\* What Links says, in parts.
LEMMA LinkTypes ==
    ASSUME NEW l \in List!Links
    PROVE  /\ l = [prev |-> l.prev, next |-> l.next, data |-> l.data]
           /\ l.prev \in [List!Places -> List!Places \cup {NullPtr}]
           /\ l.next \in [List!Places -> List!Places \cup {NullPtr}]
           /\ l.data \in [Blocks -> Blocks \cup {NullPtr}]
           /\ Blocks \subseteq List!Places /\ ListHead \in List!Places
BY DEF List!Links, List!Places

\* The list is empty when it has no node, and otherwise begins with the first.
LEMMA ChainBegins ==
    ASSUME NEW l, NEW s, Chain(l, s)
    PROVE  /\ List!Empty(l) <=> s = <<>>
           /\ s # <<>> => List!Begin(l) = s[1] /\ s[1] \in Blocks /\ 1 \in 1 .. Len(s)
<1>1. s \in Seq(Blocks) /\ Len(s) \in Nat /\ \A i \in 1 .. Len(s) : s[i] # ListHead
  BY LenProperties DEF Chain, Simple
<1>2. /\ l.next[At(ListHead, s, 0)] = At(ListHead, s, 0 + 1)
      /\ l.prev[At(ListHead, s, 0 + 1)] = At(ListHead, s, 0)
  BY <1>1 DEF Chain, Ringed
<1>3. At(ListHead, s, 0) = ListHead
  BY DEF At
<1>4. CASE s = <<>>
  <2>1. Len(s) = 0
    BY <1>4
  <2>2. At(ListHead, s, 0 + 1) = ListHead
    BY <2>1 DEF At
  <2>. QED  BY <1>2, <1>3, <1>4, <2>2 DEF List!Empty, List!IsTieOff
<1>5. CASE s # <<>>
  <2>1. 1 \in 1 .. Len(s)
    BY <1>1, <1>5, EmptySeq
  <2>2. At(ListHead, s, 0 + 1) = s[1] /\ s[1] # ListHead /\ s[1] \in Blocks
    BY <1>1, <2>1, ElementOfSeq DEF At
  <2>. QED  BY <1>2, <1>3, <1>5, <2>1, <2>2 DEF List!Empty, List!IsTieOff, List!Begin
<1>. QED  BY <1>4, <1>5

\* The pointers of a circle are those of its places: others do not matter.
LEMMA RingedElsewhere ==
    ASSUME NEW h, NEW S, NEW s \in Seq(S), NEW nx, NEW pv, NEW nx1, NEW pv1,
           Ringed(nx, pv, h, s),
           \A x \in Elements(s) \cup {h} : nx1[x] = nx[x] /\ pv1[x] = pv[x]
    PROVE  Ringed(nx1, pv1, h, s)
<1>1. \A i \in 0 .. Len(s) + 1 : At(h, s, i) \in Elements(s) \cup {h}
  BY DEF At, Elements
<1>2. \A i \in 0 .. Len(s) : i \in 0 .. Len(s) + 1 /\ i + 1 \in 0 .. Len(s) + 1
  BY LenProperties
<1>. QED  BY <1>1, <1>2 DEF Ringed
\* Append inserts at the end, Tail removes at the front.
LEMMA AppendInserts ==
    ASSUME NEW S, NEW s \in Seq(S), NEW m \in S
    PROVE  Append(s, m) \in Seq(S) /\ IsInserted(Append(s, m), s, Len(s), m)
<1>1. /\ Len(s) \in Nat /\ Append(s, m) \in Seq(S) /\ Len(Append(s, m)) = Len(s) + 1
      /\ Append(s, m)[Len(s) + 1] = m
      /\ \A i \in 1 .. Len(s) : Append(s, m)[i] = s[i]
  BY LenProperties, AppendProperties
<1>2. \A i \in 1 .. Len(s) + 1 : i \in 1 .. Len(s) \/ i = Len(s) + 1
  BY <1>1
<1>3. \A i \in 1 .. Len(s) : i <= Len(s)
  BY <1>1
<1>4. ~(Len(s) + 1 <= Len(s))
  BY <1>1
<1>. QED  BY <1>1, <1>2, <1>3, <1>4 DEF IsInserted

\* Tail removes at the front.
LEMMA TailRemoves ==
    ASSUME NEW S, NEW s \in Seq(S), s # <<>>
    PROVE  Tail(s) \in Seq(S) /\ IsRemoved(Tail(s), s, 1)
<1>1. /\ Len(s) \in Nat /\ Tail(s) \in Seq(S) /\ Len(Tail(s)) = Len(s) - 1
      /\ \A i \in 1 .. Len(Tail(s)) : Tail(s)[i] = s[i + 1]
  BY LenProperties, HeadTailProperties
<1>2. \A i \in 1 .. Len(s) - 1 : ~(i < 1)
  BY <1>1
<1>. QED  BY <1>1, <1>2 DEF IsRemoved

\* A new node with an object that is not in the list goes to its end.
LEMMA NodeAdded ==
    ASSUME NEW l, NEW s, Chain(l, s), NEW n \in Blocks, n \notin Elements(s),
           NEW o \in Blocks, o \notin Stored(l, s),
           NEW l2, l2 = List!PushBack(List!SetData(List!Constructed(l, n), n, o), n)
    PROVE  /\ Chain(l2, Append(s, n))
           /\ Elements(Append(s, n)) = Elements(s) \cup {n}
           /\ Stored(l2, Append(s, n)) = Stored(l, s) \cup {o}
           /\ \A i \in 1 .. Len(s) : l2.data[s[i]] = l.data[s[i]]
           /\ l2.data[n] = o
<1> DEFINE P == List!Places
           h == ListHead
           k == Len(s)
           t == Append(s, n)
           nx == [l.next EXCEPT ![n] = n]
           pv == [l.prev EXCEPT ![n] = n]
           dt == [l.data EXCEPT ![n] = o]
           p == pv[h]
           nx2 == [nx EXCEPT ![n] = h, ![p] = n]
           pv2 == [pv EXCEPT ![n] = p, ![h] = n]
<1>1. /\ l = [prev |-> l.prev, next |-> l.next, data |-> l.data]
      /\ l.prev \in [P -> P \cup {NullPtr}] /\ l.next \in [P -> P \cup {NullPtr}]
      /\ l.data \in [Blocks -> Blocks \cup {NullPtr}]
      /\ Blocks \subseteq P /\ h \in P /\ n \in P
  BY LinkTypes DEF Chain
<1>2. /\ s \in Seq(Blocks) /\ k \in Nat /\ Simple(h, s) /\ n # h
      /\ \A i \in 1 .. k : s[i] # n /\ s[i] \in Blocks
      /\ Ringed(l.next, l.prev, h, s)
  BY LenProperties, ElementOfSeq, PoolAssumption DEF Chain, Elements
<1>3. t \in Seq(Blocks) /\ IsInserted(t, s, k, n) /\ Len(t) = k + 1
  <2>1. t \in Seq(Blocks) /\ IsInserted(t, s, k, n)
    BY <1>2, AppendInserts
  <2>. QED  BY <2>1 DEF IsInserted
<1>4. PICK l1 : l1 = List!SetData(List!Constructed(l, n), n, o)
  OBVIOUS
<1>5. l1 = [prev |-> pv, next |-> nx, data |-> dt]
  <2>1. [[l.data EXCEPT ![n] = NullPtr] EXCEPT ![n] = o] = dt
    BY <1>1
  <2>2. PICK a : a = List!TieOff(l, n)
    OBVIOUS
  <2>3. a = [prev |-> pv, next |-> nx, data |-> l.data]
    BY <1>1, <2>2 DEF List!TieOff
  <2>4. PICK b : b = List!SetData(a, n, NullPtr)
    OBVIOUS
  <2>. HIDE DEF pv, nx, dt
  <2>5. b = [prev |-> pv, next |-> nx, data |-> [l.data EXCEPT ![n] = NullPtr]]
    BY <2>3, <2>4 DEF List!SetData
  <2>6. l1 = List!SetData(b, n, o)
    BY <1>4, <2>2, <2>4 DEF List!Constructed
  <2>. QED  BY <2>1, <2>5, <2>6 DEF List!SetData
<1>5a. l2 = [prev |-> pv2, next |-> nx2, data |-> dt]
  <2>1. l2 = List!Between(l1, l1.prev[h], n, h)
    BY <1>4 DEF List!PushBack, List!AddBefore
  <2>2. l1.prev[h] = p
    BY <1>5
  <2>. HIDE DEF pv, nx, dt, p
  <2>3. l2 = List!Between(l1, p, n, h)
    BY <2>1, <2>2
  <2>. QED  BY <1>5, <2>3 DEF List!Between
<1>6. /\ DOMAIN nx = P /\ DOMAIN pv = P
      /\ \A x \in P : x # n => nx[x] = l.next[x] /\ pv[x] = l.prev[x]
      /\ nx \in [P -> P \cup {NullPtr}] /\ pv \in [P -> P \cup {NullPtr}]
  BY <1>1
<1>. HIDE DEF nx, pv
<1>7. Ringed(nx, pv, h, s)
  <2>1. \A x \in Elements(s) \cup {h} : nx[x] = l.next[x] /\ pv[x] = l.prev[x]
    BY <1>1, <1>2, <1>6 DEF Elements
  <2>. QED  BY <1>2, <2>1, RingedElsewhere
<1>8. At(h, s, k + 1) = h /\ At(h, s, k) = p /\ p \in P
  <2>1. k \in 0 .. Len(s) /\ ~(k + 1 \in 1 .. Len(s))
    BY <1>2
  <2>2. At(h, s, k + 1) = h
    BY <2>1 DEF At
  <2>3. pv[At(h, s, k + 1)] = At(h, s, k)
    BY <1>7, <2>1 DEF Ringed
  <2>4. At(h, s, k) \in P
    BY <1>1, <1>2 DEF At
  <2>. QED  BY <2>2, <2>3, <2>4
<1>9. Ringed(nx2, pv2, h, t)
  <2>1. k \in 0 .. Len(s) /\ n # h /\ (\A i \in 1 .. Len(s) : s[i] # n)
    BY <1>2
  <2>2. Ringed([nx EXCEPT ![n] = At(h, s, k + 1), ![At(h, s, k)] = n],
               [pv EXCEPT ![n] = At(h, s, k), ![At(h, s, k + 1)] = n], h, t)
    BY <1>1, <1>2, <1>3, <1>6, <1>7, <2>1, LinkIn
  <2>. QED  BY <1>8, <2>2
<1>10. /\ nx2 \in [P -> P \cup {NullPtr}] /\ pv2 \in [P -> P \cup {NullPtr}]
       /\ dt \in [Blocks -> Blocks \cup {NullPtr}]
       /\ dt[n] = o /\ \A x \in Blocks : x # n => dt[x] = l.data[x]
  BY <1>1, <1>6, <1>8
<1>. HIDE DEF nx2, pv2, dt, p
<1>11. l2 \in List!Links
  BY <1>5a, <1>10 DEF List!Links
<1>12. Simple(h, t) /\ Elements(t) = Elements(s) \cup {n}
  <2>1. /\ k \in 0 .. Len(s) /\ n # h /\ Simple(h, s) /\ (\A i \in 1 .. Len(s) : s[i] # n)
        /\ s \in Seq(Blocks)
    BY <1>2
  <2>. HIDE DEF t, k, h
  <2>. QED  BY <1>3, <2>1, InsertedKeeps
<1>13. l2.data[n] = o /\ \A i \in 1 .. k : l2.data[s[i]] = l.data[s[i]]
  BY <1>2, <1>5a, <1>10
<1>14. /\ \A i \in 1 .. k : l2.data[t[i]] = l.data[s[i]]
       /\ l2.data[t[k + 1]] = o
       /\ \A i \in 1 .. k : i \in 1 .. k + 1
       /\ k + 1 \in 1 .. k + 1
       /\ \A i \in 1 .. k + 1 : i \in 1 .. k \/ i = k + 1
  <2>1. \A i \in 1 .. k : t[i] = s[i]
    BY <1>2, AppendProperties
  <2>2. t[k + 1] = n
    BY <1>2, AppendProperties
  <2>3. (\A i \in 1 .. k : i \in 1 .. k + 1) /\ k + 1 \in 1 .. k + 1
    BY <1>2
  <2>4. \A i \in 1 .. k + 1 : i \in 1 .. k \/ i = k + 1
    BY <1>2
  <2>. QED  BY <1>13, <2>1, <2>2, <2>3, <2>4
<1>15. /\ \A i \in 1 .. k : l.data[s[i]] \in Blocks /\ l.data[s[i]] # o
       /\ \A i, j \in 1 .. k : l.data[s[i]] = l.data[s[j]] => i = j
  BY DEF Chain, Stored
<1>. HIDE DEF k, t
<1>16. \A i \in 1 .. k + 1 : l2.data[t[i]] \in Blocks
  BY <1>14, <1>15
<1>17. \A i, j \in 1 .. k + 1 : l2.data[t[i]] = l2.data[t[j]] => i = j
  BY <1>14, <1>15
<1>18. {l2.data[t[i]] : i \in 1 .. k + 1} = {l.data[s[i]] : i \in 1 .. k} \cup {o}
  <2>1. {l2.data[t[i]] : i \in 1 .. k + 1} \subseteq {l.data[s[i]] : i \in 1 .. k} \cup {o}
    BY <1>14
  <2>2. {l.data[s[i]] : i \in 1 .. k} \cup {o} \subseteq {l2.data[t[i]] : i \in 1 .. k + 1}
    BY <1>14
  <2>. QED  BY <2>1, <2>2
<1>19. Chain(l2, t)
  BY <1>3, <1>5a, <1>9, <1>11, <1>12, <1>16, <1>17 DEF Chain
<1>20. Stored(l2, t) = Stored(l, s) \cup {o}
  BY <1>3, <1>18 DEF Stored, k
<1>. QED  BY <1>12, <1>13, <1>19, <1>20 DEF k, t

\* The first node leaves the list and is destroyed, whatever has become of its data.
LEMMA NodeDropped ==
    ASSUME NEW l, NEW s, Chain(l, s), s # <<>>, NEW l1 \in List!Links,
           l1.next = l.next, l1.prev = l.prev,
           \A x \in Blocks : x # s[1] => l1.data[x] = l.data[x],
           NEW l2, l2 = List!Destructed(List!Remove(l1, s[1]), s[1])
    PROVE  /\ Chain(l2, Tail(s))
           /\ Elements(Tail(s)) = Elements(s) \ {s[1]}
           /\ Stored(l2, Tail(s)) = Stored(l, s) \ {l.data[s[1]]}
           /\ l.data[s[1]] \in Stored(l, s) /\ s[1] \in Elements(s)
           /\ \A i \in 1 .. Len(Tail(s)) : l2.data[Tail(s)[i]] = l.data[s[i + 1]]
<1> DEFINE P == List!Places
           h == ListHead
           k == Len(s)
           t == Tail(s)
           n == s[1]
           q == At(h, s, 1 + 1)
           p == At(h, s, 1 - 1)
           nx == [l.next EXCEPT ![p] = q, ![n] = n]
           pv == [l.prev EXCEPT ![q] = p, ![n] = n]
           nx2 == [nx EXCEPT ![n] = NullPtr]
           pv2 == [pv EXCEPT ![n] = NullPtr]
           dt == [l1.data EXCEPT ![n] = NullPtr]
<1>1. /\ l1 = [prev |-> l.prev, next |-> l.next, data |-> l1.data]
      /\ l.prev \in [P -> P \cup {NullPtr}] /\ l.next \in [P -> P \cup {NullPtr}]
      /\ l1.data \in [Blocks -> Blocks \cup {NullPtr}]
      /\ Blocks \subseteq P /\ h \in P
  BY LinkTypes DEF Chain
<1>2. /\ s \in Seq(Blocks) /\ k \in Nat /\ 1 \in 1 .. k /\ n \in Blocks /\ n \in P
      /\ Simple(h, s) /\ n # h /\ Ringed(l.next, l.prev, h, s)
      /\ \A i \in 1 .. k : s[i] \in Blocks
  <2>1. s \in Seq(Blocks) /\ Simple(h, s) /\ Ringed(l.next, l.prev, h, s)
    BY DEF Chain
  <2>2. k \in Nat /\ 1 \in 1 .. k
    BY <2>1, LenProperties, EmptySeq
  <2>. QED  BY <1>1, <2>1, <2>2, ElementOfSeq DEF Simple
<1>3. t \in Seq(Blocks) /\ IsRemoved(t, s, 1) /\ Len(t) = k - 1
  <2>1. t \in Seq(Blocks) /\ IsRemoved(t, s, 1)
    BY <1>2, TailRemoves
  <2>. QED  BY <2>1 DEF IsRemoved
<1>4. Simple(h, t) /\ Elements(t) = Elements(s) \ {n}
  <2>1. 1 \in 1 .. Len(s) /\ Simple(h, s) /\ s \in Seq(Blocks)
    BY <1>2
  <2>. HIDE DEF t, h
  <2>. QED  BY <1>3, <2>1, RemovedKeeps
<1>5. l.next[n] = q /\ l.prev[n] = p /\ Ringed(nx, pv, h, t)
  BY <1>1, <1>2, <1>3, LinkOut
<1>6. p \in P /\ q \in P
  BY <1>1, <1>2 DEF At
<1>7. PICK a : a = List!Remove(l1, n)
  OBVIOUS
<1>7a. a = [prev |-> pv, next |-> nx, data |-> l1.data]
  <2>1. PICK b : b = List!Unlinked(l1, n)
    OBVIOUS
  <2>. HIDE DEF p, q, n
  <2>2. b = [prev |-> [l.prev EXCEPT ![q] = p], next |-> [l.next EXCEPT ![p] = q],
             data |-> l1.data]
    BY <1>1, <1>5, <2>1 DEF List!Unlinked
  <2>3. a = List!TieOff(b, n)
    BY <1>7, <2>1 DEF List!Remove
  <2>. QED  BY <2>2, <2>3 DEF List!TieOff
<1>8. nx \in [P -> P \cup {NullPtr}] /\ pv \in [P -> P \cup {NullPtr}]
  BY <1>1, <1>2, <1>6
<1>. HIDE DEF nx, pv
<1>9. l2 = [prev |-> pv2, next |-> nx2, data |-> dt]
  <2>1. l2 = List!Destructed(a, n)
    BY <1>7
  <2>. HIDE DEF n
  <2>. QED  BY <1>7a, <2>1 DEF List!Destructed
<1>10. /\ nx2 \in [P -> P \cup {NullPtr}] /\ pv2 \in [P -> P \cup {NullPtr}]
       /\ dt \in [Blocks -> Blocks \cup {NullPtr}]
       /\ \A x \in P : x # n => nx2[x] = nx[x] /\ pv2[x] = pv[x]
       /\ \A x \in Blocks : x # n => dt[x] = l.data[x]
  BY <1>1, <1>2, <1>8
<1>. HIDE DEF nx2, pv2, dt
<1>11. l2 \in List!Links
  BY <1>9, <1>10 DEF List!Links
<1>12. Ringed(nx2, pv2, h, t)
  <2>1. \A x \in Elements(t) \cup {h} : x \in P /\ x # n
    BY <1>1, <1>2, <1>4 DEF Elements
  <2>. QED  BY <1>3, <1>5, <1>10, <2>1, RingedElsewhere
<1>13. \A i \in 1 .. k - 1 : i + 1 \in 1 .. k /\ i + 1 # 1 /\ t[i] = s[i + 1]
  <2>1. \A i \in 1 .. k - 1 : i + 1 \in 1 .. k /\ i + 1 # 1 /\ ~(i < 1)
    BY <1>2
  <2>. QED  BY <1>3, <2>1 DEF IsRemoved
<1>14. \A i \in 1 .. k - 1 : l2.data[t[i]] = l.data[s[i + 1]]
  <2>1. \A i \in 1 .. k - 1 : s[i + 1] # n /\ s[i + 1] \in Blocks
    BY <1>2, <1>13 DEF Simple
  <2>. QED  BY <1>9, <1>10, <1>13, <2>1
<1>15. /\ \A i \in 1 .. k : l.data[s[i]] \in Blocks
       /\ \A i, j \in 1 .. k : l.data[s[i]] = l.data[s[j]] => i = j
  BY DEF Chain
<1>. HIDE DEF k, t, n
<1>16. \A i \in 1 .. k - 1 : l2.data[t[i]] \in Blocks
  BY <1>13, <1>14, <1>15
<1>17. ASSUME NEW i \in 1 .. k - 1, NEW j \in 1 .. k - 1, l2.data[t[i]] = l2.data[t[j]]
       PROVE  i = j
  <2>1. i + 1 = j + 1
    BY <1>13, <1>14, <1>15, <1>17
  <2>. QED  BY <1>2, <2>1
<1>18. {l2.data[t[i]] : i \in 1 .. k - 1} = {l.data[s[i]] : i \in 1 .. k} \ {l.data[n]}
  <2>1. \A i \in 1 .. k : i # 1 => i - 1 \in 1 .. k - 1 /\ (i - 1) + 1 = i
    BY <1>2
  <2>2. ASSUME NEW i \in 1 .. k - 1
        PROVE  l2.data[t[i]] \in {l.data[s[j]] : j \in 1 .. k} \ {l.data[n]}
    <3>1. PICK j \in 1 .. k : j # 1 /\ l2.data[t[i]] = l.data[s[j]]
      BY <1>13, <1>14
    <3>2. l.data[s[j]] # l.data[s[1]]
      BY <1>2, <1>15, <3>1 DEF k
    <3>. QED  BY <3>1, <3>2 DEF n
  <2>3. ASSUME NEW i \in 1 .. k, l.data[s[i]] # l.data[n]
        PROVE  \E j \in 1 .. k - 1 : l.data[s[i]] = l2.data[t[j]]
    <3>1. i # 1
      BY <2>3 DEF n
    <3>. QED  BY <1>14, <2>1, <3>1
  <2>. QED  BY <2>2, <2>3
<1>19. Chain(l2, t)
  BY <1>3, <1>4, <1>9, <1>11, <1>12, <1>16, <1>17 DEF Chain
<1>20. Stored(l2, t) = Stored(l, s) \ {l.data[n]}
  BY <1>3, <1>18 DEF Stored, k
<1>21. l.data[n] \in Stored(l, s) /\ n \in Elements(s)
  BY <1>2 DEF Stored, Elements, k, n
<1>. QED  BY <1>3, <1>4, <1>14, <1>19, <1>20, <1>21 DEF k, t, n
\* The objects in the order of their nodes.
Objects(l, s) == [i \in 1 .. Len(s) |-> l.data[s[i]]]

\* What is in a sequence without repetitions counts as many as the sequence is long.
LEMMA Distinct ==
    ASSUME NEW n \in Nat, NEW f, DOMAIN f = 1 .. n, f = [i \in 1 .. n |-> f[i]],
           \A i, j \in 1 .. n : f[i] = f[j] => i = j
    PROVE  IsFiniteSet(Range(f)) /\ Cardinality(Range(f)) = n
<1> DEFINE I == 1 .. n
           T == Range(f)
<1>1. IsFiniteSet(I) /\ Cardinality(I) = n
  <2>1. 1 \in Int /\ n \in Int /\ (IF 1 > n THEN 0 ELSE n - 1 + 1) = n
    OBVIOUS
  <2>. QED  BY <2>1, FS_Interval
<1>2. f \in [I -> T]
  BY DEF Range
<1>3. f \in Injection(I, T)
  BY <1>2 DEF Injection, IsInjective
<1>4. f \in Surjection(I, T)
  BY <1>2 DEF Surjection, Range
<1>5. ExistsBijection(I, T)
  BY <1>3, <1>4 DEF ExistsBijection, Bijection
<1>. HIDE DEF I, T
<1>6. IsFiniteSet(T) /\ Cardinality(T) = n
  BY <1>1, <1>5, FS_Bijection
<1>. QED  BY <1>6 DEF T

\* The list is no longer than there are blocks, and has as many objects as nodes.
LEMMA ChainLength ==
    ASSUME NEW l, NEW s, Chain(l, s)
    PROVE  /\ Len(s) \in Nat /\ Len(s) <= Cardinality(Blocks)
           /\ IsFiniteSet(Stored(l, s)) /\ Cardinality(Stored(l, s)) = Len(s)
           /\ Stored(l, s) \subseteq Blocks
<1> DEFINE n == Len(s)
           f == Objects(l, s)
<1>1. /\ s \in Seq(Blocks) /\ n \in Nat
      /\ \A i, j \in 1 .. n : l.data[s[i]] = l.data[s[j]] => i = j
      /\ \A i \in 1 .. n : l.data[s[i]] \in Blocks
  BY LenProperties DEF Chain
<1>2. f = [i \in 1 .. n |-> l.data[s[i]]]
  BY DEF Objects
<1>. HIDE DEF n, f
<1>3. /\ DOMAIN f = 1 .. n /\ f = [i \in 1 .. n |-> f[i]]
      /\ \A i \in 1 .. n : f[i] = l.data[s[i]]
  BY <1>2
<1>4. \A i, j \in 1 .. n : f[i] = f[j] => i = j
  BY <1>1, <1>3
<1>5. IsFiniteSet(Range(f)) /\ Cardinality(Range(f)) = n
  BY <1>1, <1>3, <1>4, Distinct
<1>6. Range(f) = Stored(l, s)
  BY <1>3 DEF Stored, Range, n
<1>7. Stored(l, s) \subseteq Blocks
  BY <1>1 DEF Stored, n
<1>8. n <= Cardinality(Blocks)
  BY <1>5, <1>6, <1>7, BlocksFinite, FS_Subset
<1>. QED  BY <1>1, <1>5, <1>6, <1>7, <1>8 DEF n

\* The walk f of k steps from h along nx.
IsWalk(f, h, nx, k) == f = [i \in 0 .. k |-> IF i = 0 THEN h ELSE nx[f[i - 1]]]

\* A function defined by going one step on from the place before exists.
LEMMA WalkExists ==
    ASSUME NEW h, NEW nx, NEW k \in Nat
    PROVE  \E f : IsWalk(f, h, nx, k)
<1> DEFINE Good(m) == \E f : IsWalk(f, h, nx, m)
           T == {m \in Nat : ~Good(m)}
<1>1. SUFFICES ASSUME T # {} PROVE FALSE
  OBVIOUS
<1>2. PICK m \in T : \A y \in T : m <= y
  BY <1>1, Least
<1>3. Good(0)
  <2>1. [i \in 0 .. 0 |-> h]
          = [i \in 0 .. 0 |-> IF i = 0 THEN h ELSE nx[[j \in 0 .. 0 |-> h][i - 1]]]
    OBVIOUS
  <2>. QED  BY <2>1 DEF IsWalk
<1>4. m \in Nat /\ m # 0 /\ ~Good(m)
  BY <1>2, <1>3
<1>5. m - 1 \in Nat /\ Good(m - 1)
  <2>1. m - 1 \in Nat /\ ~(m <= m - 1)
    BY <1>4
  <2>. QED  BY <1>2, <2>1
<1>6. PICK f : f = [i \in 0 .. m - 1 |-> IF i = 0 THEN h ELSE nx[f[i - 1]]]
  BY <1>5 DEF IsWalk
<1> DEFINE g == [i \in 0 .. m |-> IF i < m THEN f[i] ELSE nx[f[m - 1]]]
<1>7. ASSUME NEW i \in 0 .. m
      PROVE  g[i] = IF i = 0 THEN h ELSE nx[g[i - 1]]
  <2>1. CASE i = 0
    <3>1. 0 \in 0 .. m - 1 /\ 0 < m /\ 0 \in 0 .. m
      BY <1>4
    <3>. QED  BY <1>6, <2>1, <3>1
  <2>2. CASE i # 0 /\ i < m
    <3>1. i \in 0 .. m - 1 /\ i - 1 \in 0 .. m /\ i - 1 < m
      BY <1>4, <2>2
    <3>2. f[i] = nx[f[i - 1]]
      BY <1>6, <2>2, <3>1
    <3>. QED  BY <2>2, <3>1, <3>2
  <2>3. CASE i = m
    <3>1. m - 1 \in 0 .. m /\ m - 1 < m /\ ~(m < m) /\ m # 0 /\ m \in 0 .. m
      BY <1>4
    <3>. QED  BY <2>3, <3>1
  <2>. QED  BY <1>4, <2>1, <2>2, <2>3
<1>8. g = [i \in 0 .. m |-> IF i = 0 THEN h ELSE nx[g[i - 1]]]
  <2>1. g = [i \in 0 .. m |-> g[i]]
    OBVIOUS
  <2>. HIDE DEF g
  <2>. QED  BY <1>7, <2>1
<1>9. Good(m)
  <2>. HIDE DEF g
  <2>. QED  BY <1>8 DEF IsWalk
<1>. QED  BY <1>4, <1>9

\* Walking the list meets its nodes, and then the head again: the readers of the
\* list see s and its objects.
LEMMA IdleIs ==
    \A s : Chain(links, s) =>
        /\ ListLength = Len(s) /\ Idle = Objects(links, s)
        /\ \A i \in 1 .. Len(s) : Walk[i] = s[i]
<1> SUFFICES ASSUME NEW s, Chain(links, s)
             PROVE  /\ ListLength = Len(s) /\ Idle = Objects(links, s)
                    /\ \A i \in 1 .. Len(s) : Walk[i] = s[i]
  OBVIOUS
<1> DEFINE n == Len(s)
           c == Cardinality(Blocks)
           h == ListHead
<1>1. n \in Nat /\ c \in Nat /\ n <= c
  BY ChainLength, BlocksFinite
<1>2. Walk = [i \in 0 .. c + 1 |-> IF i = 0 THEN h ELSE links.next[Walk[i - 1]]]
  <2>1. c + 1 \in Nat
    BY <1>1
  <2>2. PICK f : IsWalk(f, h, links.next, c + 1)
    BY <2>1, WalkExists
  <2>. QED  BY <2>2 DEF Walk, IsWalk
<1>. HIDE DEF n, c
<1>3. Walk[0] = h /\ \A i \in 1 .. n + 1 : Walk[i] = links.next[Walk[i - 1]]
  BY <1>1, <1>2
<1>4. /\ \A i \in 0 .. n : links.next[At(h, s, i)] = At(h, s, i + 1)
      /\ At(h, s, 0) = h /\ At(h, s, n + 1) = h
      /\ \A i \in 1 .. n : At(h, s, i) = s[i] /\ s[i] # h
  BY <1>1 DEF Chain, Ringed, At, Simple, n
<1>5. \A i \in 0 .. n + 1 : Walk[i] = At(h, s, i)
  <2> DEFINE T == {i \in 0 .. n + 1 : Walk[i] # At(h, s, i)}
  <2>1. SUFFICES ASSUME T # {} PROVE FALSE
    OBVIOUS
  <2>2. T \subseteq Nat
    BY <1>1
  <2>3. PICK m \in T : \A y \in T : m <= y
    BY <2>1, <2>2, Least
  <2>4. m # 0 /\ m \in 0 .. n + 1
    BY <1>3, <1>4, <2>3
  <2>5. m - 1 \in 0 .. n /\ m - 1 \in 0 .. n + 1 /\ ~(m <= m - 1) /\ (m - 1) + 1 = m
        /\ m \in 1 .. n + 1
    BY <1>1, <2>4
  <2>6. Walk[m - 1] = At(h, s, m - 1)
    BY <2>3, <2>5
  <2>7. Walk[m] = At(h, s, m)
    BY <1>3, <1>4, <2>5, <2>6
  <2>. QED  BY <2>3, <2>7
<1>6. \A i \in 1 .. n : Walk[i] = s[i]
  <2>1. \A i \in 1 .. n : i \in 0 .. n + 1
    BY <1>1
  <2>. QED  BY <1>4, <1>5, <2>1
<1>7. n + 1 \in Returns /\ \A j \in Returns : n + 1 <= j
  <2>1. n + 1 \in 1 .. c + 1 /\ n + 1 \in 0 .. n + 1
    BY <1>1
  <2>2. n + 1 \in Returns
    BY <1>4, <1>5, <2>1 DEF Returns, c
  <2>3. ASSUME NEW j \in Returns PROVE n + 1 <= j
    <3>1. j \in 1 .. c + 1 /\ Walk[j] = h
      BY DEF Returns, c
    <3>2. j \notin 1 .. n
      BY <1>4, <1>6, <3>1
    <3>. QED  BY <1>1, <3>1, <3>2
  <2>. QED  BY <2>2, <2>3
<1>8. ListLength = n
  <2>1. \A i \in Returns : i \in Int
    BY DEF Returns
  <2>2. \A i \in Returns : (\A j \in Returns : i <= j) => i = n + 1
    BY <1>1, <1>7, <2>1
  <2>3. (CHOOSE i \in Returns : \A j \in Returns : i <= j) = n + 1
    BY <1>7, <2>2
  <2>4. Returns # {}
    BY <1>7
  <2>5. ListLength = (n + 1) - 1
    BY <2>3, <2>4 DEF ListLength
  <2>. QED  BY <1>1, <2>5
<1>9. Idle = Objects(links, s)
  BY <1>6, <1>8 DEF Idle, Objects, n
<1>. QED  BY <1>6, <1>8, <1>9 DEF n
\* A node at the end adds its object to the end, the first node takes the first away.
LEMMA ObjectsAdded ==
    ASSUME NEW l, NEW l2, NEW s \in Seq(Blocks), NEW n \in Blocks, NEW o \in Blocks,
           \A i \in 1 .. Len(s) : l2.data[s[i]] = l.data[s[i]] /\ l.data[s[i]] \in Blocks,
           l2.data[n] = o
    PROVE  Objects(l2, Append(s, n)) = Append(Objects(l, s), o)
<1> DEFINE k == Len(s)
           t == Append(s, n)
           a == Objects(l, s)
           u == Append(a, o)
           v == Objects(l2, t)
<1>1. /\ k \in Nat /\ t \in Seq(Blocks) /\ Len(t) = k + 1 /\ t[k + 1] = n
      /\ \A i \in 1 .. k : t[i] = s[i]
  BY LenProperties, AppendProperties
<1>2. a \in Seq(Blocks) /\ Len(a) = k /\ \A i \in 1 .. k : a[i] = l.data[s[i]]
  BY <1>1 DEF Objects
<1>. HIDE DEF a, k, t
<1>3. u \in Seq(Blocks) /\ Len(u) = k + 1 /\ u[k + 1] = o /\ \A i \in 1 .. k : u[i] = a[i]
  BY <1>1, <1>2, AppendProperties
<1>4. \A i \in 1 .. k + 1 : i \in 1 .. k \/ i = k + 1
  BY <1>1
<1>5. \A i \in 1 .. k + 1 : l2.data[t[i]] = u[i] /\ u[i] \in Blocks
  <2>1. \A i \in 1 .. k : l2.data[t[i]] = u[i] /\ u[i] \in Blocks
    BY <1>1, <1>2, <1>3 DEF k
  <2>. QED  BY <1>1, <1>3, <1>4, <2>1
<1>6. v = [i \in 1 .. k + 1 |-> l2.data[t[i]]]
  BY <1>1 DEF Objects
<1>. HIDE DEF u, v
<1>7. v \in Seq(Blocks) /\ Len(v) = k + 1 /\ \A i \in 1 .. k + 1 : v[i] = u[i]
  BY <1>1, <1>5, <1>6
<1>8. v = u
  BY <1>3, <1>7, SeqEqual
<1>. QED  BY <1>8 DEF u, v, a, t

\* Without the first node the objects are those behind the first.
LEMMA ObjectsDropped ==
    ASSUME NEW l, NEW l2, NEW s \in Seq(Blocks), s # <<>>,
           \A i \in 1 .. Len(s) : l.data[s[i]] \in Blocks,
           \A i \in 1 .. Len(Tail(s)) : l2.data[Tail(s)[i]] = l.data[s[i + 1]]
    PROVE  /\ Objects(l, s) # <<>> /\ Head(Objects(l, s)) = l.data[s[1]]
           /\ Objects(l2, Tail(s)) = Tail(Objects(l, s))
<1> DEFINE k == Len(s)
           t == Tail(s)
           a == Objects(l, s)
           u == Tail(a)
           v == Objects(l2, t)
<1>1. /\ k \in Nat /\ t \in Seq(Blocks) /\ Len(t) = k - 1 /\ 1 \in 1 .. k
  BY LenProperties, HeadTailProperties, EmptySeq
<1>2. a \in Seq(Blocks) /\ Len(a) = k /\ \A i \in 1 .. k : a[i] = l.data[s[i]]
  BY <1>1 DEF Objects
<1>. HIDE DEF a, k, t
<1>3. a # <<>>
  BY <1>1, <1>2, EmptySeq
<1>4. Head(a) = a[1]
  BY <1>2, <1>3
<1>5. /\ u \in Seq(Blocks) /\ Len(u) = k - 1
      /\ \A i \in 1 .. k - 1 : u[i] = a[i + 1]
  BY <1>2, <1>3, HeadTailProperties
<1>6. \A i \in 1 .. k - 1 : i + 1 \in 1 .. k
  BY <1>1
<1>7. \A i \in 1 .. k - 1 : l2.data[t[i]] = u[i] /\ u[i] \in Blocks
  BY <1>1, <1>2, <1>5, <1>6 DEF k, t
<1>8. v = [i \in 1 .. k - 1 |-> l2.data[t[i]]]
  BY <1>1 DEF Objects
<1>. HIDE DEF u, v
<1>9. v \in Seq(Blocks) /\ Len(v) = k - 1 /\ \A i \in 1 .. k - 1 : v[i] = u[i]
  <2>1. k - 1 \in Nat
    BY <1>1
  <2>. QED  BY <1>7, <1>8, <2>1
<1>10. v = u
  BY <1>5, <1>9, SeqEqual
<1>. QED  BY <1>1, <1>2, <1>3, <1>4, <1>10 DEF u, v, a, t, k

\* The list s accounts for every block that is in use.
Accounts(s) ==
    /\ Chain(links, s)
    /\ UsedBlocks(nodes) = Elements(s)
    /\ UsedBlocks(objs) = built
    /\ built = out \cup Stored(links, s)
    /\ out \cap Stored(links, s) = {}

\* The inductive invariant.
PInv ==
    /\ Sound(objs) /\ Sound(nodes) /\ objs.chunks \cap nodes.chunks = {}
    /\ mode \in {"up", "dying", "down"}
    /\ mode # "up" => out = {}
    /\ mode = "down" => objs = NewAllocator /\ nodes = NewAllocator
    /\ mode = "up" => Cardinality(built) = peak
    /\ peak \in 0 .. Cardinality(Blocks)
    /\ \E s \in Seq(Blocks) : Accounts(s)

\* The parts of the invariant that do not speak of the list.
PoolParts ==
    /\ Sound(objs) /\ Sound(nodes) /\ objs.chunks \cap nodes.chunks = {}
    /\ mode \in {"up", "dying", "down"}
    /\ mode # "up" => out = {}
    /\ mode = "down" => objs = NewAllocator /\ nodes = NewAllocator
    /\ mode = "up" => Cardinality(built) = peak
    /\ peak \in 0 .. Cardinality(Blocks)

\* A new pool's list has only its head.
LEMMA NewListIs == Chain(List!NewList, <<>>)
<1> DEFINE l == List!NewList
<1>1. /\ l \in List!Links /\ l.next[ListHead] = ListHead /\ l.prev[ListHead] = ListHead
  BY DEF List!NewList, List!Links, List!Places
<1>. HIDE DEF l
<1>2. Len(<<>>) = 0 /\ <<>> \in Seq(Blocks)
  OBVIOUS
<1>3. Simple(ListHead, <<>>)
  BY <1>2 DEF Simple
<1>4. Ringed(l.next, l.prev, ListHead, <<>>)
  BY <1>1, <1>2 DEF Ringed, At
<1>. QED  BY <1>1, <1>2, <1>3, <1>4 DEF Chain, l

\* What is built is finite and made of blocks.
LEMMA BuiltFinite ==
    ASSUME NEW s, Accounts(s)
    PROVE  /\ built \subseteq Blocks /\ out \subseteq built /\ Stored(links, s) \subseteq built
           /\ IsFiniteSet(built) /\ Cardinality(built) \in Nat
           /\ Cardinality(built) <= Cardinality(Blocks)
           /\ IsFiniteSet(out) /\ Cardinality(out) \in Nat
           /\ Cardinality(out) <= Cardinality(built)
<1>1. built \subseteq Blocks /\ out \subseteq built /\ Stored(links, s) \subseteq built
  BY DEF Accounts, UsedBlocks
<1>2. IsFiniteSet(built) /\ Cardinality(built) <= Cardinality(Blocks)
  BY <1>1, BlocksFinite, FS_Subset
<1>3. IsFiniteSet(out) /\ Cardinality(out) <= Cardinality(built)
  BY <1>1, <1>2, FS_Subset
<1>. QED  BY <1>1, <1>2, <1>3, FS_CardinalityType

\* Allocate with an empty list makes an object.
LEMMA NewAllocated ==
    ASSUME PInv, NEW s, Accounts(s), AllocateNew
    PROVE  /\ PoolParts' /\ Accounts(s)' /\ s = <<>>
           /\ \E o \in Blocks \ out : out' = out \cup {o}
<1>1. /\ mode = "up" /\ s = <<>> /\ Chain(links, s)
      /\ nodes' = nodes /\ links' = links /\ mode' = mode
  BY ChainBegins DEF AllocateNew, Accounts
<1>2. PICK a \in Refilled(objs, PoolSpare) :
         /\ objs' = Popped(a) /\ built' = built \cup {Head(a.free)} /\ HandOut(Head(a.free))
  BY DEF AllocateNew
<1> DEFINE o == Head(a.free)
<1>3. PoolSpare \in SUBSET (Chunks \ objs.chunks) /\ PoolSpare \cap nodes.chunks = {}
  BY DEF PoolSpare
<1>4. /\ Sound(objs) /\ Sound(nodes) /\ objs.chunks \cap nodes.chunks = {}
      /\ Cardinality(built) = peak /\ peak \in 0 .. Cardinality(Blocks)
  BY <1>1 DEF PInv
<1>5. /\ o \in Blocks /\ o \notin UsedBlocks(objs) /\ Sound(Popped(a))
      /\ UsedBlocks(Popped(a)) = UsedBlocks(objs) \cup {o}
      /\ Popped(a).chunks \subseteq objs.chunks \cup PoolSpare
  BY <1>2, <1>3, <1>4, AllocTakes
<1>. HIDE DEF o
<1>6. objs' = Popped(a) /\ built' = built \cup {o} /\ out' = out \cup {o} /\ HandOut(o)
  BY <1>2 DEF HandOut, o
<1>7. Stored(links, s) = {} /\ built = out /\ UsedBlocks(objs) = built
  <2>1. Len(s) = 0
    BY <1>1
  <2>2. Stored(links, s) = {}
    BY <2>1 DEF Stored
  <2>. QED  BY <2>2 DEF Accounts
<1>8. Accounts(s)'
  <2>1. /\ Chain(links', s) /\ UsedBlocks(nodes') = Elements(s)
        /\ UsedBlocks(objs') = built' /\ built' = out' \cup Stored(links', s)
        /\ out' \cap Stored(links', s) = {}
    BY <1>1, <1>5, <1>6, <1>7 DEF Accounts
  <2>. QED  BY <2>1 DEF Accounts
<1>9. peak' = Cardinality(built') /\ peak' \in 0 .. Cardinality(Blocks)
  <2>1. IsFiniteSet(built) /\ Cardinality(built) \in Nat /\ built \subseteq Blocks
    BY BuiltFinite
  <2>2. built' = out' /\ Cardinality(built') = Cardinality(built) + 1
    BY <1>5, <1>6, <1>7, <2>1, FS_AddElement
  <2>3. peak' = IF Cardinality(out') > peak THEN Cardinality(out') ELSE peak
    BY <1>6 DEF HandOut
  <2>4. built' \subseteq Blocks
    BY <1>5, <1>6, <2>1
  <2>5. Cardinality(built') <= Cardinality(Blocks)
    BY <2>4, BlocksFinite, FS_Subset
  <2>. QED  BY <1>4, <2>1, <2>2, <2>3, <2>5, BlocksFinite
<1>10. PoolParts'
  <2>1. objs'.chunks \cap nodes'.chunks = {}
    BY <1>1, <1>3, <1>4, <1>5, <1>6
  <2>. QED  BY <1>1, <1>4, <1>5, <1>6, <1>9, <2>1 DEF PoolParts
<1>. QED  BY <1>1, <1>5, <1>6, <1>7, <1>8, <1>10

\* Allocate otherwise takes the first node's object and gives the node back.
LEMMA Reallocated ==
    ASSUME PInv, NEW s, Accounts(s), AllocateReused
    PROVE  /\ PoolParts' /\ Accounts(Tail(s))' /\ Tail(s) \in Seq(Blocks)
           /\ Objects(links, s) # <<>>
           /\ Objects(links', Tail(s)) = Tail(Objects(links, s))
           /\ out' = out \cup {Head(Objects(links, s))}
<1> DEFINE n == s[1]
           o == links.data[n]
           t == Tail(s)
           l1 == List!SetData(links, n, NullPtr)
<1>1. /\ mode = "up" /\ s # <<>> /\ Chain(links, s) /\ s \in Seq(Blocks)
      /\ List!Begin(links) = n /\ n \in Blocks /\ 1 \in 1 .. Len(s)
      /\ UNCHANGED <<objs, built, mode>>
      /\ UsedBlocks(nodes) = Elements(s) /\ UsedBlocks(objs) = built
      /\ built = out \cup Stored(links, s) /\ out \cap Stored(links, s) = {}
  BY ChainBegins DEF AllocateReused, Accounts, Chain
<1>2. /\ links' = List!Destructed(List!Remove(l1, n), n)
      /\ nodes' = Pushed(nodes, n) /\ HandOut(o)
  BY <1>1 DEF AllocateReused
<1>3. /\ l1 \in List!Links /\ l1.next = links.next /\ l1.prev = links.prev
      /\ \A x \in Blocks : x # n => l1.data[x] = links.data[x]
  <2>1. PICK l : l = List!SetData(links, n, NullPtr)
    OBVIOUS
  <2>2. /\ links = [prev |-> links.prev, next |-> links.next, data |-> links.data]
        /\ links \in List!Links
        /\ links.data \in [Blocks -> Blocks \cup {NullPtr}]
    BY <1>1, LinkTypes DEF Chain
  <2>3. l = [prev |-> links.prev, next |-> links.next,
             data |-> [links.data EXCEPT ![n] = NullPtr]]
    BY <2>1, <2>2 DEF List!SetData
  <2>4. [links.data EXCEPT ![n] = NullPtr] \in [Blocks -> Blocks \cup {NullPtr}]
    BY <2>2
  <2>5. l \in List!Links
    BY <2>2, <2>3, <2>4 DEF List!Links
  <2>. QED  BY <1>1, <2>1, <2>2, <2>3, <2>5
<1>. HIDE DEF l1
<1>4. /\ Chain(links', t) /\ Elements(t) = Elements(s) \ {n}
      /\ Stored(links', t) = Stored(links, s) \ {o}
      /\ o \in Stored(links, s) /\ n \in Elements(s)
      /\ \A i \in 1 .. Len(t) : links'.data[t[i]] = links.data[s[i + 1]]
  BY <1>1, <1>2, <1>3, NodeDropped
<1>5. /\ Objects(links, s) # <<>> /\ Head(Objects(links, s)) = o
      /\ Objects(links', t) = Tail(Objects(links, s))
  <2>1. \A i \in 1 .. Len(s) : links.data[s[i]] \in Blocks
    BY <1>1 DEF Chain
  <2>. QED  BY <1>1, <1>4, <2>1, ObjectsDropped
<1>. HIDE DEF t, o, n
<1>6. /\ Sound(objs) /\ Sound(nodes) /\ objs.chunks \cap nodes.chunks = {}
      /\ Cardinality(built) = peak /\ peak \in 0 .. Cardinality(Blocks)
  BY <1>1 DEF PInv
<1>7. /\ Sound(nodes') /\ nodes'.chunks = nodes.chunks
      /\ UsedBlocks(nodes') = UsedBlocks(nodes) \ {n}
  BY <1>1, <1>2, <1>4, <1>6, FreeGives
<1>8. out' = out \cup {o}
  BY <1>2 DEF HandOut
<1>9. Accounts(t)'
  <2>1. /\ Chain(links', t) /\ UsedBlocks(nodes') = Elements(t)
        /\ UsedBlocks(objs') = built' /\ built' = out' \cup Stored(links', t)
        /\ out' \cap Stored(links', t) = {}
    BY <1>1, <1>4, <1>7, <1>8
  <2>. QED  BY <2>1 DEF Accounts, t
<1>10. peak' = peak
  <2>1. out' \subseteq built /\ IsFiniteSet(built)
    BY <1>1, <1>4, <1>8, BuiltFinite
  <2>2. Cardinality(out') <= Cardinality(built) /\ IsFiniteSet(out')
    BY <2>1, FS_Subset
  <2>3. Cardinality(out') \in Nat /\ Cardinality(built) \in Nat
    BY <2>1, <2>2, FS_CardinalityType
  <2>4. peak' = IF Cardinality(out') > peak THEN Cardinality(out') ELSE peak
    BY <1>2 DEF HandOut
  <2>. QED  BY <1>6, <2>2, <2>3, <2>4
<1>11. PoolParts'
  BY <1>1, <1>6, <1>7, <1>10 DEF PoolParts
<1>12. t \in Seq(Blocks)
  BY <1>4 DEF Chain
<1>. QED  BY <1>5, <1>8, <1>9, <1>11, <1>12 DEF t

\* Free puts the object behind the others, in a node of its own.
LEMMA Freed ==
    ASSUME PInv, NEW s, Accounts(s), NEW o \in out, PoolFree(o)
    PROVE  \E t \in Seq(Blocks) :
              /\ PoolParts' /\ Accounts(t)'
              /\ Objects(links', t) = Append(Objects(links, s), o)
              /\ out' = out \ {o}
<1>1. /\ mode = "up" /\ Chain(links, s) /\ s \in Seq(Blocks) /\ out' = out \ {o}
      /\ UNCHANGED <<objs, built, mode, peak>>
      /\ UsedBlocks(nodes) = Elements(s) /\ UsedBlocks(objs) = built
      /\ built = out \cup Stored(links, s) /\ out \cap Stored(links, s) = {}
  BY DEF PoolFree, Accounts, Chain
<1>2. PICK a \in Refilled(nodes, PoolSpare) :
         /\ nodes' = Popped(a)
         /\ links' = List!PushBack(List!SetData(List!Constructed(links, Head(a.free)),
                                                Head(a.free), o), Head(a.free))
  BY DEF PoolFree
<1> DEFINE n == Head(a.free)
           t == Append(s, n)
<1>3. PoolSpare \in SUBSET (Chunks \ nodes.chunks) /\ PoolSpare \cap objs.chunks = {}
  BY DEF PoolSpare
<1>4. /\ Sound(objs) /\ Sound(nodes) /\ objs.chunks \cap nodes.chunks = {}
      /\ Cardinality(built) = peak /\ peak \in 0 .. Cardinality(Blocks)
  BY <1>1 DEF PInv
<1>5. /\ n \in Blocks /\ n \notin UsedBlocks(nodes) /\ Sound(Popped(a))
      /\ UsedBlocks(Popped(a)) = UsedBlocks(nodes) \cup {n}
      /\ Popped(a).chunks \subseteq nodes.chunks \cup PoolSpare
  BY <1>2, <1>3, <1>4, AllocTakes
<1>6. o \in Blocks /\ o \notin Stored(links, s)
  BY <1>1, BuiltFinite
<1>. HIDE DEF n
<1>7. links' = List!PushBack(List!SetData(List!Constructed(links, n), n, o), n)
  BY <1>2 DEF n
<1>8. /\ Chain(links', t) /\ Elements(t) = Elements(s) \cup {n}
      /\ Stored(links', t) = Stored(links, s) \cup {o}
      /\ \A i \in 1 .. Len(s) : links'.data[s[i]] = links.data[s[i]]
      /\ links'.data[n] = o
  BY <1>1, <1>5, <1>6, <1>7, NodeAdded
<1>9. Objects(links', t) = Append(Objects(links, s), o)
  <2>1. \A i \in 1 .. Len(s) : links.data[s[i]] \in Blocks
    BY <1>1 DEF Chain
  <2>. QED  BY <1>1, <1>5, <1>6, <1>8, <2>1, ObjectsAdded
<1>. HIDE DEF t
<1>10. Accounts(t)'
  <2>1. /\ Chain(links', t) /\ UsedBlocks(nodes') = Elements(t)
        /\ UsedBlocks(objs') = built' /\ built' = out' \cup Stored(links', t)
        /\ out' \cap Stored(links', t) = {}
    BY <1>1, <1>2, <1>5, <1>8
  <2>. QED  BY <2>1 DEF Accounts
<1>11. PoolParts'
  <2>1. objs'.chunks \cap nodes'.chunks = {}
    BY <1>1, <1>2, <1>3, <1>4, <1>5
  <2>. QED  BY <1>1, <1>2, <1>4, <1>5, <2>1 DEF PoolParts
<1>12. t \in Seq(Blocks)
  BY <1>8 DEF Chain
<1>. QED  BY <1>1, <1>9, <1>10, <1>11, <1>12

\* The destructor destroys the first object and gives both blocks back.
LEMMA FirstDestroyed ==
    ASSUME PInv, NEW s, Accounts(s), DestroyFirst
    PROVE  /\ PoolParts' /\ Accounts(Tail(s))' /\ Tail(s) \in Seq(Blocks)
           /\ Objects(links, s) # <<>>
           /\ Objects(links', Tail(s)) = Tail(Objects(links, s))
           /\ out' = out /\ out = {}
<1> DEFINE n == s[1]
           o == links.data[n]
           t == Tail(s)
<1>1. /\ mode = "dying" /\ s # <<>> /\ Chain(links, s) /\ s \in Seq(Blocks)
      /\ List!Begin(links) = n /\ n \in Blocks /\ 1 \in 1 .. Len(s)
      /\ UNCHANGED <<out, mode, peak>>
      /\ UsedBlocks(nodes) = Elements(s) /\ UsedBlocks(objs) = built
      /\ built = out \cup Stored(links, s) /\ out \cap Stored(links, s) = {}
  BY ChainBegins DEF DestroyFirst, Accounts, Chain
<1>2. /\ links' = List!Destructed(List!Remove(links, n), n)
      /\ nodes' = Pushed(nodes, n) /\ objs' = Pushed(objs, o) /\ built' = built \ {o}
  BY <1>1 DEF DestroyFirst
<1>3. links \in List!Links
  BY <1>1 DEF Chain
<1>4. /\ Chain(links', t) /\ Elements(t) = Elements(s) \ {n}
      /\ Stored(links', t) = Stored(links, s) \ {o}
      /\ o \in Stored(links, s) /\ n \in Elements(s)
      /\ \A i \in 1 .. Len(t) : links'.data[t[i]] = links.data[s[i + 1]]
  BY <1>1, <1>2, <1>3, NodeDropped
<1>5. /\ Objects(links, s) # <<>>
      /\ Objects(links', t) = Tail(Objects(links, s))
  <2>1. \A i \in 1 .. Len(s) : links.data[s[i]] \in Blocks
    BY <1>1 DEF Chain
  <2>. QED  BY <1>1, <1>4, <2>1, ObjectsDropped
<1>. HIDE DEF t, o, n
<1>6. /\ Sound(objs) /\ Sound(nodes) /\ objs.chunks \cap nodes.chunks = {}
      /\ out = {} /\ peak \in 0 .. Cardinality(Blocks)
  BY <1>1 DEF PInv
<1>7. /\ Sound(nodes') /\ nodes'.chunks = nodes.chunks
      /\ UsedBlocks(nodes') = UsedBlocks(nodes) \ {n}
  BY <1>1, <1>2, <1>4, <1>6, FreeGives
<1>8. /\ Sound(objs') /\ objs'.chunks = objs.chunks
      /\ UsedBlocks(objs') = UsedBlocks(objs) \ {o}
  <2>1. o \in UsedBlocks(objs)
    BY <1>1, <1>4
  <2>. QED  BY <1>2, <1>6, <2>1, FreeGives
<1>9. Accounts(t)'
  <2>1. /\ Chain(links', t) /\ UsedBlocks(nodes') = Elements(t)
        /\ UsedBlocks(objs') = built' /\ built' = out' \cup Stored(links', t)
        /\ out' \cap Stored(links', t) = {}
    BY <1>1, <1>2, <1>4, <1>6, <1>7, <1>8
  <2>. QED  BY <2>1 DEF Accounts, t
<1>10. PoolParts'
  BY <1>1, <1>6, <1>7, <1>8 DEF PoolParts
<1>11. t \in Seq(Blocks)
  BY <1>4 DEF Chain
<1>. QED  BY <1>1, <1>5, <1>6, <1>9, <1>10, <1>11 DEF t

\* The other steps leave the blocks alone, or come when none is in use.
LEMMA OthersKeep ==
    ASSUME PInv, NEW s \in Seq(Blocks), Accounts(s),
           BadAlloc \/ Die \/ FreeAll \/ Construct \/ UNCHANGED poolVars
    PROVE  /\ PoolParts' /\ out' = out
           /\ \E t \in Seq(Blocks) : Accounts(t)' /\ Objects(links', t) = Objects(links, s)
<1>1. CASE BadAlloc \/ Die \/ UNCHANGED poolVars
  <2>1. UNCHANGED <<objs, nodes, links, built, out, peak>>
    BY <1>1 DEF BadAlloc, Die, poolVars
  <2>2. mode' = mode \/ (mode = "up" /\ mode' = "dying" /\ out = {})
    BY <1>1 DEF BadAlloc, Die, poolVars
  <2>3. Accounts(s)'
    BY <2>1 DEF Accounts
  <2>4. PoolParts'
    BY <2>1, <2>2 DEF PInv, PoolParts
  <2>. QED  BY <2>1, <2>3, <2>4
<1>2. CASE FreeAll
  <2>1. /\ mode = "dying" /\ mode' = "down" /\ s = <<>>
        /\ objs' = NewAllocator /\ nodes' = NewAllocator
        /\ UNCHANGED <<links, built, out, peak>>
    BY <1>2, ChainBegins DEF FreeAll, Accounts
  <2>2. out = {} /\ peak \in 0 .. Cardinality(Blocks)
    BY <2>1 DEF PInv
  <2>3. Elements(s) = {} /\ Stored(links, s) = {}
    <3>1. Len(s) = 0
      BY <2>1
    <3>. QED  BY <3>1 DEF Elements, Stored
  <2>4. Accounts(s)'
    <3>1. /\ Chain(links', s) /\ UsedBlocks(nodes') = Elements(s)
          /\ UsedBlocks(objs') = built' /\ built' = out' \cup Stored(links', s)
          /\ out' \cap Stored(links', s) = {}
      BY <2>1, <2>2, <2>3, NewUnused DEF Accounts
    <3>. QED  BY <3>1 DEF Accounts
  <2>5. PoolParts'
    BY <2>1, <2>2, NewUnused DEF PoolParts
  <2>. QED  BY <2>1, <2>4, <2>5
<1>3. CASE Construct
  <2>1. /\ mode = "down" /\ mode' = "up" /\ links' = List!NewList /\ peak' = 0
        /\ UNCHANGED <<objs, nodes, built, out>>
    BY <1>3 DEF Construct
  <2>2. objs = NewAllocator /\ nodes = NewAllocator /\ out = {}
    BY <2>1 DEF PInv
  <2>3. built = {} /\ s = <<>>
    <3>1. UsedBlocks(nodes) = {} /\ built = {} /\ Elements(s) = {}
      BY <2>2, NewUnused DEF Accounts
    <3>2. s # <<>> => s[1] \in Elements(s)
      BY LenProperties, EmptySeq DEF Elements
    <3>. QED  BY <3>1, <3>2
  <2>4. Chain(links', s)
    BY <2>1, <2>3, NewListIs
  <2>5. Stored(links', s) = {} /\ Elements(s) = {} /\ Objects(links', s) = Objects(links, s)
    <3>1. Len(s) = 0
      BY <2>3
    <3>. QED  BY <3>1 DEF Elements, Stored, Objects
  <2>6. Accounts(s)'
    <3>1. /\ UsedBlocks(nodes') = Elements(s)
          /\ UsedBlocks(objs') = built' /\ built' = out' \cup Stored(links', s)
          /\ out' \cap Stored(links', s) = {}
      BY <2>1, <2>2, <2>3, <2>5, NewUnused
    <3>. QED  BY <2>4, <3>1 DEF Accounts
  <2>7. PoolParts'
    <3>1. Cardinality({}) = 0
      BY FS_EmptySet
    <3>. QED  BY <2>1, <2>2, <2>3, <3>1, BlocksFinite, NewUnused DEF PoolParts
  <2>. QED  BY <2>1, <2>5, <2>6, <2>7
<1>. QED  BY <1>1, <1>2, <1>3

\* Every step of the pool, with the list before and behind it.
LEMMA PoolStep ==
    ASSUME PInv, [PoolNext]_poolVars
    PROVE  /\ PoolParts'
           /\ \E s, t \in Seq(Blocks) :
                 /\ Accounts(s) /\ Accounts(t)'
                 /\ \/ /\ Objects(links, s) = <<>> /\ Objects(links', t) = <<>>
                       /\ \E o \in Blocks \ out : out' = out \cup {o}
                    \/ /\ Objects(links, s) # <<>>
                       /\ out' = out \cup {Head(Objects(links, s))}
                       /\ Objects(links', t) = Tail(Objects(links, s))
                    \/ \E o \in out :
                          /\ out' = out \ {o}
                          /\ Objects(links', t) = Append(Objects(links, s), o)
                    \/ /\ out = {} /\ Objects(links, s) # <<>> /\ out' = out
                       /\ Objects(links', t) = Tail(Objects(links, s))
                    \/ out' = out /\ Objects(links', t) = Objects(links, s)
<1>1. PICK s \in Seq(Blocks) : Accounts(s)
  BY DEF PInv
<1>2. CASE AllocateNew
  <2>1. /\ PoolParts' /\ Accounts(s)' /\ s = <<>>
        /\ \E o \in Blocks \ out : out' = out \cup {o}
    BY <1>1, <1>2, NewAllocated
  <2>2. Objects(links, s) = <<>> /\ Objects(links', s) = <<>>
    BY <2>1 DEF Objects
  <2>. QED  BY <1>1, <2>1, <2>2
<1>3. CASE AllocateReused
  BY <1>1, <1>3, Reallocated
<1>4. CASE \E o \in out : PoolFree(o)
  BY <1>1, <1>4, Freed
<1>5. CASE DestroyFirst
  BY <1>1, <1>5, FirstDestroyed
<1>6. CASE BadAlloc \/ Die \/ FreeAll \/ Construct \/ UNCHANGED poolVars
  BY <1>1, <1>6, OthersKeep
<1>. QED  BY <1>2, <1>3, <1>4, <1>5, <1>6 DEF PoolNext

\* A new pool satisfies the invariant.
LEMMA PoolBegins == PoolInit => PInv /\ out = {} /\ Chain(links, <<>>)
<1> SUFFICES ASSUME PoolInit PROVE PInv /\ out = {} /\ Chain(links, <<>>)
  OBVIOUS
<1>1. /\ objs = NewAllocator /\ nodes = NewAllocator /\ links = List!NewList
      /\ built = {} /\ out = {} /\ mode = "up" /\ peak = 0
  BY DEF PoolInit
<1>2. Chain(links, <<>>) /\ <<>> \in Seq(Blocks)
  BY <1>1, NewListIs DEF Chain
<1>3. Elements(<<>>) = {} /\ Stored(links, <<>>) = {}
  BY DEF Elements, Stored
<1>4. Accounts(<<>>)
  BY <1>1, <1>2, <1>3, NewUnused DEF Accounts
<1>5. Cardinality(built) = peak /\ peak \in 0 .. Cardinality(Blocks)
  BY <1>1, FS_EmptySet, BlocksFinite
<1>6. Sound(objs) /\ Sound(nodes) /\ objs.chunks \cap nodes.chunks = {}
  BY <1>1, NewUnused
<1>. QED  BY <1>1, <1>2, <1>4, <1>5, <1>6 DEF PInv

\* In every state of the pool its list is a circle of the blocks that are in use as
\* nodes, which carry exactly the built objects that no client has.
THEOREM PoolInvariant == PoolSpec => []PInv
<1>1. PInv /\ [PoolNext]_poolVars => PInv'
  <2>1. SUFFICES ASSUME PInv, [PoolNext]_poolVars PROVE PInv'
    OBVIOUS
  <2>2. PoolParts' /\ \E t \in Seq(Blocks) : Accounts(t)'
    BY <2>1, PoolStep
  <2>. QED  BY <2>2 DEF PInv, PoolParts
<1>. QED  BY <1>1, PoolBegins, PTL DEF PoolSpec

\* The pool's variables have their types: both allocators, the list's pointers and
\* the sets of ReusableObjectPool.
THEOREM PoolTyped == PoolSpec => []PoolTypeOK
<1>1. PInv => PoolTypeOK
  <2> SUFFICES ASSUME PInv PROVE PoolTypeOK
    OBVIOUS
  <2>1. PICK s \in Seq(Blocks) : Accounts(s)
    BY DEF PInv
  <2>2. links \in List!Links
    BY <2>1 DEF Accounts, Chain
  <2>3. built \subseteq Blocks /\ out \subseteq Blocks
    BY <2>1, BuiltFinite
  <2>. QED  BY <2>2, <2>3 DEF PInv, PoolTypeOK, Sound
<1>. QED  BY <1>1, PoolInvariant, PTL

\* Allocate makes an object only when the list is empty: there are never more than
\* clients had at a time.
THEOREM BuiltAsPeak == PoolSpec => []BuiltIsPeak
<1>1. PInv => BuiltIsPeak
  BY DEF PInv, BuiltIsPeak
<1>. QED  BY <1>1, PoolInvariant, PTL

\* Neither an object nor a node leaks: what the allocators lent out is what clients
\* have and the list keeps, up to and behind the destructor.
THEOREM PoolLeaksNothing == PoolSpec => []NothingLeaks
<1>1. PInv => NothingLeaks
  <2> SUFFICES ASSUME PInv PROVE NothingLeaks
    OBVIOUS
  <2>1. PICK s \in Seq(Blocks) : Accounts(s)
    BY DEF PInv
  <2>2. /\ Chain(links, s) /\ UsedBlocks(nodes) = Elements(s) /\ UsedBlocks(objs) = built
        /\ built = out \cup Stored(links, s) /\ out \cap Stored(links, s) = {}
    BY <2>1 DEF Accounts
  <2>3. /\ ListLength = Len(s) /\ Idle = Objects(links, s)
        /\ \A i \in 1 .. Len(s) : Walk[i] = s[i]
    BY <2>2, IdleIs
  <2>4. Len(s) \in Nat /\ IsFiniteSet(Stored(links, s)) /\ Cardinality(Stored(links, s)) = Len(s)
    BY <2>2, ChainLength
  <2>5. DOMAIN Idle = 1 .. Len(s) /\ Len(Idle) = Len(s) /\ \A i \in 1 .. Len(s) : Idle[i] = links.data[s[i]]
    BY <2>3, <2>4 DEF Objects
  <2>6. {Idle[i] : i \in DOMAIN Idle} = Stored(links, s)
    BY <2>5 DEF Stored
  <2>7. Cardinality(built) = Cardinality(out) + Len(s)
    <3>1. IsFiniteSet(out) /\ Cardinality(out) \in Nat
      BY <2>1, BuiltFinite
    <3>2. Cardinality(out \cup Stored(links, s))
            = Cardinality(out) + Cardinality(Stored(links, s)) - Cardinality(out \cap Stored(links, s))
      BY <2>4, <3>1, FS_Union
    <3>3. Cardinality(out \cap Stored(links, s)) = 0
      BY <2>2, FS_EmptySet
    <3>. QED  BY <2>2, <2>4, <3>1, <3>2, <3>3
  <2>8. UsedBlocks(nodes) = {Walk[i] : i \in 1 .. ListLength}
    BY <2>2, <2>3 DEF Elements
  <2>. QED  BY <2>2, <2>5, <2>6, <2>7, <2>8 DEF NothingLeaks
<1>. QED  BY <1>1, PoolInvariant, PTL

\* The pool with its pointers, nodes and allocators is ObjectStore: Allocate hands
\* out the object that has waited longest, and makes one only when none waits.
THEOREM PoolIsObjectStore == PoolSpec => PoolIsStore
<1> DEFINE Reads == \A s : Chain(links, s) => Idle = Objects(links, s)
<1>1. Reads
  BY IdleIs
<1>2. PoolInit /\ Reads => Store!StoreInit
  <2> SUFFICES ASSUME PoolInit, Reads PROVE Store!StoreInit
    OBVIOUS
  <2>1. out = {} /\ Idle = Objects(links, <<>>)
    BY PoolBegins
  <2>2. Objects(links, <<>>) = <<>>
    BY DEF Objects
  <2>. QED  BY <2>1, <2>2 DEF Store!StoreInit
<1>3. Reads /\ Reads' /\ PInv /\ [PoolNext]_poolVars => [Store!StoreNext]_<<Idle, out>>
  <2> SUFFICES ASSUME Reads, Reads', PInv, [PoolNext]_poolVars
               PROVE  [Store!StoreNext]_<<Idle, out>>
    OBVIOUS
  <2>1. PICK s \in Seq(Blocks), t \in Seq(Blocks) :
           /\ Accounts(s) /\ Accounts(t)'
           /\ \/ /\ Objects(links, s) = <<>> /\ Objects(links', t) = <<>>
                 /\ \E o \in Blocks \ out : out' = out \cup {o}
              \/ /\ Objects(links, s) # <<>>
                 /\ out' = out \cup {Head(Objects(links, s))}
                 /\ Objects(links', t) = Tail(Objects(links, s))
              \/ \E o \in out :
                    /\ out' = out \ {o}
                    /\ Objects(links', t) = Append(Objects(links, s), o)
              \/ /\ out = {} /\ Objects(links, s) # <<>> /\ out' = out
                 /\ Objects(links', t) = Tail(Objects(links, s))
              \/ out' = out /\ Objects(links', t) = Objects(links, s)
    BY PoolStep
  <2>2. Chain(links, s) /\ Chain(links', t)
    BY <2>1 DEF Accounts
  <2>3. Idle = Objects(links, s) /\ Idle' = Objects(links', t)
    BY <2>2
  <2>4. \/ Idle = <<>> /\ Idle' = <<>> /\ \E o \in Blocks \ out : out' = out \cup {o}
        \/ Idle # <<>> /\ out' = out \cup {Head(Idle)} /\ Idle' = Tail(Idle)
        \/ \E o \in out : out' = out \ {o} /\ Idle' = Append(Idle, o)
        \/ out = {} /\ Idle # <<>> /\ out' = out /\ Idle' = Tail(Idle)
        \/ out' = out /\ Idle' = Idle
    BY <2>1, <2>3
  <2>. HIDE DEF Reads
  <2>. QED  BY <2>4 DEF Store!StoreNext, Store!Make, Store!Reuse, Store!Release, Store!Drop
<1>. HIDE DEF Reads
<1>. QED  BY <1>1, <1>2, <1>3, PoolInvariant, PTL DEF PoolSpec, PoolIsStore, Store!StoreSpec
==============================================================================
