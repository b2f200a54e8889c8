---------------------------- MODULE NetworkProofs -----------------------------
(***************************************************************************)
(* The reference count of a session is exact, a session is closed once and *)
(* while it is quiescent, for any number of sessions, threads and packets. *)
(* Three parts: the frames that wait on the stacks, the reference count,   *)
(* and the shape of the stacks.                                            *)
(***************************************************************************)
EXTENDS Network, FiniteSetTheorems, SequenceTheorems, TLAPS

------------------------------------------------------------------------------
(***************************************************************************)
(* How a step of one thread changes the number of frames that wait on the  *)
(* stacks: the calls of ReleaseRef, AddClosingSession and ReleaseSession   *)
(* that the handlers of Session.cpp still owe.                             *)
(***************************************************************************)

\* A pair is in Holders(f) when it is the position of f on a stack.
LEMMA HoldersMember ==
    ASSUME NEW f, NEW t, NEW i
    PROVE  <<t, i>> \in Holders(f) <=>
               t \in Threads /\ i \in DOMAIN stack[t] /\ stack[t][i] = f
BY DEF Holders

\* Holders(f) consists of such positions and nothing else.
LEMMA HoldersPairs ==
    ASSUME NEW f, NEW p \in Holders(f)
    PROVE  \E t \in Threads : \E i \in DOMAIN stack[t] : p = <<t, i>> /\ stack[t][i] = f
BY DEF Holders

\* There are finitely many threads with finite stacks, so the frames that
\* wait can be counted.
LEMMA HoldersFinite ==
    ASSUME stack \in [Threads -> Seq(Frames)], NEW f
    PROVE  IsFiniteSet(Holders(f)) /\ Cardinality(Holders(f)) \in Nat
<1> DEFINE At1(t) == {t} \X {i \in DOMAIN stack[t] : stack[t][i] = f}
<1>1. ASSUME NEW t \in Threads PROVE IsFiniteSet(At1(t))
  <2>1. IsFiniteSet(1..Len(stack[t]))
    BY <1>1, FS_Interval
  <2>2. IsFiniteSet({i \in DOMAIN stack[t] : stack[t][i] = f})
    BY <1>1, <2>1, FS_Subset
  <2>. QED  BY <2>2, FS_Singleton, FS_Product
<1>2. IsFiniteSet({At1(t) : t \in Threads})
  <2> DEFINE at == [t \in Threads |-> At1(t)]
             all == {At1(t) : t \in Threads}
  <2>1. at \in Surjection(Threads, all)
    BY DEF Surjection
  <2>. HIDE DEF at, all
  <2>2. IsFiniteSet(all)
    BY <2>1, FS_Surjection, SessionAssumption
  <2>. QED  BY <2>2 DEF all
<1>3. IsFiniteSet(Holders(f))
  BY <1>1, <1>2, FS_UNION DEF Holders
<1>. QED  BY <1>3, FS_CardinalityType

\* The stack of thread t above position n - 1 is replaced by k.
Replaced(t, n, k) ==
    /\ \A u \in Threads \ {t} : stack'[u] = stack[u]
    /\ n \in Nat /\ n > 0
    /\ Len(stack[t]) = n - 1 \/ Len(stack[t]) = n
    /\ Len(stack'[t]) = n - 1 + Len(k)
    /\ \A i \in 1..(n - 1) : stack'[t][i] = stack[t][i]
    /\ \A i \in 1..Len(k) : stack'[t][n - 1 + i] = k[i]

\* A thread that goes on with k replaces the top of its stack by k.
LEMMA ContinueReplaces ==
    ASSUME stack \in [Threads -> Seq(Frames)],
           NEW t \in Threads, NEW k \in Seq(Frames), stack[t] # <<>>, Continue(t, k)
    PROVE  /\ stack' \in [Threads -> Seq(Frames)]
           /\ Replaced(t, Len(stack[t]), k)
<1> DEFINE st == stack[t]
           n == Len(st)
           front == SubSeq(st, 1, n - 1)
           r == front \o k
<1>1. /\ st \in Seq(Frames) /\ n \in Nat /\ n > 0 /\ Len(st) = n
      /\ \A i \in 1..(n - 1) : st[i] \in Frames
  BY EmptySeq
<1>. HIDE DEF st, n
<1>2. /\ front \in Seq(Frames)
      /\ Len(front) = n - 1
      /\ \A i \in 1..(n - 1) : front[i] = st[i]
  <2>1. 1 \in Int /\ n - 1 \in Int
    BY <1>1
  <2>2. /\ front \in Seq(Frames)
        /\ Len(front) = IF 1 <= n - 1 THEN (n - 1) - 1 + 1 ELSE 0
        /\ \A i \in 1..((n - 1) - 1 + 1) : front[i] = st[1 + i - 1]
    BY <1>1, <2>1, SubSeqProperties
  <2>. QED  BY <1>1, <2>2
<1>. HIDE DEF front
<1>3. /\ r \in Seq(Frames)
      /\ Len(r) = n - 1 + Len(k)
      /\ \A i \in 1..(n - 1) : r[i] = st[i]
      /\ \A i \in 1..Len(k) : r[n - 1 + i] = k[i]
  <2>1. /\ r \in Seq(Frames)
        /\ Len(r) = Len(front) + Len(k)
        /\ \A i \in 1..(Len(front) + Len(k)) :
              r[i] = IF i <= Len(front) THEN front[i] ELSE k[i - Len(front)]
    BY <1>2, ConcatProperties
  <2>2. Len(k) \in Nat
    BY LenProperties
  <2>. HIDE DEF r
  <2>3. ASSUME NEW i \in 1..(n - 1) PROVE r[i] = st[i]
    BY <2>3, <1>1, <1>2, <2>1, <2>2
  <2>4. ASSUME NEW i \in 1..Len(k) PROVE r[n - 1 + i] = k[i]
    <3> DEFINE q == n - 1 + i
    <3>1. q \in 1..(Len(front) + Len(k)) /\ ~(q <= Len(front)) /\ q - Len(front) = i
      BY <1>1, <1>2, <2>2, <2>4
    <3>. HIDE DEF q
    <3>2. r[q] = k[q - Len(front)]
      BY <2>1, <3>1
    <3>. QED  BY <3>1, <3>2 DEF q
  <2>. QED  BY <1>2, <2>1, <2>3, <2>4
<1>4. stack' = [stack EXCEPT ![t] = r]
  BY DEF Continue, front, st, n
<1>. HIDE DEF r
<1>. QED  BY <1>1, <1>3, <1>4 DEF Replaced, st, n

\* An idle thread that begins k replaces its empty stack by k.
LEMMA BeginReplaces ==
    ASSUME stack \in [Threads -> Seq(Frames)],
           NEW t \in Threads, NEW k \in Seq(Frames), Begin(t, k)
    PROVE  /\ stack' \in [Threads -> Seq(Frames)]
           /\ Replaced(t, 1, k)
BY DEF Begin, Idle, Replaced

\* What a replacement does to the positions that hold f, when k has f at most
\* at its first position.
LEMMA ReplacedHolders ==
    ASSUME stack \in [Threads -> Seq(Frames)], stack' \in [Threads -> Seq(Frames)],
           NEW t \in Threads, NEW n, NEW k \in Seq(Frames), Replaced(t, n, k),
           NEW f, \A i \in 2..Len(k) : k[i] # f
    PROVE  Holders(f)' = (Holders(f) \ {<<t, n>>})
                             \cup (IF Len(k) > 0 /\ k[1] = f THEN {<<t, n>>} ELSE {})
<1> DEFINE new == (Holders(f) \ {<<t, n>>})
                      \cup (IF Len(k) > 0 /\ k[1] = f THEN {<<t, n>>} ELSE {})
<1>0. n \in Nat /\ n > 0 /\ Len(k) \in Nat /\ Len(stack[t]) \in Nat
  BY LenProperties DEF Replaced
<1>a. Len(stack[t]) = n - 1 \/ Len(stack[t]) = n
  BY DEF Replaced
<1>b. DOMAIN stack[t] = 1..Len(stack[t]) /\ DOMAIN stack'[t] = 1..(n - 1 + Len(k))
  BY LenProperties DEF Replaced
<1>1. ASSUME NEW u \in Threads, NEW i \in Nat
      PROVE  i \in DOMAIN stack'[u] /\ stack'[u][i] = f <=> <<u, i>> \in new
  <2>1. CASE u # t
    BY <1>1, <2>1, HoldersMember DEF Replaced
  <2>2. CASE u = t
    <3>1. <<t, i>> \in Holders(f) <=> i \in 1..Len(stack[t]) /\ stack[t][i] = f
      BY <1>b, HoldersMember
    <3>2. CASE i \in 1..(n - 1)
      <4>1. i # n /\ i \in 1..Len(stack[t]) /\ i \in 1..(n - 1 + Len(k))
        BY <1>0, <1>a, <1>1, <3>2
      <4>2. stack'[t][i] = stack[t][i]
        BY <3>2 DEF Replaced
      <4>. QED  BY <1>b, <2>2, <3>1, <4>1, <4>2
    <3>3. CASE i = n
      <4>1. i \in 1..(n - 1 + Len(k)) <=> Len(k) > 0
        BY <1>0, <1>1, <3>3
      <4>2. Len(k) > 0 => stack'[t][i] = k[1]
        <5>1. Len(k) > 0 => 1 \in 1..Len(k) /\ n - 1 + 1 = n
          BY <1>0
        <5>. QED  BY <3>3, <5>1 DEF Replaced
      <4>. QED  BY <1>b, <2>2, <3>3, <4>1, <4>2
    <3>4. CASE i \notin 1..n
      <4>1. <<t, i>> \notin new
        <5>1. i # n /\ i \notin 1..Len(stack[t])
          BY <1>0, <1>a, <1>1, <3>4
        <5>. QED  BY <3>1, <5>1
      <4>2. ASSUME i \in 1..(n - 1 + Len(k)), stack'[t][i] = f PROVE FALSE
        <5>1. i - n + 1 \in 2..Len(k) /\ i - n + 1 \in 1..Len(k) /\ i = n - 1 + (i - n + 1)
          BY <1>0, <1>1, <3>4, <4>2
        <5>2. stack'[t][i] = k[i - n + 1]
          BY <5>1 DEF Replaced
        <5>. QED  BY <4>2, <5>1, <5>2
      <4>. QED  BY <1>b, <2>2, <4>1, <4>2
    <3>5. i \in 1..(n - 1) \/ i = n \/ i \notin 1..n
      BY <1>0, <1>1
    <3>. QED  BY <3>2, <3>3, <3>4, <3>5
  <2>. QED  BY <2>1, <2>2
<1>2. Holders(f)' = {p \in Threads \X Nat : p[2] \in DOMAIN stack'[p[1]] /\ stack'[p[1]][p[2]] = f}
  BY DEF Holders
<1>3. new \subseteq Threads \X Nat
  BY HoldersPairs DEF Replaced
<1>. QED  BY <1>1, <1>2, <1>3

\* The count of f loses the replaced frame and gains the first frame of k.
LEMMA ReplacedCount ==
    ASSUME stack \in [Threads -> Seq(Frames)], stack' \in [Threads -> Seq(Frames)],
           NEW t \in Threads, NEW n, NEW k \in Seq(Frames), Replaced(t, n, k),
           NEW f, \A i \in 2..Len(k) : k[i] # f
    PROVE  Cardinality(Holders(f))' =
               Cardinality(Holders(f)) - (IF <<t, n>> \in Holders(f) THEN 1 ELSE 0)
                   + (IF Len(k) > 0 /\ k[1] = f THEN 1 ELSE 0)
<1> DEFINE rest == Holders(f) \ {<<t, n>>}
<1>1. IsFiniteSet(Holders(f)) /\ Cardinality(Holders(f)) \in Nat
  BY HoldersFinite
<1>2. /\ IsFiniteSet(rest) /\ <<t, n>> \notin rest
      /\ Cardinality(rest) = IF <<t, n>> \in Holders(f) THEN Cardinality(Holders(f)) - 1
                                                        ELSE Cardinality(Holders(f))
  BY <1>1, FS_RemoveElement
<1>3. Holders(f)' = rest \cup (IF Len(k) > 0 /\ k[1] = f THEN {<<t, n>>} ELSE {})
  BY ReplacedHolders
<1>. HIDE DEF rest
<1>4. CASE Len(k) > 0 /\ k[1] = f
  <2>1. Holders(f)' = rest \cup {<<t, n>>}
    BY <1>3, <1>4
  <2>2. Cardinality(rest \cup {<<t, n>>}) = Cardinality(rest) + 1
    BY <1>2, FS_AddElement
  <2>3. Cardinality(Holders(f))' = Cardinality(rest) + 1
    BY <2>1, <2>2
  <2>. QED  BY <1>1, <1>2, <1>4, <2>3
<1>5. CASE ~(Len(k) > 0 /\ k[1] = f)
  <2>1. Holders(f)' = rest
    BY <1>3, <1>5
  <2>2. Cardinality(Holders(f))' = Cardinality(rest)
    BY <2>1
  <2>. QED  BY <1>1, <1>2, <1>5, <2>2
<1>. QED  BY <1>4, <1>5

\* The number of frames that wait is a natural number.
LEMMA WaitingType ==
    ASSUME stack \in [Threads -> Seq(Frames)], NEW f
    PROVE  Waiting(f) \in Nat
BY HoldersFinite DEF Waiting

\* A thread that goes on with k: f is counted once less when it was the top,
\* once more when it is the first frame of k.
LEMMA ContinueWaiting ==
    ASSUME stack \in [Threads -> Seq(Frames)], NEW t \in Threads, NEW k \in Seq(Frames), stack[t] # <<>>, Continue(t, k),
           NEW f, \A i \in 2..Len(k) : k[i] # f
    PROVE  /\ stack' \in [Threads -> Seq(Frames)]
           /\ Waiting(f)' = Waiting(f) - (IF Top(t) = f THEN 1 ELSE 0)
                                + (IF Len(k) > 0 /\ k[1] = f THEN 1 ELSE 0)
<1>1. /\ stack \in [Threads -> Seq(Frames)]
      /\ stack' \in [Threads -> Seq(Frames)]
      /\ Replaced(t, Len(stack[t]), k)
  BY ContinueReplaces
<1>2. Len(stack[t]) \in DOMAIN stack[t]
  BY <1>1, EmptySeq
<1>3. <<t, Len(stack[t])>> \in Holders(f) <=> Top(t) = f
  BY <1>2, HoldersMember DEF Top
<1>. QED  BY <1>1, <1>3, ReplacedCount DEF Waiting

\* A thread that returns: f is counted once less when it was the top.
LEMMA ReturnWaiting ==
    ASSUME stack \in [Threads -> Seq(Frames)], NEW t \in Threads, stack[t] # <<>>, Return(t),
           NEW f
    PROVE  /\ stack' \in [Threads -> Seq(Frames)]
           /\ Waiting(f)' = Waiting(f) - (IF Top(t) = f THEN 1 ELSE 0)
<1>1. PICK k \in Seq(Frames) : k = <<>>
  BY EmptySeq
<1>2. Len(k) = 0 /\ \A i \in 2..Len(k) : k[i] # f
  BY <1>1
<1>3. Continue(t, k)
  BY <1>1 DEF Return
<1>4. Waiting(f) \in Nat
  BY WaitingType
<1>5. /\ stack' \in [Threads -> Seq(Frames)]
      /\ Waiting(f)' = Waiting(f) - (IF Top(t) = f THEN 1 ELSE 0)
                           + (IF Len(k) > 0 /\ k[1] = f THEN 1 ELSE 0)
  BY <1>2, <1>3, ContinueWaiting
<1>. QED  BY <1>2, <1>4, <1>5

\* A thread that begins k: f is counted once more when it is the first frame of k.
LEMMA BeginWaiting ==
    ASSUME stack \in [Threads -> Seq(Frames)], NEW t \in Threads, NEW k \in Seq(Frames), Begin(t, k),
           NEW f, \A i \in 2..Len(k) : k[i] # f
    PROVE  /\ stack' \in [Threads -> Seq(Frames)]
           /\ Waiting(f)' = Waiting(f) + (IF Len(k) > 0 /\ k[1] = f THEN 1 ELSE 0)
<1>1. /\ stack \in [Threads -> Seq(Frames)]
      /\ stack' \in [Threads -> Seq(Frames)]
      /\ Replaced(t, 1, k)
  BY BeginReplaces
<1>2. <<t, 1>> \notin Holders(f)
  BY HoldersMember DEF Begin, Idle
<1>3. Waiting(f) \in Nat
  BY WaitingType
<1>. QED  BY <1>1, <1>2, <1>3, ReplacedCount DEF Waiting
------------------------------------------------------------------------------
\* The frames whose number the invariant speaks of.
RefFrame(s) == Frame("ReleaseRef", s)
AddFrame(s) == Frame("AddClosing", s)
EndFrame(s) == Frame("ReleaseSession", s)
Counted == {"ReleaseRef", "AddClosing", "ReleaseSession"}

\* Continuations without such a frame, and with a ReleaseRef as the last thing to do.
Plain == {k \in Seq(Frames) : \A i \in 1..Len(k) : k[i].op \notin Counted}
Giving(s) == {k \in Seq(Frames) : /\ Len(k) > 0 /\ k[1] = RefFrame(s)
                                  /\ \A i \in 2..Len(k) : k[i].op \notin Counted}

\* The fields of a frame, and when it is one of Frames.
LEMMA FrameFields ==
    /\ \A op, s : Frame(op, s).op = op /\ Frame(op, s).on = s
    /\ \A op \in Ops, s \in Sessions : Frame(op, s) \in Frames
BY DEF Frame, Frames

\* Short continuations of uncounted frames are plain.
LEMMA PlainContinuations ==
    ASSUME NEW s \in Sessions
    PROVE  /\ <<>> \in Plain
           /\ \A a \in Ops \ Counted : <<Frame(a, s)>> \in Plain
           /\ \A a, b \in Ops \ Counted : <<Frame(a, s), Frame(b, s)>> \in Plain
           /\ \A a, b, c \in Ops \ Counted :
                 <<Frame(a, s), Frame(b, s), Frame(c, s)>> \in Plain
           /\ \A a, b, c, d \in Ops \ Counted :
                 <<Frame(a, s), Frame(b, s), Frame(c, s), Frame(d, s)>> \in Plain
<1>1. \A a \in Ops \ Counted : Frame(a, s) \in Frames /\ Frame(a, s).op \notin Counted
  BY FrameFields
<1>. QED  BY <1>1 DEF Plain

\* Short continuations that end in ReleaseRef give a reference back.
LEMMA GivingContinuations ==
    ASSUME NEW s \in Sessions
    PROVE  /\ <<RefFrame(s)>> \in Giving(s)
           /\ \A a \in Ops \ Counted : <<RefFrame(s), Frame(a, s)>> \in Giving(s)
           /\ \A a, b \in Ops \ Counted : <<RefFrame(s), Frame(a, s), Frame(b, s)>> \in Giving(s)
           /\ \A a, b, c \in Ops \ Counted :
                 <<RefFrame(s), Frame(a, s), Frame(b, s), Frame(c, s)>> \in Giving(s)
<1>1. \A a \in Ops \ Counted : Frame(a, s) \in Frames /\ Frame(a, s).op \notin Counted
  BY FrameFields
<1>2. RefFrame(s) \in Frames
  BY FrameFields DEF RefFrame, Ops
<1>. QED  BY <1>1, <1>2 DEF Giving

\* Uncounted frames may be put on top of either kind.
LEMMA PlainConcat ==
    ASSUME NEW s, NEW l \in Plain
    PROVE  /\ \A k \in Plain : k \o l \in Plain
           /\ \A k \in Giving(s) : k \o l \in Giving(s)
<1>1. l \in Seq(Frames) /\ Len(l) \in Nat /\ \A i \in 1..Len(l) : l[i].op \notin Counted
  BY LenProperties DEF Plain
<1>2. ASSUME NEW k \in Seq(Frames), NEW n \in Nat, \A i \in n..Len(k) : k[i].op \notin Counted
      PROVE  /\ k \o l \in Seq(Frames)
             /\ Len(k) \in Nat /\ Len(k \o l) \in Nat /\ Len(k \o l) >= Len(k)
             /\ Len(k) > 0 => (k \o l)[1] = k[1]
             /\ n > 0 => \A i \in n..Len(k \o l) : (k \o l)[i].op \notin Counted
  <2> DEFINE r == k \o l
  <2>1. /\ r \in Seq(Frames) /\ Len(r) = Len(k) + Len(l) /\ Len(k) \in Nat
        /\ \A i \in 1..(Len(k) + Len(l)) :
              r[i] = IF i <= Len(k) THEN k[i] ELSE l[i - Len(k)]
    BY <1>1, <1>2, ConcatProperties, LenProperties
  <2>. HIDE DEF r
  <2>2. Len(k) > 0 => r[1] = k[1]
    BY <1>1, <2>1
  <2>3. ASSUME n > 0, NEW i \in n..Len(r) PROVE r[i].op \notin Counted
    <3>1. CASE i <= Len(k)
      <4>1. i \in n..Len(k) /\ r[i] = k[i]
        BY <1>1, <1>2, <2>1, <2>3, <3>1
      <4>. QED  BY <1>2, <4>1
    <3>2. CASE ~(i <= Len(k))
      <4>1. i - Len(k) \in 1..Len(l) /\ r[i] = l[i - Len(k)]
        BY <1>1, <1>2, <2>1, <2>3, <3>2
      <4>. QED  BY <1>1, <4>1
    <3>. QED  BY <3>1, <3>2
  <2>4. Len(r) \in Nat /\ Len(r) >= Len(k)
    BY <1>1, <2>1
  <2>. QED  BY <2>1, <2>2, <2>3, <2>4 DEF r
<1>3. ASSUME NEW k \in Plain PROVE k \o l \in Plain
  <2>1. k \in Seq(Frames) /\ \A i \in 1..Len(k) : k[i].op \notin Counted
    BY DEF Plain
  <2>2. k \o l \in Seq(Frames) /\ \A i \in 1..Len(k \o l) : (k \o l)[i].op \notin Counted
    <3>1. 1 \in Nat /\ 1 > 0
      OBVIOUS
    <3>. QED  BY <1>2, <2>1, <3>1
  <2>. QED  BY <2>2 DEF Plain
<1>4. ASSUME NEW k \in Giving(s) PROVE k \o l \in Giving(s)
  <2>1. /\ k \in Seq(Frames) /\ Len(k) > 0 /\ k[1] = RefFrame(s)
        /\ \A i \in 2..Len(k) : k[i].op \notin Counted
    BY DEF Giving
  <2>2. /\ k \o l \in Seq(Frames) /\ Len(k \o l) > 0 /\ (k \o l)[1] = RefFrame(s)
        /\ \A i \in 2..Len(k \o l) : (k \o l)[i].op \notin Counted
    <3>1. 2 \in Nat /\ 2 > 0
      OBVIOUS
    <3>2. /\ k \o l \in Seq(Frames)
          /\ Len(k) \in Nat /\ Len(k \o l) \in Nat /\ Len(k \o l) >= Len(k)
          /\ (k \o l)[1] = k[1]
          /\ \A i \in 2..Len(k \o l) : (k \o l)[i].op \notin Counted
      BY <1>2, <2>1, <3>1
    <3>. QED  BY <2>1, <3>2
  <2>. QED  BY <2>2 DEF Giving
<1>. QED  BY <1>3, <1>4

\* The three counts are the same before and after.
CountsKept(s) ==
    /\ Waiting(RefFrame(s))' = Waiting(RefFrame(s))
    /\ Waiting(AddFrame(s))' = Waiting(AddFrame(s))
    /\ Waiting(EndFrame(s))' = Waiting(EndFrame(s))

\* A step from an uncounted frame to a plain continuation keeps the counts.
LEMMA PlainCounts ==
    ASSUME stack \in [Threads -> Seq(Frames)], NEW t \in Threads, NEW k \in Plain,
           \/ stack[t] # <<>> /\ Top(t).op \notin Counted /\ Continue(t, k)
           \/ Begin(t, k)
    PROVE  /\ stack' \in [Threads -> Seq(Frames)]
           /\ \A s \in Sessions : CountsKept(s)
<1>1. k \in Seq(Frames) /\ \A i \in 1..Len(k) : k[i].op \notin Counted
  BY DEF Plain
<1>2. ASSUME NEW f, f.op \in Counted
      PROVE  stack' \in [Threads -> Seq(Frames)] /\ Waiting(f)' = Waiting(f)
  <2>1. Len(k) \in Nat /\ (\A i \in 1..Len(k) : k[i] # f)
    BY <1>1, <1>2, LenProperties
  <2>2. (\A i \in 2..Len(k) : k[i] # f) /\ ~(Len(k) > 0 /\ k[1] = f)
    BY <2>1
  <2>3. Waiting(f) \in Nat
    BY WaitingType
  <2>4. CASE stack[t] # <<>> /\ Top(t).op \notin Counted /\ Continue(t, k)
    <3>1. Top(t) # f
      BY <1>2, <2>4
    <3>2. /\ stack' \in [Threads -> Seq(Frames)]
          /\ Waiting(f)' = Waiting(f) - (IF Top(t) = f THEN 1 ELSE 0)
                               + (IF Len(k) > 0 /\ k[1] = f THEN 1 ELSE 0)
      BY <1>1, <2>2, <2>4, ContinueWaiting
    <3>. QED  BY <2>2, <2>3, <3>1, <3>2
  <2>5. CASE Begin(t, k)
    <3>1. /\ stack' \in [Threads -> Seq(Frames)]
          /\ Waiting(f)' = Waiting(f) + (IF Len(k) > 0 /\ k[1] = f THEN 1 ELSE 0)
      BY <1>1, <2>2, <2>5, BeginWaiting
    <3>. QED  BY <2>2, <2>3, <3>1
  <2>. QED  BY <2>4, <2>5
<1>3. ASSUME NEW s \in Sessions
      PROVE  /\ RefFrame(s).op \in Counted
             /\ AddFrame(s).op \in Counted
             /\ EndFrame(s).op \in Counted
  BY FrameFields DEF RefFrame, AddFrame, EndFrame, Counted
<1>4. stack' \in [Threads -> Seq(Frames)]
  <2>1. Frame("ReleaseRef", 0).op \in Counted
    BY FrameFields DEF Counted
  <2>. QED  BY <1>2, <2>1
<1>. QED  BY <1>2, <1>3, <1>4 DEF CountsKept

\* A step to a continuation that ends in ReleaseRef counts one more ReleaseRef
\* on that session and changes no other count.
LEMMA GivingCounts ==
    ASSUME stack \in [Threads -> Seq(Frames)], NEW t \in Threads, NEW s \in Sessions, NEW k \in Giving(s),
           \/ stack[t] # <<>> /\ Top(t).op \notin Counted /\ Continue(t, k)
           \/ Begin(t, k)
    PROVE  /\ stack' \in [Threads -> Seq(Frames)]
           /\ Waiting(RefFrame(s))' = Waiting(RefFrame(s)) + 1
           /\ \A r \in Sessions : /\ r # s => Waiting(RefFrame(r))' = Waiting(RefFrame(r))
                                  /\ Waiting(AddFrame(r))' = Waiting(AddFrame(r))
                                  /\ Waiting(EndFrame(r))' = Waiting(EndFrame(r))
<1>1. /\ k \in Seq(Frames) /\ Len(k) > 0 /\ k[1] = RefFrame(s)
      /\ \A i \in 2..Len(k) : k[i].op \notin Counted
  BY DEF Giving
<1>2. ASSUME NEW f, f.op \in Counted
      PROVE  /\ stack' \in [Threads -> Seq(Frames)]
             /\ Waiting(f)' = Waiting(f) + (IF f = RefFrame(s) THEN 1 ELSE 0)
  <2>1. \A i \in 2..Len(k) : k[i] # f
    BY <1>1, <1>2
  <2>2. Waiting(f) \in Nat
    BY WaitingType
  <2>3. CASE stack[t] # <<>> /\ Top(t).op \notin Counted /\ Continue(t, k)
    <3>1. Top(t) # f
      BY <1>2, <2>3
    <3>2. /\ stack' \in [Threads -> Seq(Frames)]
          /\ Waiting(f)' = Waiting(f) - (IF Top(t) = f THEN 1 ELSE 0)
                               + (IF Len(k) > 0 /\ k[1] = f THEN 1 ELSE 0)
      BY <1>1, <2>1, <2>3, ContinueWaiting
    <3>. QED  BY <1>1, <2>2, <3>1, <3>2
  <2>4. CASE Begin(t, k)
    <3>1. /\ stack' \in [Threads -> Seq(Frames)]
          /\ Waiting(f)' = Waiting(f) + (IF Len(k) > 0 /\ k[1] = f THEN 1 ELSE 0)
      BY <1>1, <2>1, <2>4, BeginWaiting
    <3>. QED  BY <1>1, <2>2, <3>1
  <2>. QED  BY <2>3, <2>4
<1>3. ASSUME NEW r \in Sessions
      PROVE  /\ RefFrame(r).op \in Counted /\ AddFrame(r).op \in Counted
             /\ EndFrame(r).op \in Counted
             /\ AddFrame(r) # RefFrame(s) /\ EndFrame(r) # RefFrame(s)
             /\ r # s => RefFrame(r) # RefFrame(s)
  BY FrameFields DEF RefFrame, AddFrame, EndFrame, Counted
<1>4. \A r \in Sessions : /\ Waiting(RefFrame(r)) \in Nat /\ Waiting(AddFrame(r)) \in Nat
                          /\ Waiting(EndFrame(r)) \in Nat
  BY WaitingType
<1>. QED  BY <1>2, <1>3, <1>4

------------------------------------------------------------------------------
(***************************************************************************)
(* The reference count of a session is exact and a session is closed once, *)
(* for any number of sessions, threads and packets.                        *)
(***************************************************************************)

(* The inductive invariant                                                 *)

\* Outside the pool's active sessions nothing is connected or referenced.
FreeIsQuiet == \A s \in Sessions \ active : ~connected[s] /\ refCount[s] = 0

\* The free list holds exactly the sessions that are not active, once each.
FreeListed ==
    /\ \A i, j \in DOMAIN freeList : freeList[i] = freeList[j] => i = j
    /\ {freeList[i] : i \in DOMAIN freeList} = Sessions \ active

IInv == TypeOK /\ RefCountExact /\ ClosingOnce /\ FreeIsQuiet /\ FreeListed

\* TypeOK without the stacks and the network's variables.
SlotTypes ==
    /\ connected \in [Sessions -> BOOLEAN]
    /\ socketOpen \in [Sessions -> BOOLEAN]
    /\ refCount \in [Sessions -> Nat]
    /\ recvPending \in [Sessions -> BOOLEAN]
    /\ sendPending \in [Sessions -> BOOLEAN]
    /\ procPending \in [Sessions -> BOOLEAN]
    /\ recvIO \in [Sessions -> Nat]
    /\ sendIO \in [Sessions -> Nat]
    /\ procQ \in [Sessions -> Nat]
    /\ packets \in [Sessions -> 0..MaxPackets]
    /\ sendData \in [Sessions -> BOOLEAN]

StackType == stack \in [Threads -> Seq(Frames)]

\* The references that are not those of a waiting ReleaseRef.
Held(s) == (IF connected[s] THEN 1 ELSE 0) + recvIO[s] + sendIO[s] + procQ[s]

\* What the reference count must agree with, in two parts.
LEMMA RefsOutParts ==
    ASSUME NEW s
    PROVE  /\ RefsOut(s) = Held(s) + Waiting(RefFrame(s))
           /\ RefsOut(s)' = Held(s)' + Waiting(RefFrame(s))'
BY DEF RefsOut, Held, RefFrame

\* A step of a handler that moves references about, without touching the pool
\* or the closing list, keeps the invariant.
LEMMA StepKeeps ==
    ASSUME IInv, SlotTypes', StackType', UNCHANGED networkVars,
           \A r \in Sessions :
              /\ Waiting(AddFrame(r))' = Waiting(AddFrame(r))
              /\ Waiting(EndFrame(r))' = Waiting(EndFrame(r))
              /\ refCount'[r] = Held(r)' + Waiting(RefFrame(r))'
              /\ connected'[r] => connected[r]
              /\ ~connected[r] /\ refCount[r] = 0 => refCount'[r] = 0
    PROVE  IInv'
<1>1. TypeOK'
  <2>1. PortTypeOK'
    BY DEF IInv, TypeOK, PortTypeOK, networkVars, portVars
  <2>. QED  BY <2>1 DEF IInv, TypeOK, SlotTypes, StackType, networkVars, poolVars
<1>2. \A r \in Sessions : Listed(r)' = Listed(r)
  BY DEF Listed, networkVars
<1>3. RefCountExact'
  BY RefsOutParts DEF RefCountExact
<1>4. ClosingOnce'
  <2>1. ASSUME NEW r \in Sessions
        PROVE  /\ ClosingSteps(r)' <= 1
               /\ ClosingSteps(r)' = 1 => r \in active' /\ ~connected'[r] /\ refCount'[r] = 0
    <3>1. ClosingSteps(r)' = ClosingSteps(r)
      BY <1>2 DEF ClosingSteps, AddFrame, EndFrame
    <3>2. active' = active
      BY DEF networkVars, poolVars
    <3>. QED  BY <3>1, <3>2 DEF IInv, ClosingOnce
  <2>. QED  BY <2>1 DEF ClosingOnce
<1>5. FreeIsQuiet'
  BY DEF IInv, FreeIsQuiet, networkVars, poolVars
<1>6. FreeListed'
  BY DEF IInv, FreeListed, networkVars, poolVars
<1>. QED  BY <1>1, <1>3, <1>4, <1>5, <1>6 DEF IInv

\* Thread t takes a step from an uncounted frame, or begins k when it is idle.
Goes(t, k) ==
    \/ stack[t] # <<>> /\ Top(t).op \notin Counted /\ Continue(t, k)
    \/ Begin(t, k)

\* Every part of the count is a natural number.
LEMMA CountTypes ==
    ASSUME TypeOK, NEW s \in Sessions
    PROVE  /\ refCount[s] \in Nat /\ recvIO[s] \in Nat /\ sendIO[s] \in Nat
           /\ procQ[s] \in Nat /\ connected[s] \in BOOLEAN
           /\ Waiting(RefFrame(s)) \in Nat
           /\ Waiting(AddFrame(s)) \in Nat
           /\ Waiting(EndFrame(s)) \in Nat
BY WaitingType DEF TypeOK

\* A step that goes on with uncounted frames and takes as many references as
\* it starts operations keeps the invariant.
LEMMA PlainStep ==
    ASSUME IInv, SlotTypes', UNCHANGED networkVars,
           NEW t \in Threads, NEW k \in Plain, Goes(t, k),
           \A r \in Sessions : \/ refCount'[r] = refCount[r] /\ Held(r)' = Held(r)
                               \/ /\ connected[r]
                                  /\ refCount'[r] = refCount[r] + 1
                                  /\ Held(r)' = Held(r) + 1,
           \A r \in Sessions : connected'[r] => connected[r]
    PROVE  IInv'
<1>1. StackType' /\ \A r \in Sessions : CountsKept(r)
  BY PlainCounts DEF IInv, TypeOK, Goes, StackType
<1>2. ASSUME NEW r \in Sessions
      PROVE  refCount'[r] = Held(r)' + Waiting(RefFrame(r))'
  <2>1. refCount[r] = Held(r) + Waiting(RefFrame(r))
    BY RefsOutParts DEF IInv, RefCountExact
  <2>2. /\ refCount[r] \in Nat /\ recvIO[r] \in Nat /\ sendIO[r] \in Nat
        /\ procQ[r] \in Nat /\ Waiting(RefFrame(r)) \in Nat
    BY CountTypes DEF IInv
  <2>3. Held(r) \in Nat
    BY <2>2 DEF Held
  <2>4. Waiting(RefFrame(r))' = Waiting(RefFrame(r))
    BY <1>1 DEF CountsKept
  <2>. QED  BY <2>1, <2>2, <2>3, <2>4
<1>. QED  BY <1>1, <1>2, StepKeeps DEF CountsKept

\* A step that leaves a ReleaseRef behind, for a reference that it takes or
\* that it has found held for s, keeps the invariant.
LEMMA GivingStep ==
    ASSUME IInv, SlotTypes', UNCHANGED networkVars,
           NEW t \in Threads, NEW s \in Sessions, NEW k \in Giving(s), Goes(t, k),
           \A r \in Sessions \ {s} : refCount'[r] = refCount[r] /\ Held(r)' = Held(r),
           \/ connected[s] /\ refCount'[s] = refCount[s] + 1 /\ Held(s)' = Held(s)
           \/ refCount'[s] = refCount[s] /\ Held(s)' = Held(s) - 1,
           \A r \in Sessions : connected'[r] => connected[r]
    PROVE  IInv'
<1>1. /\ StackType'
      /\ Waiting(RefFrame(s))' = Waiting(RefFrame(s)) + 1
      /\ \A r \in Sessions : /\ r # s => Waiting(RefFrame(r))' = Waiting(RefFrame(r))
                             /\ Waiting(AddFrame(r))' = Waiting(AddFrame(r))
                             /\ Waiting(EndFrame(r))' = Waiting(EndFrame(r))
  BY GivingCounts DEF IInv, TypeOK, Goes, StackType
<1>2. ASSUME NEW r \in Sessions
      PROVE  refCount'[r] = Held(r)' + Waiting(RefFrame(r))'
  <2>1. refCount[r] = Held(r) + Waiting(RefFrame(r))
    BY RefsOutParts DEF IInv, RefCountExact
  <2>2. /\ refCount[r] \in Nat /\ recvIO[r] \in Nat /\ sendIO[r] \in Nat
        /\ procQ[r] \in Nat /\ Waiting(RefFrame(r)) \in Nat
    BY CountTypes DEF IInv
  <2>3. Held(r) \in Nat
    BY <2>2 DEF Held
  <2>. QED  BY <1>1, <2>1, <2>2, <2>3
<1>. QED  BY <1>1, <1>2, StepKeeps

------------------------------------------------------------------------------
(* One lemma per handler                                                   *)

\* The handlers and the continuations of Session.cpp are made of these.
LEMMA UncountedOps ==
    /\ ApiCalls \subseteq Ops \ Counted
    /\ {"OnAccept", "OnDispatch", "OnClose", "Close",
        "PostRecv", "PostRecvLocked", "UnlockRecv", "CompletedRecv",
        "PostProcess", "TryProc", "PostProcessLocked", "ProcessCompletion", "UnlockProc",
        "TrySend", "SendLocked", "UnlockSend", "CompletedSend",
        "Send", "SendBuffered", "Flush", "Disconnect", "ProcessPacket"} \subseteq Ops \ Counted
BY DEF Ops, ApiCalls, Counted

\* A thread at an uncounted frame goes on with k.
LEMMA AtGoes ==
    ASSUME NEW t, NEW s, NEW op \in Ops \ Counted, At(t, op, s), NEW k, Continue(t, k)
    PROVE  Goes(t, k)
BY FrameFields DEF At, Goes

\* A handler that changes flags and buffers only keeps the invariant.
LEMMA QuietStep ==
    ASSUME IInv, SlotTypes', NEW t \in Threads, NEW k \in Plain, Goes(t, k),
           UNCHANGED <<connected, refCount, ioVars, networkVars>>
    PROVE  IInv'
<1>1. \A r \in Sessions : refCount'[r] = refCount[r] /\ Held(r)' = Held(r)
  BY DEF Held, ioVars
<1>. QED  BY <1>1, PlainStep

\* Close clears the buffers.
LEMMA CloseKeeps ==
    ASSUME IInv, NEW t \in Threads, NEW s \in Sessions, Close(t, s), UNCHANGED networkVars
    PROVE  IInv'
<1>1. SlotTypes' /\ UNCHANGED <<connected, refCount, ioVars>>
  BY SessionAssumption DEF IInv, TypeOK, SlotTypes, Close, connVars, flagVars, ioVars, bufVars
<1>2. PICK k \in Plain : Continue(t, k)
  BY PlainContinuations, UncountedOps DEF Close, Return
<1>3. Goes(t, k)
  BY <1>2, AtGoes, UncountedOps DEF Close
<1>. QED  BY <1>1, <1>3, QuietStep

\* PostRecv tries m_RecvPending.
LEMMA PostRecvKeeps ==
    ASSUME IInv, NEW t \in Threads, NEW s \in Sessions, PostRecv(t, s), UNCHANGED networkVars
    PROVE  IInv'
<1>1. SlotTypes' /\ UNCHANGED <<connected, refCount, ioVars>>
  BY DEF IInv, TypeOK, SlotTypes, PostRecv, connVars, flagVars, ioVars, bufVars
<1>2. PICK k \in Plain : Continue(t, k)
  BY PlainContinuations, UncountedOps DEF PostRecv, Return
<1>3. Goes(t, k)
  BY <1>2, AtGoes, UncountedOps DEF PostRecv
<1>. QED  BY <1>1, <1>3, QuietStep

\* m_RecvPending is unlocked.
LEMMA UnlockRecvKeeps ==
    ASSUME IInv, NEW t \in Threads, NEW s \in Sessions, UnlockRecv(t, s), UNCHANGED networkVars
    PROVE  IInv'
<1>1. SlotTypes' /\ UNCHANGED <<connected, refCount, ioVars>>
  BY DEF IInv, TypeOK, SlotTypes, UnlockRecv, connVars, flagVars, ioVars, bufVars
<1>2. PICK k \in Plain : Continue(t, k)
  BY PlainContinuations, UncountedOps DEF UnlockRecv, Return
<1>3. Goes(t, k)
  BY <1>2, AtGoes, UncountedOps DEF UnlockRecv
<1>. QED  BY <1>1, <1>3, QuietStep

\* CompletedRecv changes the receive buffer and its flag.
LEMMA CompletedRecvKeeps ==
    ASSUME IInv, NEW t \in Threads, NEW s \in Sessions, CompletedRecv(t, s), UNCHANGED networkVars
    PROVE  IInv'
<1>0. packets' \in [Sessions -> 0..MaxPackets]
  <2>1. packets \in [Sessions -> 0..MaxPackets] /\ MaxPackets \in Nat
    BY SessionAssumption DEF IInv, TypeOK
  <2>2. CASE \E n \in packets[s]..MaxPackets : packets' = [packets EXCEPT ![s] = n]
    BY <2>1, <2>2
  <2>3. CASE packets' = packets
    BY <2>1, <2>3
  <2>. QED  BY <2>2, <2>3 DEF CompletedRecv
<1>1. SlotTypes' /\ UNCHANGED <<connected, refCount, ioVars>>
  BY <1>0 DEF IInv, TypeOK, SlotTypes, CompletedRecv, connVars, flagVars, ioVars, bufVars
<1>2. PICK k \in Plain : Continue(t, k)
  BY PlainContinuations, UncountedOps DEF CompletedRecv, Return
<1>3. Goes(t, k)
  BY <1>2, AtGoes, UncountedOps DEF CompletedRecv
<1>. QED  BY <1>1, <1>3, QuietStep

\* PostProcess looks at the receive buffer.
LEMMA PostProcessKeeps ==
    ASSUME IInv, NEW t \in Threads, NEW s \in Sessions, PostProcess(t, s), UNCHANGED networkVars
    PROVE  IInv'
<1>1. SlotTypes' /\ UNCHANGED <<connected, refCount, ioVars>>
  BY DEF IInv, TypeOK, SlotTypes, PostProcess, connVars, flagVars, ioVars, bufVars
<1>2. PICK k \in Plain : Continue(t, k)
  BY PlainContinuations, UncountedOps DEF PostProcess, Return
<1>3. Goes(t, k)
  BY <1>2, AtGoes, UncountedOps DEF PostProcess
<1>. QED  BY <1>1, <1>3, QuietStep

\* PostProcess tries m_ProcPending.
LEMMA TryProcKeeps ==
    ASSUME IInv, NEW t \in Threads, NEW s \in Sessions, TryProc(t, s), UNCHANGED networkVars
    PROVE  IInv'
<1>1. SlotTypes' /\ UNCHANGED <<connected, refCount, ioVars>>
  BY DEF IInv, TypeOK, SlotTypes, TryProc, connVars, flagVars, ioVars, bufVars
<1>2. PICK k \in Plain : Continue(t, k)
  BY PlainContinuations, UncountedOps DEF TryProc, Return
<1>3. Goes(t, k)
  BY <1>2, AtGoes, UncountedOps DEF TryProc
<1>. QED  BY <1>1, <1>3, QuietStep

\* m_ProcPending is unlocked.
LEMMA UnlockProcKeeps ==
    ASSUME IInv, NEW t \in Threads, NEW s \in Sessions, UnlockProc(t, s), UNCHANGED networkVars
    PROVE  IInv'
<1>1. SlotTypes' /\ UNCHANGED <<connected, refCount, ioVars>>
  BY DEF IInv, TypeOK, SlotTypes, UnlockProc, connVars, flagVars, ioVars, bufVars
<1>2. PICK k \in Plain : Continue(t, k)
  BY PlainContinuations, UncountedOps DEF UnlockProc, Return
<1>3. Goes(t, k)
  BY <1>2, AtGoes, UncountedOps DEF UnlockProc
<1>. QED  BY <1>1, <1>3, QuietStep

\* ProcessPacket takes a packet out of the buffer.
LEMMA ProcessPacketKeeps ==
    ASSUME IInv, NEW t \in Threads, NEW s \in Sessions, ProcessPacket(t, s), UNCHANGED networkVars
    PROVE  IInv'
<1>0. packets' \in [Sessions -> 0..MaxPackets]
  <2>1. packets \in [Sessions -> 0..MaxPackets] /\ MaxPackets \in Nat
    BY SessionAssumption DEF IInv, TypeOK
  <2>2. CASE packets[s] > 0 /\ packets' = [packets EXCEPT ![s] = @ - 1]
    <3>1. packets[s] - 1 \in 0..MaxPackets
      BY <2>1, <2>2
    <3>. QED  BY <2>1, <2>2, <3>1
  <2>3. CASE packets' = packets
    BY <2>1, <2>3
  <2>. QED  BY <2>2, <2>3 DEF ProcessPacket
<1>1. SlotTypes' /\ UNCHANGED <<connected, refCount, ioVars>>
  BY <1>0 DEF IInv, TypeOK, SlotTypes, ProcessPacket, connVars, flagVars, ioVars, bufVars
<1>2. PICK k \in Plain : Continue(t, k)
  BY PlainContinuations, UncountedOps DEF ProcessPacket, Return
<1>3. Goes(t, k)
  BY <1>2, AtGoes, UncountedOps DEF ProcessPacket
<1>. QED  BY <1>1, <1>3, QuietStep

\* PostSend(Data, Len) fills the send buffer.
LEMMA SendKeeps ==
    ASSUME IInv, NEW t \in Threads, NEW s \in Sessions, Send(t, s), UNCHANGED networkVars
    PROVE  IInv'
<1>1. SlotTypes' /\ UNCHANGED <<connected, refCount, ioVars>>
  BY DEF IInv, TypeOK, SlotTypes, Send, connVars, flagVars, ioVars, bufVars
<1>2. PICK k \in Plain : Continue(t, k)
  BY PlainContinuations, UncountedOps DEF Send, Return
<1>3. Goes(t, k)
  BY <1>2, AtGoes, UncountedOps DEF Send
<1>. QED  BY <1>1, <1>3, QuietStep

\* PostSendBuffered fills the send buffer.
LEMMA SendBufferedKeeps ==
    ASSUME IInv, NEW t \in Threads, NEW s \in Sessions, SendBuffered(t, s), UNCHANGED networkVars
    PROVE  IInv'
<1>1. SlotTypes' /\ UNCHANGED <<connected, refCount, ioVars>>
  BY DEF IInv, TypeOK, SlotTypes, SendBuffered, connVars, flagVars, ioVars, bufVars
<1>2. PICK k \in Plain : Continue(t, k)
  BY PlainContinuations, UncountedOps DEF SendBuffered, Return
<1>3. Goes(t, k)
  BY <1>2, AtGoes, UncountedOps DEF SendBuffered
<1>. QED  BY <1>1, <1>3, QuietStep

\* PostSend() looks at the send buffer.
LEMMA FlushKeeps ==
    ASSUME IInv, NEW t \in Threads, NEW s \in Sessions, Flush(t, s), UNCHANGED networkVars
    PROVE  IInv'
<1>1. SlotTypes' /\ UNCHANGED <<connected, refCount, ioVars>>
  BY DEF IInv, TypeOK, SlotTypes, Flush, connVars, flagVars, ioVars, bufVars
<1>2. PICK k \in Plain : Continue(t, k)
  BY PlainContinuations, UncountedOps DEF Flush, Return
<1>3. Goes(t, k)
  BY <1>2, AtGoes, UncountedOps DEF Flush
<1>. QED  BY <1>1, <1>3, QuietStep

\* PostSend() tries m_SendPending.
LEMMA TrySendKeeps ==
    ASSUME IInv, NEW t \in Threads, NEW s \in Sessions, TrySend(t, s), UNCHANGED networkVars
    PROVE  IInv'
<1>1. SlotTypes' /\ UNCHANGED <<connected, refCount, ioVars>>
  BY DEF IInv, TypeOK, SlotTypes, TrySend, connVars, flagVars, ioVars, bufVars
<1>2. PICK k \in Plain : Continue(t, k)
  BY PlainContinuations, UncountedOps DEF TrySend, Return
<1>3. Goes(t, k)
  BY <1>2, AtGoes, UncountedOps DEF TrySend
<1>. QED  BY <1>1, <1>3, QuietStep

\* m_SendPending is unlocked.
LEMMA UnlockSendKeeps ==
    ASSUME IInv, NEW t \in Threads, NEW s \in Sessions, UnlockSend(t, s), UNCHANGED networkVars
    PROVE  IInv'
<1>1. SlotTypes' /\ UNCHANGED <<connected, refCount, ioVars>>
  BY DEF IInv, TypeOK, SlotTypes, UnlockSend, connVars, flagVars, ioVars, bufVars
<1>2. PICK k \in Plain : Continue(t, k)
  BY PlainContinuations, UncountedOps DEF UnlockSend, Return
<1>3. Goes(t, k)
  BY <1>2, AtGoes, UncountedOps DEF UnlockSend
<1>. QED  BY <1>1, <1>3, QuietStep

\* A callback may call the session it was given.
LEMMA CallbackKeeps ==
    ASSUME IInv, NEW t \in Threads, NEW s \in Sessions, Callback(t, s), UNCHANGED networkVars
    PROVE  IInv'
<1>1. SlotTypes' /\ UNCHANGED <<connected, refCount, ioVars>>
  BY DEF IInv, TypeOK, SlotTypes, Callback, connVars, flagVars, ioVars, bufVars
<1>2. PICK k \in Plain : Continue(t, k)
  BY PlainContinuations, UncountedOps, SessionAssumption DEF Callback, Return
<1>3. Goes(t, k)
  BY <1>2, AtGoes, UncountedOps DEF Callback
<1>. QED  BY <1>1, <1>3, QuietStep

\* CompletedSend empties the send buffer, or some of it.
LEMMA CompletedSendKeeps ==
    ASSUME IInv, NEW t \in Threads, NEW s \in Sessions, CompletedSend(t, s),
           UNCHANGED networkVars
    PROVE  IInv'
<1>1. SlotTypes' /\ UNCHANGED <<connected, refCount, ioVars>>
  BY DEF IInv, TypeOK, SlotTypes, CompletedSend, connVars, flagVars, ioVars, bufVars
<1>2. PICK k \in Plain : Continue(t, k)
  BY PlainContinuations, UncountedOps DEF CompletedSend, AfterSend
<1>3. Goes(t, k)
  BY <1>2, AtGoes, UncountedOps DEF CompletedSend
<1>. QED  BY <1>1, <1>3, QuietStep

\* What ProcessCompletion goes on with.
LEMMA AfterDispatchPlain ==
    ASSUME NEW s \in Sessions, NEW hasError \in BOOLEAN
    PROVE  AfterDispatch(s, hasError) \in Plain
<1>1. <<Frame("PostProcess", s)>> \in Plain /\ <<Frame("Disconnect", s)>> \in Plain
      /\ <<Frame("UnlockProc", s)>> \in Plain /\ <<>> \in Plain
  BY PlainContinuations, UncountedOps
<1>2. (IF hasError THEN <<Frame("Disconnect", s)>> ELSE <<>>) \in Plain
  BY <1>1
<1>. HIDE DEF Plain
<1>. QED  BY <1>1, <1>2, PlainConcat DEF AfterDispatch

\* ProcessCompletion takes a packet or leaves its loop.
LEMMA ProcessCompletionKeeps ==
    ASSUME IInv, NEW t \in Threads, NEW s \in Sessions, ProcessCompletion(t, s),
           UNCHANGED networkVars
    PROVE  IInv'
<1>0. packets' \in [Sessions -> 0..MaxPackets]
  <2>1. packets \in [Sessions -> 0..MaxPackets] /\ MaxPackets \in Nat
    BY SessionAssumption DEF IInv, TypeOK
  <2>2. CASE packets[s] > 0 /\ packets' = [packets EXCEPT ![s] = @ - 1]
    <3>1. packets[s] - 1 \in 0..MaxPackets
      BY <2>1, <2>2
    <3>. QED  BY <2>1, <2>2, <3>1
  <2>3. CASE packets' = packets
    BY <2>1, <2>3
  <2>. QED  BY <2>2, <2>3 DEF ProcessCompletion
<1>1. SlotTypes' /\ UNCHANGED <<connected, refCount, ioVars>>
  BY <1>0 DEF IInv, TypeOK, SlotTypes, ProcessCompletion, connVars, flagVars, ioVars, bufVars
<1>2. PICK k \in Plain : Continue(t, k)
  <2>1. /\ AfterDispatch(s, FALSE) \in Plain /\ AfterDispatch(s, TRUE) \in Plain
        /\ <<Frame("ProcessCompletion", s)>> \in Plain /\ <<Frame("OnDispatch", s)>> \in Plain
    BY AfterDispatchPlain, PlainContinuations, UncountedOps
  <2>2. ASSUME NEW k \in Plain PROVE Append(k, Frame("OnDispatch", s)) \in Plain
    <3>1. k \in Seq(Frames) /\ Frame("OnDispatch", s) \in Frames
      BY FrameFields, UncountedOps DEF Plain
    <3>2. Append(k, Frame("OnDispatch", s)) = k \o <<Frame("OnDispatch", s)>>
      BY <3>1, AppendIsConcat
    <3>. QED  BY <2>1, <3>2, PlainConcat
  <2>. QED  BY <2>1, <2>2 DEF ProcessCompletion
<1>3. Goes(t, k)
  BY <1>2, AtGoes, UncountedOps DEF ProcessCompletion
<1>. QED  BY <1>1, <1>3, QuietStep

\* The first Disconnect turns the connection's reference into a ReleaseRef.
LEMMA DisconnectKeeps ==
    ASSUME IInv, NEW t \in Threads, NEW s \in Sessions, Disconnect(t, s), UNCHANGED networkVars
    PROVE  IInv'
<1>1. SlotTypes'
  BY DEF IInv, TypeOK, SlotTypes, Disconnect, connVars, flagVars, ioVars, bufVars
<1>2. CASE ~connected[s] /\ Return(t) /\ UNCHANGED connVars
  <2>1. <<>> \in Plain /\ Goes(t, <<>>)
    BY <1>2, AtGoes, PlainContinuations, UncountedOps DEF Disconnect, Return
  <2>. QED  BY <1>1, <1>2, <2>1, QuietStep DEF Disconnect, connVars, ioVars
<1>3. CASE /\ connected[s]
           /\ connected' = [connected EXCEPT ![s] = FALSE]
           /\ Continue(t, <<RefFrame(s)>>)
  <2>1. <<RefFrame(s)>> \in Giving(s) /\ Goes(t, <<RefFrame(s)>>)
    BY <1>3, AtGoes, GivingContinuations, UncountedOps DEF Disconnect
  <2>2. connected \in [Sessions -> BOOLEAN]
    BY DEF IInv, TypeOK
  <2>3. /\ \A r \in Sessions \ {s} : refCount'[r] = refCount[r] /\ Held(r)' = Held(r)
        /\ \A r \in Sessions : connected'[r] => connected[r]
    BY <1>3, <2>2 DEF Disconnect, Held, ioVars
  <2>4. refCount'[s] = refCount[s] /\ Held(s)' = Held(s) - 1
    BY <1>3, <2>2, CountTypes DEF Disconnect, Held, ioVars, IInv
  <2>. QED  BY <1>1, <2>1, <2>3, <2>4, GivingStep
<1>. QED  BY <1>2, <1>3 DEF Disconnect, RefFrame

\* Every way in which PostRecv or PostSend may find the session keeps the count.
LEMMA GiveUpGiving ==
    ASSUME NEW s \in Sessions
    PROVE  GiveUp(s, "UnlockRecv") \in Giving(s) /\ GiveUp(s, "UnlockSend") \in Giving(s)
BY GivingContinuations, UncountedOps DEF GiveUp, RefFrame

\* PostRecv under the session lock: not connected, posted, or refused.
LEMMA PostRecvLockedKeeps ==
    ASSUME IInv, NEW t \in Threads, NEW s \in Sessions, PostRecvLocked(t, s),
           UNCHANGED networkVars
    PROVE  IInv'
<1>0. /\ refCount \in [Sessions -> Nat] /\ recvIO \in [Sessions -> Nat]
      /\ \A r \in Sessions : /\ recvIO[r] \in Nat /\ sendIO[r] \in Nat /\ procQ[r] \in Nat
                             /\ refCount[r] \in Nat
  BY CountTypes DEF IInv, TypeOK
<1>1. SlotTypes'
  <2>1. refCount' \in [Sessions -> Nat] /\ recvIO' \in [Sessions -> Nat]
    <3>1. CASE UNCHANGED <<refCount, recvIO>>
      BY <1>0, <3>1
    <3>2. CASE AddRef(s) /\ (recvIO' = [recvIO EXCEPT ![s] = @ + 1] \/ UNCHANGED recvIO)
      BY <1>0, <3>2 DEF AddRef
    <3>. QED  BY <3>1, <3>2 DEF PostRecvLocked
  <2>. QED  BY <2>1 DEF IInv, TypeOK, SlotTypes, PostRecvLocked, connVars, flagVars, bufVars
<1>2. ASSUME NEW k, Continue(t, k) PROVE Goes(t, k)
  BY <1>2, AtGoes, UncountedOps DEF PostRecvLocked
<1>3. CASE ~connected[s] /\ Continue(t, <<Frame("UnlockRecv", s)>>) /\ UNCHANGED <<refCount, recvIO>>
  <2>1. <<Frame("UnlockRecv", s)>> \in Plain
    BY PlainContinuations, UncountedOps
  <2>. QED  BY <1>1, <1>2, <1>3, <2>1, QuietStep DEF PostRecvLocked, connVars, ioVars
<1>4. CASE /\ connected[s] /\ AddRef(s) /\ Return(t)
           /\ recvIO' = [recvIO EXCEPT ![s] = @ + 1]
  <2>1. \A r \in Sessions : \/ refCount'[r] = refCount[r] /\ Held(r)' = Held(r)
                            \/ /\ connected[r]
                               /\ refCount'[r] = refCount[r] + 1
                               /\ Held(r)' = Held(r) + 1
    BY <1>0, <1>4 DEF PostRecvLocked, Held, AddRef, connVars, ioVars
  <2>2. <<>> \in Plain /\ Goes(t, <<>>)
    BY <1>2, <1>4, PlainContinuations DEF Return
  <2>. QED  BY <1>1, <2>1, <2>2, PlainStep DEF PostRecvLocked, connVars
<1>5. CASE connected[s] /\ AddRef(s) /\ Continue(t, GiveUp(s, "UnlockRecv")) /\ UNCHANGED recvIO
  <2>1. /\ \A r \in Sessions \ {s} : refCount'[r] = refCount[r] /\ Held(r)' = Held(r)
        /\ refCount'[s] = refCount[s] + 1 /\ Held(s)' = Held(s)
    BY <1>0, <1>5 DEF PostRecvLocked, Held, AddRef, connVars, ioVars
  <2>. QED  BY <1>1, <1>2, <1>5, <2>1, GiveUpGiving, GivingStep DEF PostRecvLocked, connVars
<1>. QED  BY <1>3, <1>4, <1>5 DEF PostRecvLocked

\* PostSend() under the session lock: not connected, posted, or refused.
LEMMA SendLockedKeeps ==
    ASSUME IInv, NEW t \in Threads, NEW s \in Sessions, SendLocked(t, s), UNCHANGED networkVars
    PROVE  IInv'
<1>0. /\ refCount \in [Sessions -> Nat] /\ sendIO \in [Sessions -> Nat]
      /\ \A r \in Sessions : /\ recvIO[r] \in Nat /\ sendIO[r] \in Nat /\ procQ[r] \in Nat
                             /\ refCount[r] \in Nat
  BY CountTypes DEF IInv, TypeOK
<1>1. SlotTypes'
  <2>1. refCount' \in [Sessions -> Nat] /\ sendIO' \in [Sessions -> Nat]
    <3>1. CASE UNCHANGED <<refCount, sendIO>>
      BY <1>0, <3>1
    <3>2. CASE AddRef(s) /\ (sendIO' = [sendIO EXCEPT ![s] = @ + 1] \/ UNCHANGED sendIO)
      BY <1>0, <3>2 DEF AddRef
    <3>. QED  BY <3>1, <3>2 DEF SendLocked
  <2>. QED  BY <2>1 DEF IInv, TypeOK, SlotTypes, SendLocked, connVars, flagVars, bufVars
<1>2. ASSUME NEW k, Continue(t, k) PROVE Goes(t, k)
  BY <1>2, AtGoes, UncountedOps DEF SendLocked
<1>3. CASE ~connected[s] /\ Continue(t, <<Frame("UnlockSend", s)>>) /\ UNCHANGED <<refCount, sendIO>>
  <2>1. <<Frame("UnlockSend", s)>> \in Plain
    BY PlainContinuations, UncountedOps
  <2>. QED  BY <1>1, <1>2, <1>3, <2>1, QuietStep DEF SendLocked, connVars, ioVars
<1>4. CASE /\ connected[s] /\ AddRef(s) /\ Return(t)
           /\ sendIO' = [sendIO EXCEPT ![s] = @ + 1]
  <2>1. \A r \in Sessions : \/ refCount'[r] = refCount[r] /\ Held(r)' = Held(r)
                            \/ /\ connected[r]
                               /\ refCount'[r] = refCount[r] + 1
                               /\ Held(r)' = Held(r) + 1
    BY <1>0, <1>4 DEF SendLocked, Held, AddRef, connVars, ioVars
  <2>2. <<>> \in Plain /\ Goes(t, <<>>)
    BY <1>2, <1>4, PlainContinuations DEF Return
  <2>. QED  BY <1>1, <2>1, <2>2, PlainStep DEF SendLocked, connVars
<1>5. CASE connected[s] /\ AddRef(s) /\ Continue(t, GiveUp(s, "UnlockSend")) /\ UNCHANGED sendIO
  <2>1. /\ \A r \in Sessions \ {s} : refCount'[r] = refCount[r] /\ Held(r)' = Held(r)
        /\ refCount'[s] = refCount[s] + 1 /\ Held(s)' = Held(s)
    BY <1>0, <1>5 DEF SendLocked, Held, AddRef, connVars, ioVars
  <2>. QED  BY <1>1, <1>2, <1>5, <2>1, GiveUpGiving, GivingStep DEF SendLocked, connVars
<1>. QED  BY <1>3, <1>4, <1>5 DEF SendLocked

\* PostProcess under the session lock queues the session with a reference.
LEMMA PostProcessLockedKeeps ==
    ASSUME IInv, NEW t \in Threads, NEW s \in Sessions, PostProcessLocked(t, s),
           UNCHANGED networkVars
    PROVE  IInv'
<1>0. /\ refCount \in [Sessions -> Nat] /\ procQ \in [Sessions -> Nat]
      /\ \A r \in Sessions : /\ recvIO[r] \in Nat /\ sendIO[r] \in Nat /\ procQ[r] \in Nat
                             /\ refCount[r] \in Nat
  BY CountTypes DEF IInv, TypeOK
<1>1. SlotTypes'
  <2>1. refCount' \in [Sessions -> Nat] /\ procQ' \in [Sessions -> Nat]
    <3>1. CASE UNCHANGED <<refCount, procQ>>
      BY <1>0, <3>1
    <3>2. CASE AddRef(s) /\ procQ' = [procQ EXCEPT ![s] = @ + 1]
      BY <1>0, <3>2 DEF AddRef
    <3>. QED  BY <3>1, <3>2 DEF PostProcessLocked
  <2>2. procPending' \in [Sessions -> BOOLEAN]
    BY DEF IInv, TypeOK, PostProcessLocked
  <2>. QED  BY <2>1, <2>2 DEF IInv, TypeOK, SlotTypes, PostProcessLocked, connVars, bufVars
<1>2. <<>> \in Plain /\ Goes(t, <<>>)
  BY AtGoes, UncountedOps, PlainContinuations DEF PostProcessLocked, Return
<1>3. \A r \in Sessions : \/ refCount'[r] = refCount[r] /\ Held(r)' = Held(r)
                          \/ /\ connected[r]
                             /\ refCount'[r] = refCount[r] + 1
                             /\ Held(r)' = Held(r) + 1
  BY <1>0 DEF PostProcessLocked, Held, AddRef, connVars
<1>. QED  BY <1>1, <1>2, <1>3, PlainStep DEF PostProcessLocked, connVars

\* A worker that dequeues an operation owes the reference that came with it.
LEMMA DequeueStep ==
    ASSUME IInv, NEW t \in Threads, NEW s \in Sessions, NEW k \in Giving(s), Begin(t, k),
           \/ /\ recvIO[s] > 0 /\ recvIO' = [recvIO EXCEPT ![s] = @ - 1]
              /\ UNCHANGED <<sendIO, procQ>>
           \/ /\ sendIO[s] > 0 /\ sendIO' = [sendIO EXCEPT ![s] = @ - 1]
              /\ UNCHANGED <<recvIO, procQ>>
           \/ /\ procQ[s] > 0 /\ procQ' = [procQ EXCEPT ![s] = @ - 1]
              /\ UNCHANGED <<recvIO, sendIO>>,
           UNCHANGED <<connVars, refCount, flagVars, bufVars, networkVars>>
    PROVE  IInv'
<1>0. /\ recvIO \in [Sessions -> Nat] /\ sendIO \in [Sessions -> Nat]
      /\ procQ \in [Sessions -> Nat]
      /\ \A r \in Sessions : recvIO[r] \in Nat /\ sendIO[r] \in Nat /\ procQ[r] \in Nat
  BY CountTypes DEF IInv, TypeOK
<1>1. SlotTypes'
  <2>1. /\ recvIO' \in [Sessions -> Nat] /\ sendIO' \in [Sessions -> Nat]
        /\ procQ' \in [Sessions -> Nat]
    BY <1>0
  <2>. QED  BY <2>1 DEF IInv, TypeOK, SlotTypes, connVars, flagVars, bufVars
<1>2. /\ \A r \in Sessions \ {s} : refCount'[r] = refCount[r] /\ Held(r)' = Held(r)
      /\ refCount'[s] = refCount[s] /\ Held(s)' = Held(s) - 1
  BY <1>0 DEF Held, connVars
<1>. QED  BY <1>1, <1>2, GivingStep DEF Goes, connVars

\* What a worker dequeues is one of the operations posted.
LEMMA Queued ==
    ASSUME TypeOK, NEW s \in Sessions
    PROVE  /\ recvIO[s] > lostRecv[s] => recvIO[s] > 0
           /\ sendIO[s] > lostSend[s] => sendIO[s] > 0
BY DEF TypeOK, PortTypeOK

\* Dequeueing a completed receive or send, or a failed one.
LEMMA IoDequeueKeeps ==
    ASSUME IInv, NEW t \in IoThreads, NEW s \in Sessions, IoDequeue(t, s)
    PROVE  IInv'
<1>0. /\ t \in Threads
      /\ recvIO[s] > lostRecv[s] => recvIO[s] > 0
      /\ sendIO[s] > lostSend[s] => sendIO[s] > 0
  BY NetworkAssumption, Queued DEF IInv
<1>1. CASE DequeueRecv(t, s)
  <2>1. OnRecv(s) \in Giving(s)
    <3>1. /\ <<RefFrame(s), Frame("PostRecv", s)>> \in Giving(s)
          /\ <<>> \in Plain /\ <<Frame("PostProcess", s)>> \in Plain
          /\ <<Frame("CompletedRecv", s)>> \in Plain
      BY GivingContinuations, PlainContinuations, UncountedOps
    <3>2. (IF OwnMode THEN <<Frame("PostProcess", s)>> ELSE <<>>) \in Plain
      BY <3>1
    <3>. QED  BY <3>1, <3>2, PlainConcat DEF OnRecv, RefFrame
  <2>. QED  BY <1>0, <1>1, <2>1, DequeueStep DEF DequeueRecv
<1>2. CASE DequeueSend(t, s)
  <2>1. <<RefFrame(s), Frame("CompletedSend", s)>> \in Giving(s)
    BY GivingContinuations, UncountedOps
  <2>. QED  BY <1>0, <1>2, <2>1, DequeueStep DEF DequeueSend, RefFrame
<1>3. CASE DequeueFailed(t, s)
  <2>1. <<RefFrame(s), Frame("Disconnect", s)>> \in Giving(s)
    BY GivingContinuations, UncountedOps
  <2>. QED  BY <1>0, <1>3, <2>1, DequeueStep DEF DequeueFailed, RefFrame
<1>. QED  BY <1>1, <1>2, <1>3 DEF IoDequeue

\* Dequeueing an entry of the process queue.
LEMMA DequeueProcessKeeps ==
    ASSUME IInv, NEW t \in ProcThreads, NEW s \in Sessions, DequeueProcess(t, s)
    PROVE  IInv'
<1>1. <<RefFrame(s), Frame("ProcessCompletion", s)>> \in Giving(s)
  BY GivingContinuations, UncountedOps
<1>. QED  BY <1>1, DequeueStep, NetworkAssumption DEF DequeueProcess, RefFrame

\* A call by an application thread.
LEMMA AppCallKeeps ==
    ASSUME IInv, NEW t \in AppThreads, NEW s \in Sessions, AppCall(t, s)
    PROVE  IInv'
<1>1. SlotTypes'
  BY DEF IInv, TypeOK, SlotTypes, AppCall, connVars, flagVars, ioVars, bufVars
<1>2. PICK k \in Plain : Begin(t, k)
  BY PlainContinuations, UncountedOps, NetworkAssumption DEF AppCall
<1>. QED  BY <1>1, <1>2, QuietStep, NetworkAssumption DEF Goes, AppCall, connVars

------------------------------------------------------------------------------
(* The steps that move a session through the closing thread                *)

\* What the invariant says of one session.
LEMMA SessionFacts ==
    ASSUME IInv, NEW s \in Sessions
    PROVE  /\ refCount[s] = Held(s) + Waiting(RefFrame(s)) /\ Held(s) \in Nat
           /\ ClosingSteps(s) = Waiting(AddFrame(s)) + Listed(s) + Waiting(EndFrame(s))
           /\ Waiting(AddFrame(s)) \in Nat /\ Listed(s) \in Nat /\ Waiting(EndFrame(s)) \in Nat
           /\ Waiting(RefFrame(s)) \in Nat
           /\ ClosingSteps(s) = 0 \/ ClosingSteps(s) = 1
           /\ ClosingSteps(s) = 1 => s \in active /\ ~connected[s] /\ refCount[s] = 0
           /\ s \notin active => ClosingSteps(s) = 0 /\ ~connected[s] /\ refCount[s] = 0
<1>1. refCount[s] = Held(s) + Waiting(RefFrame(s))
  BY RefsOutParts DEF IInv, RefCountExact
<1>2. /\ refCount[s] \in Nat /\ recvIO[s] \in Nat /\ sendIO[s] \in Nat /\ procQ[s] \in Nat
      /\ Waiting(RefFrame(s)) \in Nat /\ Waiting(AddFrame(s)) \in Nat
      /\ Waiting(EndFrame(s)) \in Nat
  BY CountTypes DEF IInv
<1>3. Held(s) \in Nat
  BY <1>2 DEF Held
<1>4. ClosingSteps(s) = Waiting(AddFrame(s)) + Listed(s) + Waiting(EndFrame(s))
  BY DEF ClosingSteps, AddFrame, EndFrame
<1>5. Listed(s) \in Nat
  <2>1. closingList \in Seq(Sessions)
    BY DEF IInv, TypeOK
  <2>2. IsFiniteSet(1..Len(closingList))
    BY <2>1, FS_Interval, LenProperties
  <2>3. IsFiniteSet({i \in DOMAIN closingList : closingList[i] = s})
    BY <2>1, <2>2, FS_Subset, LenProperties
  <2>. QED  BY <2>3, FS_CardinalityType DEF Listed
<1>6. /\ ClosingSteps(s) <= 1
      /\ ClosingSteps(s) = 1 => s \in active /\ ~connected[s] /\ refCount[s] = 0
      /\ s \notin active => ~connected[s] /\ refCount[s] = 0
  BY DEF IInv, ClosingOnce, FreeIsQuiet
<1>. QED  BY <1>1, <1>2, <1>3, <1>4, <1>5, <1>6

\* A frame on top of a stack is counted.
LEMMA TopCounted ==
    ASSUME StackType, NEW t \in Threads, NEW op, NEW s, At(t, op, s)
    PROVE  Waiting(Frame(op, s)) > 0
<1>1. <<t, Len(stack[t])>> \in Holders(Frame(op, s))
  BY HoldersMember, EmptySeq DEF At, Top, StackType
<1>2. IsFiniteSet(Holders(Frame(op, s))) /\ Cardinality(Holders(Frame(op, s))) \in Nat
  BY HoldersFinite DEF StackType
<1>3. Cardinality(Holders(Frame(op, s))) # 0
  BY <1>1, <1>2, FS_EmptySet
<1>. QED  BY <1>2, <1>3 DEF Waiting

\* The three kinds of counted frames are different, also between sessions.
LEMMA CountedFrames ==
    /\ \A r, s : AddFrame(r) # RefFrame(s) /\ EndFrame(r) # RefFrame(s)
                 /\ AddFrame(r) # EndFrame(s)
    /\ \A r, s : r # s => /\ RefFrame(r) # RefFrame(s) /\ AddFrame(r) # AddFrame(s)
                          /\ EndFrame(r) # EndFrame(s)
    /\ \A s \in Sessions : RefFrame(s) \in Frames /\ AddFrame(s) \in Frames
                           /\ EndFrame(s) \in Frames
<1>1. \A s \in Sessions : RefFrame(s) \in Frames /\ AddFrame(s) \in Frames
                           /\ EndFrame(s) \in Frames
  BY FrameFields DEF RefFrame, AddFrame, EndFrame, Ops
<1>. QED  BY <1>1, FrameFields DEF RefFrame, AddFrame, EndFrame

\* A step that leaves the pool alone keeps what the invariant says of it.
LEMMA PoolKept ==
    ASSUME IInv, SlotTypes', StackType', UNCHANGED <<poolVars, portVars>>,
           closingList' \in Seq(Sessions)
    PROVE  TypeOK' /\ FreeListed'
<1>1. TypeOK'
  <2>1. PortTypeOK'
    BY DEF IInv, TypeOK, PortTypeOK, portVars
  <2>. QED  BY <2>1 DEF IInv, TypeOK, SlotTypes, StackType, poolVars
<1>2. FreeListed'
  BY DEF IInv, FreeListed, poolVars
<1>. QED  BY <1>1, <1>2

\* ReleaseRef: the last reference, and no other, makes the session closing.
LEMMA ReleaseRefKeeps ==
    ASSUME IInv, NEW t \in Threads, NEW s \in Sessions, ReleaseRef(t, s), UNCHANGED networkVars
    PROVE  IInv'
<1> DEFINE k == IF refCount[s] = 1 THEN <<AddFrame(s)>> ELSE <<>>
<1>1. /\ stack[t] # <<>> /\ Top(t) = RefFrame(s) /\ Continue(t, k)
      /\ refCount' = [refCount EXCEPT ![s] = @ - 1]
  BY DEF ReleaseRef, At, RefFrame, AddFrame
<1>2. /\ TypeOK /\ StackType /\ refCount \in [Sessions -> Nat]
      /\ \A r \in Sessions : refCount[r] \in Nat
  BY DEF IInv, TypeOK, StackType
<1>3. Waiting(RefFrame(s)) > 0
  BY <1>2, TopCounted DEF ReleaseRef, RefFrame
<1>4. k \in Seq(Frames) /\ (\A f : \A i \in 2..Len(k) : k[i] # f)
  BY CountedFrames
<1>5. Len(k) = (IF refCount[s] = 1 THEN 1 ELSE 0) /\ (refCount[s] = 1 => k[1] = AddFrame(s))
  OBVIOUS
<1>. HIDE DEF k
<1>6. ASSUME NEW f
      PROVE  /\ StackType'
             /\ Waiting(f)' = Waiting(f) - (IF RefFrame(s) = f THEN 1 ELSE 0)
                                  + (IF refCount[s] = 1 /\ AddFrame(s) = f THEN 1 ELSE 0)
  <2>1. /\ StackType'
        /\ Waiting(f)' = Waiting(f) - (IF Top(t) = f THEN 1 ELSE 0)
                             + (IF Len(k) > 0 /\ k[1] = f THEN 1 ELSE 0)
    BY <1>1, <1>2, <1>4, ContinueWaiting DEF StackType
  <2>2. Len(k) > 0 /\ k[1] = f <=> refCount[s] = 1 /\ AddFrame(s) = f
    BY <1>2, <1>5
  <2>. QED  BY <1>1, <2>1, <2>2
<1>7. refCount[s] > 0 /\ refCount'[s] = refCount[s] - 1 /\ refCount'[s] \in Nat
  BY <1>1, <1>2, <1>3, SessionFacts
<1>8. \A r \in Sessions : Held(r)' = Held(r)
  BY DEF ReleaseRef, Held, connVars, ioVars
<1>9. SlotTypes'
  <2>1. refCount' \in [Sessions -> Nat]
    BY <1>1, <1>2, <1>7
  <2>. QED  BY <2>1 DEF IInv, TypeOK, SlotTypes, ReleaseRef, connVars, flagVars, ioVars, bufVars
<1>10. TypeOK' /\ FreeListed'
  BY <1>2, <1>6, <1>9, PoolKept DEF TypeOK, networkVars, poolVars
<1>11. ASSUME NEW r \in Sessions PROVE refCount'[r] = RefsOut(r)'
  <2>1. CASE r = s
    <3>1. Waiting(RefFrame(s))' = Waiting(RefFrame(s)) - 1
      BY <1>6, CountedFrames, SessionFacts
    <3>. QED  BY <1>7, <1>8, <2>1, <3>1, RefsOutParts, SessionFacts
  <2>2. CASE r # s
    <3>1. Waiting(RefFrame(r))' = Waiting(RefFrame(r)) /\ refCount'[r] = refCount[r]
      BY <1>1, <1>2, <1>6, <2>2, CountedFrames, SessionFacts
    <3>. QED  BY <1>8, <3>1, RefsOutParts, SessionFacts
  <2>. QED  BY <2>1, <2>2
<1>12. ASSUME NEW r \in Sessions
       PROVE  /\ ClosingSteps(r)' <= 1
              /\ ClosingSteps(r)' = 1 => r \in active' /\ ~connected'[r] /\ refCount'[r] = 0
              /\ r \notin active' => ~connected'[r] /\ refCount'[r] = 0
  <2>1. /\ ClosingSteps(r)' = Waiting(AddFrame(r))' + Listed(r) + Waiting(EndFrame(r))'
        /\ active' = active /\ connected' = connected
    BY DEF ClosingSteps, AddFrame, EndFrame, Listed, ReleaseRef, connVars, networkVars, poolVars
  <2>2. CASE r = s
    <3>1. s \in active /\ ClosingSteps(s) = 0
      BY <1>7, SessionFacts
    <3>2. ClosingSteps(s)' = IF refCount[s] = 1 THEN 1 ELSE 0
      BY <1>6, <2>1, <2>2, <3>1, CountedFrames, SessionFacts
    <3>3. refCount[s] = 1 => ~connected[s]
      <4>0. /\ refCount[s] = Held(s) + Waiting(RefFrame(s))
            /\ Held(s) \in Nat /\ Waiting(RefFrame(s)) \in Nat
        BY SessionFacts
      <4>1. refCount[s] = 1 => Held(s) = 0
        BY <1>3, <4>0
      <4>2. connected[s] => Held(s) > 0
        BY CountTypes DEF Held, IInv
      <4>. QED  BY <4>1, <4>2
    <3>. QED  BY <1>7, <2>1, <2>2, <3>1, <3>2, <3>3
  <2>3. CASE r # s
    <3>1. ClosingSteps(r)' = ClosingSteps(r) /\ refCount'[r] = refCount[r]
      BY <1>1, <1>2, <1>6, <2>1, <2>3, CountedFrames, SessionFacts
    <3>. QED  BY <2>1, <3>1, SessionFacts
  <2>. QED  BY <2>2, <2>3
<1>. QED  BY <1>10, <1>11, <1>12 DEF IInv, RefCountExact, ClosingOnce, FreeIsQuiet

\* Appending s to the closing list counts it once more.
LEMMA ListedAppend ==
    ASSUME closingList \in Seq(Sessions), NEW s \in Sessions,
           closingList' = Append(closingList, s), NEW r
    PROVE  /\ closingList' \in Seq(Sessions)
           /\ Listed(r)' = Listed(r) + (IF r = s THEN 1 ELSE 0)
<1> DEFINE n == Len(closingList)
           old == {i \in 1..n : closingList[i] = r}
<1>1. /\ n \in Nat /\ closingList' \in Seq(Sessions) /\ Len(closingList') = n + 1
      /\ \A i \in 1..n : closingList'[i] = closingList[i]
      /\ closingList'[n + 1] = s
      /\ DOMAIN closingList = 1..n /\ DOMAIN closingList' = 1..(n + 1)
  BY AppendProperties, LenProperties
<1>. HIDE DEF n
<1>2. IsFiniteSet(old) /\ n + 1 \notin old /\ Cardinality(old) \in Nat
  <2>1. IsFiniteSet(1..n)
    BY <1>1, FS_Interval
  <2>2. IsFiniteSet(old)
    BY <2>1, FS_Subset
  <2>. QED  BY <1>1, <2>2, FS_CardinalityType
<1>3. {i \in 1..(n + 1) : closingList'[i] = r} = IF r = s THEN old \cup {n + 1} ELSE old
  <2>1. \A i \in 1..(n + 1) : i \in 1..n \/ i = n + 1
    BY <1>1
  <2>2. \A i \in 1..n : i \in 1..(n + 1)
    BY <1>1
  <2>3. n + 1 \in 1..(n + 1)
    BY <1>1
  <2>. QED  BY <1>1, <2>1, <2>2, <2>3
<1>4. Cardinality(old \cup {n + 1}) = Cardinality(old) + 1
  BY <1>2, FS_AddElement
<1>5. Listed(r) = Cardinality(old)
  BY <1>1 DEF Listed
<1>6. Listed(r)' = Cardinality(IF r = s THEN old \cup {n + 1} ELSE old)
  BY <1>1, <1>3 DEF Listed
<1>. HIDE DEF old
<1>. QED  BY <1>1, <1>2, <1>4, <1>5, <1>6

\* Taking the head of the closing list counts it once less.
LEMMA ListedTail ==
    ASSUME closingList \in Seq(Sessions), closingList # <<>>,
           closingList' = Tail(closingList), NEW r
    PROVE  /\ closingList' \in Seq(Sessions)
           /\ Listed(r)' = Listed(r) - (IF r = Head(closingList) THEN 1 ELSE 0)
<1> DEFINE n == Len(closingList)
           all == {i \in 1..n : closingList[i] = r}
           rest == {i \in 2..n : closingList[i] = r}
           new == {i \in 1..(n - 1) : closingList'[i] = r}
           shift == [i \in new |-> i + 1]
<1>1. /\ n \in Nat /\ n > 0 /\ closingList' \in Seq(Sessions) /\ Len(closingList') = n - 1
      /\ \A i \in 1..(n - 1) : closingList'[i] = closingList[i + 1]
      /\ closingList[1] = Head(closingList)
      /\ DOMAIN closingList = 1..n /\ DOMAIN closingList' = 1..(n - 1)
  BY HeadTailProperties, LenProperties, EmptySeq
<1>. HIDE DEF n
<1>2. IsFiniteSet(all) /\ IsFiniteSet(rest) /\ IsFiniteSet(new)
  <2>1. IsFiniteSet(1..n) /\ IsFiniteSet(2..n) /\ IsFiniteSet(1..(n - 1))
    BY <1>1, FS_Interval
  <2>. QED  BY <2>1, FS_Subset
<1>3. Cardinality(rest) = Cardinality(new)
  <2>1. shift \in Bijection(new, rest)
    <3>1. \A i \in new : i + 1 \in rest
      BY <1>1
    <3>2. \A i, j \in new : i + 1 = j + 1 => i = j
      BY <1>1
    <3>3. \A j \in rest : j - 1 \in new /\ (j - 1) + 1 = j
      BY <1>1
    <3>. QED  BY <3>1, <3>2, <3>3 DEF Bijection, Injection, Surjection, IsInjective
  <2>. HIDE DEF new, rest, shift
  <2>2. ExistsBijection(new, rest)
    BY <2>1 DEF ExistsBijection
  <2>. QED  BY <1>2, <2>2, FS_Bijection
<1>4. rest = all \ {1} /\ (1 \in all <=> r = Head(closingList))
  <2>1. \A i \in 1..n : i \in 2..n <=> i # 1
    BY <1>1
  <2>2. \A i \in 2..n : i \in 1..n
    BY <1>1
  <2>3. 1 \in 1..n
    BY <1>1
  <2>. QED  BY <1>1, <2>1, <2>2, <2>3
<1>5. Listed(r) = Cardinality(all) /\ Listed(r)' = Cardinality(new)
  BY <1>1 DEF Listed
<1>. HIDE DEF all, rest, new
<1>6. Cardinality(rest) = IF 1 \in all THEN Cardinality(all) - 1 ELSE Cardinality(all)
  BY <1>2, <1>4, FS_RemoveElement
<1>7. Cardinality(all) \in Nat
  BY <1>2, FS_CardinalityType
<1>. QED  BY <1>1, <1>3, <1>4, <1>5, <1>6, <1>7

\* A step that only moves a session on its way to the closing thread, or on
\* its way through it, keeps the invariant.
LEMMA ClosingStep ==
    ASSUME IInv, StackType', closingList' \in Seq(Sessions),
           UNCHANGED <<poolVars, portVars, connVars, refCount, flagVars, ioVars, bufVars>>,
           \A r \in Sessions : /\ Waiting(RefFrame(r))' = Waiting(RefFrame(r))
                               /\ ClosingSteps(r)' = ClosingSteps(r)
    PROVE  IInv'
<1>1. SlotTypes'
  BY DEF IInv, TypeOK, SlotTypes, connVars, flagVars, ioVars, bufVars
<1>2. TypeOK' /\ FreeListed'
  BY <1>1, PoolKept
<1>3. \A r \in Sessions : refCount'[r] = RefsOut(r)'
  <2>1. \A r \in Sessions : Held(r)' = Held(r)
    BY DEF Held, connVars, ioVars
  <2>. QED  BY <2>1, RefsOutParts, SessionFacts
<1>4. connected' = connected /\ active' = active /\ refCount' = refCount
  BY DEF connVars, poolVars
<1>5. ClosingOnce' /\ FreeIsQuiet'
  BY <1>4 DEF IInv, ClosingOnce, FreeIsQuiet
<1>. QED  BY <1>2, <1>3, <1>5 DEF IInv, RefCountExact

\* AddClosingSession: from the thread that decided it to the list.
LEMMA AddClosingKeeps ==
    ASSUME IInv, NEW t \in Threads, NEW s \in Sessions, AddClosing(t, s)
    PROVE  IInv'
<1>1. /\ stack[t] # <<>> /\ Top(t) = AddFrame(s) /\ Return(t)
      /\ closingList \in Seq(Sessions) /\ closingList' = Append(closingList, s)
      /\ stack \in [Threads -> Seq(Frames)]
  BY DEF AddClosing, At, AddFrame, IInv, TypeOK
<1>2. ASSUME NEW f
      PROVE  /\ StackType'
             /\ Waiting(f)' = Waiting(f) - (IF AddFrame(s) = f THEN 1 ELSE 0)
  BY <1>1, ReturnWaiting DEF StackType
<1>3. closingList' \in Seq(Sessions)
      /\ \A r \in Sessions : Listed(r)' = Listed(r) + (IF r = s THEN 1 ELSE 0)
  BY <1>1, ListedAppend
<1>4. ASSUME NEW r \in Sessions
      PROVE  /\ Waiting(RefFrame(r))' = Waiting(RefFrame(r))
             /\ ClosingSteps(r)' = ClosingSteps(r)
  <2>1. /\ Waiting(RefFrame(r))' = Waiting(RefFrame(r))
        /\ Waiting(EndFrame(r))' = Waiting(EndFrame(r))
        /\ Waiting(AddFrame(r))' = Waiting(AddFrame(r)) - (IF r = s THEN 1 ELSE 0)
    BY <1>2, CountedFrames, SessionFacts
  <2>2. ClosingSteps(r)' = Waiting(AddFrame(r))' + Listed(r)' + Waiting(EndFrame(r))'
    BY DEF ClosingSteps, AddFrame, EndFrame
  <2>3. /\ ClosingSteps(r) = Waiting(AddFrame(r)) + Listed(r) + Waiting(EndFrame(r))
        /\ Waiting(AddFrame(r)) \in Nat /\ Listed(r) \in Nat /\ Waiting(EndFrame(r)) \in Nat
    BY SessionFacts
  <2>4. \A a, l, e \in Nat : \A d \in {0, 1} : (a - d) + (l + d) + e = a + l + e
    OBVIOUS
  <2>5. ClosingSteps(r)' = ClosingSteps(r)
    BY <1>3, <2>1, <2>2, <2>3, <2>4
  <2>. QED  BY <2>1, <2>5
<1>5. StackType'
  BY <1>2
<1>. QED  BY <1>3, <1>4, <1>5, ClosingStep DEF AddClosing

\* The closing thread takes the oldest session of the list.
LEMMA TakeClosingKeeps ==
    ASSUME IInv, NEW s \in Sessions, TakeClosing(s)
    PROVE  IInv'
<1> DEFINE k == <<EndFrame(s), Frame("Close", s), Frame("OnClose", s)>>
<1>1. /\ Begin(ClosingThread, k) /\ ClosingThread \in Threads
      /\ closingList \in Seq(Sessions) /\ closingList # <<>> /\ s = Head(closingList)
      /\ closingList' = Tail(closingList)
      /\ stack \in [Threads -> Seq(Frames)]
  BY NetworkAssumption DEF TakeClosing, EndFrame, IInv, TypeOK
<1>2. /\ k \in Seq(Frames) /\ Len(k) = 3 /\ k[1] = EndFrame(s)
      /\ \A i \in 2..Len(k) : k[i].op \notin Counted
  <2>1. Frame("Close", s) \in Frames /\ Frame("OnClose", s) \in Frames
        /\ Frame("Close", s).op \notin Counted /\ Frame("OnClose", s).op \notin Counted
    BY FrameFields, UncountedOps
  <2>. QED  BY <2>1, CountedFrames
<1>. HIDE DEF k
<1>3. ASSUME NEW f, f.op \in Counted
      PROVE  /\ StackType'
             /\ Waiting(f)' = Waiting(f) + (IF f = EndFrame(s) THEN 1 ELSE 0)
  <2>1. \A i \in 2..Len(k) : k[i] # f
    BY <1>2, <1>3
  <2>2. /\ StackType'
        /\ Waiting(f)' = Waiting(f) + (IF Len(k) > 0 /\ k[1] = f THEN 1 ELSE 0)
    BY <1>1, <1>2, <2>1, BeginWaiting DEF StackType
  <2>. QED  BY <1>2, <2>2
<1>4. closingList' \in Seq(Sessions)
      /\ \A r \in Sessions : Listed(r)' = Listed(r) - (IF r = s THEN 1 ELSE 0)
  BY <1>1, ListedTail
<1>5. ASSUME NEW r \in Sessions
      PROVE  /\ StackType'
             /\ Waiting(RefFrame(r))' = Waiting(RefFrame(r))
             /\ ClosingSteps(r)' = ClosingSteps(r)
  <2>1. RefFrame(r).op \in Counted /\ AddFrame(r).op \in Counted /\ EndFrame(r).op \in Counted
    BY FrameFields DEF RefFrame, AddFrame, EndFrame, Counted
  <2>2. /\ RefFrame(r) # EndFrame(s) /\ AddFrame(r) # EndFrame(s)
        /\ EndFrame(r) = EndFrame(s) <=> r = s
    BY CountedFrames
  <2>3. /\ StackType'
        /\ Waiting(RefFrame(r))' = Waiting(RefFrame(r))
        /\ Waiting(EndFrame(r))' = Waiting(EndFrame(r)) + (IF r = s THEN 1 ELSE 0)
        /\ Waiting(AddFrame(r))' = Waiting(AddFrame(r))
    BY <1>3, <2>1, <2>2, SessionFacts
  <2>4. ClosingSteps(r)' = Waiting(AddFrame(r))' + Listed(r)' + Waiting(EndFrame(r))'
    BY DEF ClosingSteps, AddFrame, EndFrame
  <2>5. Listed(r)' = Listed(r) - (IF r = s THEN 1 ELSE 0)
    BY <1>4
  <2>6. /\ ClosingSteps(r) = Waiting(AddFrame(r)) + Listed(r) + Waiting(EndFrame(r))
        /\ Waiting(AddFrame(r)) \in Nat /\ Listed(r) \in Nat /\ Waiting(EndFrame(r)) \in Nat
    BY SessionFacts
  <2>. QED  BY <2>3, <2>4, <2>5, <2>6
<1>6. StackType'
  <2>1. Frame("ReleaseRef", s).op \in Counted
    BY FrameFields DEF Counted
  <2>. QED  BY <1>3, <2>1
<1>. QED  BY <1>4, <1>5, <1>6, ClosingStep DEF TakeClosing

\* ReleaseSession: back to the pool.
LEMMA ReleaseSessionKeeps ==
    ASSUME IInv, NEW t \in Threads, NEW s \in Sessions, ReleaseSession(t, s)
    PROVE  IInv'
<1>1. /\ stack[t] # <<>> /\ Top(t) = EndFrame(s) /\ Return(t)
      /\ stack \in [Threads -> Seq(Frames)]
      /\ UNCHANGED <<closingList, connVars, refCount, flagVars, ioVars, bufVars>>
  BY DEF ReleaseSession, At, EndFrame, IInv, TypeOK
<1>2. ASSUME NEW f
      PROVE  /\ StackType'
             /\ Waiting(f)' = Waiting(f) - (IF EndFrame(s) = f THEN 1 ELSE 0)
  BY <1>1, ReturnWaiting DEF StackType
<1>3. Waiting(EndFrame(s)) > 0
  BY <1>1, TopCounted DEF ReleaseSession, EndFrame, StackType
<1>4. s \in active /\ ~connected[s] /\ refCount[s] = 0 /\ ClosingSteps(s) = 1
  BY <1>3, SessionFacts
<1>5. /\ active' = active \ {s}
      /\ freeList' = Append(freeList, s)
      /\ sessionCount' = sessionCount - 1
      /\ countPerThread' = [countPerThread EXCEPT ![threadOf[s]] = @ - 1]
      /\ threadOf' = threadOf
  BY <1>4 DEF ReleaseSession, poolVars
<1>6. SlotTypes' /\ StackType'
  BY <1>1, <1>2 DEF IInv, TypeOK, SlotTypes, connVars, flagVars, ioVars, bufVars
<1>7. freeList \in Seq(Sessions) /\ freeList' \in Seq(Sessions)
  BY <1>5, AppendProperties DEF IInv, TypeOK
<1>8. TypeOK'
  <2>1. countPerThread \in [IoThreads -> Int] /\ sessionCount \in Int /\ active \subseteq Sessions
        /\ threadOf \in [Sessions -> IoThreads]
    BY DEF IInv, TypeOK
  <2>2. countPerThread' \in [IoThreads -> Int]
    BY <1>5, <2>1
  <2>3. /\ active' \in SUBSET Sessions /\ sessionCount' \in Int
        /\ threadOf' \in [Sessions -> IoThreads] /\ closingList' \in Seq(Sessions)
    BY <1>1, <1>5, <2>1 DEF IInv, TypeOK
  <2>4. PortTypeOK'
    BY DEF ReleaseSession, portVars, PortTypeOK, IInv, TypeOK
  <2>. QED  BY <1>6, <1>7, <2>2, <2>3, <2>4 DEF TypeOK, SlotTypes, StackType
<1>9. FreeListed'
  <2> DEFINE n == Len(freeList)
  <2>1. /\ n \in Nat /\ DOMAIN freeList = 1..n /\ DOMAIN freeList' = 1..(n + 1)
        /\ \A i \in 1..n : freeList'[i] = freeList[i]
        /\ freeList'[n + 1] = s
    BY <1>5, <1>7, AppendProperties, LenProperties
  <2>2. /\ \A i, j \in 1..n : freeList[i] = freeList[j] => i = j
        /\ {freeList[i] : i \in 1..n} = Sessions \ active
    BY <2>1 DEF IInv, FreeListed
  <2>. HIDE DEF n
  <2>3. \A i \in 1..(n + 1) : i \in 1..n \/ i = n + 1
    BY <2>1
  <2>4. (\A i \in 1..n : i \in 1..(n + 1)) /\ n + 1 \in 1..(n + 1)
    BY <2>1
  <2>5. \A i \in 1..n : freeList[i] # s
    BY <1>4, <2>2
  <2>6. \A i, j \in 1..(n + 1) : freeList'[i] = freeList'[j] => i = j
    BY <2>1, <2>2, <2>3, <2>5
  <2>7. {freeList'[i] : i \in 1..(n + 1)} = {freeList[i] : i \in 1..n} \cup {s}
    BY <2>1, <2>3, <2>4
  <2>8. {freeList'[i] : i \in 1..(n + 1)} = Sessions \ active'
    BY <1>5, <2>2, <2>7
  <2>. QED  BY <2>1, <2>6, <2>8 DEF FreeListed
<1>10. ASSUME NEW r \in Sessions
       PROVE  /\ refCount'[r] = RefsOut(r)'
              /\ ClosingSteps(r)' <= 1
              /\ ClosingSteps(r)' = 1 => r \in active' /\ ~connected'[r] /\ refCount'[r] = 0
              /\ r \notin active' => ~connected'[r] /\ refCount'[r] = 0
  <2>1. /\ Waiting(RefFrame(r))' = Waiting(RefFrame(r))
        /\ Waiting(AddFrame(r))' = Waiting(AddFrame(r))
        /\ Waiting(EndFrame(r))' = Waiting(EndFrame(r)) - (IF r = s THEN 1 ELSE 0)
    BY <1>2, CountedFrames, SessionFacts
  <2>2. /\ connected' = connected /\ refCount' = refCount /\ Held(r)' = Held(r)
        /\ Listed(r)' = Listed(r)
    BY <1>1 DEF Held, Listed, connVars, ioVars
  <2>3. ClosingSteps(r)' = Waiting(AddFrame(r))' + Listed(r)' + Waiting(EndFrame(r))'
    BY DEF ClosingSteps, AddFrame, EndFrame
  <2>4. ClosingSteps(r)' = ClosingSteps(r) - (IF r = s THEN 1 ELSE 0)
    BY <2>1, <2>2, <2>3, SessionFacts
  <2>5. refCount'[r] = RefsOut(r)'
    BY <2>1, <2>2, RefsOutParts, SessionFacts
  <2>6. CASE r = s
    BY <1>4, <2>2, <2>4, <2>5, <2>6
  <2>7. CASE r # s
    <3>1. ClosingSteps(r)' = ClosingSteps(r) /\ (r \in active' <=> r \in active)
      BY <1>5, <2>4, <2>7, SessionFacts
    <3>. QED  BY <2>2, <2>5, <3>1, SessionFacts
  <2>. QED  BY <2>6, <2>7
<1>. QED  BY <1>8, <1>9, <1>10 DEF IInv, RefCountExact, ClosingOnce, FreeIsQuiet

\* AllocateSession: a session that is free starts a new life with one
\* reference, or gets a socket and nothing else.
LEMMA AllocateSessionKeeps ==
    ASSUME IInv, NEW t \in Allocators, NEW s \in Sessions, AllocateSession(t, s)
    PROVE  IInv'
<1> DEFINE k == <<Frame("PostRecv", s), Frame("OnAccept", s)>>
           n == Len(freeList)
<1>1. /\ Begin(t, k) /\ t \in Threads /\ k \in Plain
      /\ stack \in [Threads -> Seq(Frames)]
  BY NetworkAssumption, PlainContinuations, UncountedOps DEF AllocateSession, IInv, TypeOK
<1>. HIDE DEF k
<1>2. StackType' /\ \A r \in Sessions : CountsKept(r)
  BY <1>1, PlainCounts DEF StackType
<1>3. /\ n \in Nat /\ n > 0 /\ freeList \in Seq(Sessions) /\ DOMAIN freeList = 1..n
      /\ freeList' \in Seq(Sessions) /\ DOMAIN freeList' = 1..(n - 1)
      /\ \A i \in 1..(n - 1) : freeList'[i] = freeList[i + 1]
      /\ freeList[1] = s
  <2>1. freeList \in Seq(Sessions) /\ freeList # <<>> /\ freeList' = Tail(freeList)
        /\ s = Head(freeList)
    BY DEF AllocateSession, IInv, TypeOK
  <2>. QED  BY <2>1, HeadTailProperties, LenProperties, EmptySeq
<1>. HIDE DEF n
<1>4. /\ \A i, j \in 1..n : freeList[i] = freeList[j] => i = j
      /\ {freeList[i] : i \in 1..n} = Sessions \ active
  BY <1>3 DEF IInv, FreeListed
<1>5. s \notin active
  <2>1. 1 \in 1..n
    BY <1>3
  <2>. QED  BY <1>3, <1>4, <2>1
<1>6. /\ ClosingSteps(s) = 0 /\ ~connected[s] /\ refCount[s] = 0
      /\ Held(s) = 0 /\ Waiting(RefFrame(s)) = 0
  BY <1>5, SessionFacts
<1>7. /\ active' = active \cup {s} /\ closingList' = closingList /\ UNCHANGED ioVars
      /\ sessionCount' = sessionCount
  BY DEF AllocateSession
<1>8. SlotTypes'
  <2>1. SlotTypes /\ 1 \in Nat /\ 0 \in 0..MaxPackets
    BY SessionAssumption DEF IInv, TypeOK, SlotTypes
  <2>2. CASE UNCHANGED <<connected, refCount, flagVars, bufVars>>
    BY <1>7, <2>1, <2>2 DEF SlotTypes, AllocateSession, Attach, ioVars, flagVars, bufVars
  <2>3. CASE /\ socketOpen' = [socketOpen EXCEPT ![s] = TRUE]
             /\ connected' = [connected EXCEPT ![s] = TRUE]
             /\ refCount' = [refCount EXCEPT ![s] = 1]
             /\ recvPending' = [recvPending EXCEPT ![s] = FALSE]
             /\ sendPending' = [sendPending EXCEPT ![s] = FALSE]
             /\ procPending' = [procPending EXCEPT ![s] = FALSE]
             /\ packets' = [packets EXCEPT ![s] = 0]
             /\ sendData' = [sendData EXCEPT ![s] = FALSE]
    BY <1>7, <2>1, <2>3 DEF SlotTypes, ioVars
  <2>. QED  BY <2>2, <2>3 DEF AllocateSession, Attach
<1>9. TypeOK'
  <2>1. /\ countPerThread \in [IoThreads -> Int] /\ threadOf \in [Sessions -> IoThreads]
        /\ sessionCount \in Int /\ active \subseteq Sessions /\ closingList \in Seq(Sessions)
    BY DEF IInv, TypeOK
  <2>2. PICK i \in IoThreads :
           /\ threadOf' = [threadOf EXCEPT ![s] = i]
           /\ countPerThread' = [countPerThread EXCEPT ![i] = @ + 1]
    BY DEF AllocateSession, LeastLoaded
  <2>3. /\ countPerThread' \in [IoThreads -> Int] /\ threadOf' \in [Sessions -> IoThreads]
        /\ sessionCount' \in Int /\ active' \in SUBSET Sessions
        /\ closingList' \in Seq(Sessions)
    BY <1>7, <2>1, <2>2
  <2>4. PortTypeOK'
    <3>1. /\ associating' = {<<t, s>>} /\ lostRecv' = lostRecv /\ lostSend' = lostSend
      BY DEF AllocateSession
    <3>2. PortTypeOK
      BY DEF IInv, TypeOK
    <3>. QED  BY <3>1, <3>2 DEF PortTypeOK
  <2>. QED  BY <1>2, <1>3, <1>8, <2>3, <2>4 DEF TypeOK, SlotTypes, StackType
<1>10. FreeListed'
  <2>1. \A i \in 1..(n - 1) : i + 1 \in 1..n /\ i + 1 # 1
    BY <1>3
  <2>2. \A j \in 1..n : j = 1 \/ (j - 1 \in 1..(n - 1) /\ (j - 1) + 1 = j)
    BY <1>3
  <2>3. \A i, j \in 1..(n - 1) : freeList'[i] = freeList'[j] => i = j
    <3>1. ASSUME NEW i \in 1..(n - 1), NEW j \in 1..(n - 1), freeList'[i] = freeList'[j]
          PROVE  i = j
      <4>1. i + 1 = j + 1
        BY <1>3, <1>4, <2>1, <3>1
      <4>. QED  BY <1>3, <4>1
    <3>. QED  BY <3>1
  <2>4. {freeList'[i] : i \in 1..(n - 1)} = {freeList[i] : i \in 1..n} \ {s}
    <3>1. ASSUME NEW i \in 1..(n - 1)
          PROVE  freeList'[i] \in {freeList[j] : j \in 1..n} \ {s}
      <4>1. 1 \in 1..n
        BY <1>3
      <4>2. freeList'[i] = freeList[i + 1] /\ i + 1 \in 1..n /\ freeList[i + 1] # freeList[1]
        BY <1>3, <1>4, <2>1, <4>1
      <4>. QED  BY <1>3, <4>2
    <3>2. ASSUME NEW j \in 1..n, freeList[j] # s
          PROVE  \E i \in 1..(n - 1) : freeList'[i] = freeList[j]
      <4>1. j # 1
        BY <1>3, <3>2
      <4>2. j - 1 \in 1..(n - 1) /\ (j - 1) + 1 = j
        BY <2>2, <4>1
      <4>3. freeList'[j - 1] = freeList[(j - 1) + 1]
        BY <1>3, <4>2
      <4>. QED  BY <4>2, <4>3
    <3>. QED  BY <3>1, <3>2
  <2>5. {freeList'[i] : i \in 1..(n - 1)} = Sessions \ active'
    BY <1>4, <1>7, <2>4
  <2>. QED  BY <1>3, <2>3, <2>5 DEF FreeListed
<1>11. /\ \A r \in Sessions \ {s} : connected'[r] = connected[r] /\ refCount'[r] = refCount[r]
       /\ refCount'[s] = (IF connected'[s] THEN 1 ELSE 0)
  <2>1. connected \in [Sessions -> BOOLEAN] /\ refCount \in [Sessions -> Nat]
    BY DEF IInv, TypeOK
  <2>. QED  BY <1>6, <2>1 DEF AllocateSession, Attach
<1>12. ASSUME NEW r \in Sessions
       PROVE  /\ refCount'[r] = RefsOut(r)'
              /\ ClosingSteps(r)' <= 1
              /\ ClosingSteps(r)' = 1 => r \in active' /\ ~connected'[r] /\ refCount'[r] = 0
              /\ r \notin active' => ~connected'[r] /\ refCount'[r] = 0
  <2>1. /\ Waiting(RefFrame(r))' = Waiting(RefFrame(r))
        /\ Waiting(AddFrame(r))' = Waiting(AddFrame(r))
        /\ Waiting(EndFrame(r))' = Waiting(EndFrame(r))
    BY <1>2 DEF CountsKept
  <2>2. ClosingSteps(r)' = ClosingSteps(r)
    <3>1. Listed(r)' = Listed(r)
      BY <1>7 DEF Listed
    <3>. QED  BY <2>1, <3>1 DEF ClosingSteps, AddFrame, EndFrame
  <2>3. CASE r = s
    <3>1. recvIO[s] = 0 /\ sendIO[s] = 0 /\ procQ[s] = 0
      BY <1>6, CountTypes DEF Held, IInv
    <3>2. Held(s)' = refCount'[s]
      BY <1>7, <1>11, <3>1 DEF Held, ioVars
    <3>3. refCount'[s] = 1 \/ refCount'[s] = 0
      BY <1>11
    <3>4. refCount'[s] = RefsOut(s)'
      BY <1>6, <2>1, <2>3, <3>2, <3>3, RefsOutParts
    <3>. QED  BY <1>6, <1>7, <2>2, <2>3, <3>4
  <2>4. CASE r # s
    <3>1. /\ refCount'[r] = refCount[r] /\ connected'[r] = connected[r]
          /\ (r \in active' <=> r \in active)
      BY <1>7, <1>11, <2>4
    <3>2. Held(r)' = Held(r)
      BY <1>7, <3>1 DEF Held, ioVars
    <3>3. refCount'[r] = RefsOut(r)'
      BY <2>1, <3>1, <3>2, RefsOutParts, SessionFacts
    <3>4. /\ ClosingSteps(r) = 0 \/ ClosingSteps(r) = 1
          /\ ClosingSteps(r) = 1 => r \in active /\ ~connected[r] /\ refCount[r] = 0
          /\ r \notin active => ~connected[r] /\ refCount[r] = 0
      BY SessionFacts
    <3>. QED  BY <2>2, <3>1, <3>3, <3>4
  <2>. QED  BY <2>3, <2>4
<1>. QED  BY <1>9, <1>10, <1>12 DEF IInv, RefCountExact, ClosingOnce, FreeIsQuiet

\* What the second half of AllocateSession and the kernel do without a worker
\* changes nothing but m_SessionCount and what is known of lost completions.
LEMMA PortSteps ==
    ASSUME NEW t, NEW s, Associate(t, s) \/ CompleteUnqueued(s)
    PROVE  UNCHANGED <<sessionVars, freeList, active, threadOf, countPerThread, closingList>>
BY DEF Associate, CompleteUnqueued, poolVars

\* Such a step keeps the invariant.
LEMMA PortKeeps ==
    ASSUME IInv, NEW t \in Allocators, NEW s \in Sessions,
           Associate(t, s) \/ CompleteUnqueued(s)
    PROVE  IInv'
<1>1. UNCHANGED <<sessionVars, freeList, active, threadOf, countPerThread, closingList>>
  BY PortSteps
<1>2. PortTypeOK' /\ sessionCount' \in Int
  <2>1. /\ PortTypeOK /\ sessionCount \in Int
        /\ recvIO \in [Sessions -> Nat] /\ sendIO \in [Sessions -> Nat]
    BY DEF IInv, TypeOK
  <2>2. CASE Associate(t, s)
    <3>1. associating' \in {{}} /\ sessionCount' \in Int
      BY <2>1, <2>2 DEF Associate
    <3>2. lostRecv' \in [Sessions -> Nat] /\ lostSend' \in [Sessions -> Nat]
      BY <2>1, <2>2 DEF Associate, PortTypeOK
    <3>. QED  BY <3>1, <3>2 DEF PortTypeOK
  <2>3. CASE CompleteUnqueued(s)
    <3>1. PICK n \in lostRecv[s]..recvIO[s] : lostRecv' = [lostRecv EXCEPT ![s] = n]
      BY <2>3 DEF CompleteUnqueued
    <3>2. PICK m \in lostSend[s]..sendIO[s] : lostSend' = [lostSend EXCEPT ![s] = m]
      BY <2>3 DEF CompleteUnqueued
    <3>3. n \in Nat /\ m \in Nat
      BY <2>1, <3>1, <3>2 DEF PortTypeOK
    <3>. QED  BY <2>1, <2>3, <3>1, <3>2, <3>3 DEF CompleteUnqueued, PortTypeOK, poolVars
  <2>. QED  BY <2>2, <2>3
<1>3. TypeOK'
  BY <1>1, <1>2 DEF IInv, TypeOK, sessionVars, connVars, flagVars, ioVars, bufVars
<1>4. \A f : Waiting(f)' = Waiting(f)
  BY <1>1 DEF Waiting, Holders, sessionVars
<1>5. \A r \in Sessions : Listed(r)' = Listed(r)
  BY <1>1 DEF Listed
<1>6. UNCHANGED <<connected, refCount, recvIO, sendIO, procQ, active>>
  BY <1>1 DEF sessionVars, connVars, ioVars
<1>7. RefCountExact'
  BY <1>4, <1>6 DEF IInv, RefCountExact, RefsOut
<1>8. \A r \in Sessions : ClosingSteps(r)' = ClosingSteps(r)
  BY <1>4, <1>5 DEF ClosingSteps
<1>9. ClosingOnce' /\ FreeIsQuiet'
  BY <1>6, <1>8 DEF IInv, ClosingOnce, FreeIsQuiet
<1>10. FreeListed'
  BY <1>1 DEF IInv, FreeListed
<1>. QED  BY <1>3, <1>7, <1>9, <1>10 DEF IInv

------------------------------------------------------------------------------
(* The theorems                                                            *)

\* Initially every stack is empty, every session is free and nothing is counted.
LEMMA InitIInv == Init => IInv
<1> SUFFICES ASSUME Init PROVE IInv
  OBVIOUS
<1>1. \A f : Waiting(f) = 0
  <2>1. ASSUME NEW f PROVE Holders(f) = {}
    <3>1. \A t \in Threads : {i \in DOMAIN stack[t] : stack[t][i] = f} = {}
      BY DEF Init, SessionInit
    <3>. QED  BY <3>1 DEF Holders
  <2>2. Cardinality({}) = 0
    BY FS_EmptySet
  <2>. QED  BY <2>1, <2>2 DEF Waiting
<1>2. \A s : Listed(s) = 0
  <2>1. ASSUME NEW s PROVE {i \in DOMAIN closingList : closingList[i] = s} = {}
    BY DEF Init, NetworkInit
  <2>2. Cardinality({}) = 0
    BY FS_EmptySet
  <2>. QED  BY <2>1, <2>2 DEF Listed
<1>3. Cardinality(Sessions) \in Nat
  BY SessionAssumption, FS_CardinalityType
<1>4. freeList \in Seq(Sessions) /\ DOMAIN freeList = 1..Cardinality(Sessions)
      /\ {freeList[i] : i \in DOMAIN freeList} = Sessions
  <2> DEFINE n == Cardinality(Sessions)
  <2>1. freeList \in [1..n -> Sessions] /\ {freeList[i] : i \in DOMAIN freeList} = Sessions
    BY DEF Init, NetworkInit
  <2>. HIDE DEF n
  <2>2. n \in Nat
    BY <1>3 DEF n
  <2>3. freeList \in Seq(Sessions)
    BY <2>1, <2>2, SeqDef
  <2>. QED  BY <2>1, <2>3 DEF n
<1>5. TypeOK
  <2>1. SlotTypes
    BY SessionAssumption DEF Init, SessionInit, SlotTypes
  <2>2. StackType
    BY EmptySeq DEF Init, SessionInit, StackType
  <2>3. closingList \in Seq(Sessions)
    BY EmptySeq DEF Init, NetworkInit
  <2>4. PortTypeOK
    BY DEF Init, NetworkInit, PortTypeOK
  <2>. QED  BY <1>4, <2>1, <2>2, <2>3, <2>4 DEF TypeOK, SlotTypes, StackType, Init, NetworkInit
<1>6. FreeListed
  <2>1. \A i, j \in DOMAIN freeList : freeList[i] = freeList[j] => i = j
    <3> DEFINE n == Cardinality(Sessions)
    <3>1. freeList \in [1..n -> Sessions] /\ {freeList[i] : i \in DOMAIN freeList} = Sessions
      BY DEF Init, NetworkInit
    <3>2. freeList \in Surjection(1..n, Sessions)
      BY <3>1 DEF Surjection
    <3>3. IsFiniteSet(1..n) /\ Cardinality(1..n) = n
      BY <1>3, FS_Interval
    <3>4. Cardinality(Sessions) = n
      OBVIOUS
    <3>. HIDE DEF n
    <3>5. freeList \in Injection(1..n, Sessions)
      BY <3>2, <3>3, <3>4, FS_Surjection
    <3>. QED  BY <3>1, <3>5 DEF Injection, IsInjective
  <2>. QED  BY <1>4, <2>1 DEF FreeListed, Init, NetworkInit
<1>7. \A s \in Sessions : RefsOut(s) = 0 /\ ClosingSteps(s) = 0
  BY <1>1, <1>2 DEF RefsOut, ClosingSteps, Init, SessionInit
<1>8. \A s \in Sessions : ~connected[s] /\ refCount[s] = 0
  BY DEF Init, SessionInit
<1>. QED  BY <1>5, <1>6, <1>7, <1>8 DEF IInv, RefCountExact, ClosingOnce, FreeIsQuiet

\* Every step of every thread keeps the invariant.
LEMMA NextIInv == IInv /\ [Next]_vars => IInv'
<1> SUFFICES ASSUME IInv, [Next]_vars PROVE IInv'
  OBVIOUS
<1>1. CASE UNCHANGED vars
  <2>1. \A f : Waiting(f)' = Waiting(f)
    BY <1>1 DEF Waiting, Holders, vars, sessionVars
  <2>2. /\ UNCHANGED <<connVars, refCount, flagVars, ioVars, bufVars, stack>>
        /\ UNCHANGED <<poolVars, closingList, portVars>>
    BY <1>1 DEF vars, sessionVars, networkVars
  <2>3. StackType' /\ closingList' \in Seq(Sessions)
    BY <2>2 DEF IInv, TypeOK, StackType
  <2>4. \A r \in Sessions : ClosingSteps(r)' = ClosingSteps(r)
    <3>1. \A r \in Sessions : Listed(r)' = Listed(r)
      BY <2>2 DEF Listed
    <3>. QED  BY <2>1, <3>1 DEF ClosingSteps
  <2>. QED  BY <2>1, <2>2, <2>3, <2>4, ClosingStep
<1>2. ASSUME NEW s \in Sessions, NEW t \in Threads, Run(t, s) PROVE IInv'
  <2>1. CASE SessionStep(t, s) /\ UNCHANGED networkVars
    BY <2>1, DisconnectKeeps, ReleaseRefKeeps, CloseKeeps, CallbackKeeps, PostRecvKeeps,
       PostRecvLockedKeeps, UnlockRecvKeeps, CompletedRecvKeeps, PostProcessKeeps, TryProcKeeps,
       PostProcessLockedKeeps, ProcessCompletionKeeps, UnlockProcKeeps, ProcessPacketKeeps,
       SendKeeps, SendBufferedKeeps, FlushKeeps, TrySendKeeps, SendLockedKeeps, UnlockSendKeeps,
       CompletedSendKeeps DEF SessionStep
  <2>. QED  BY <1>2, <2>1, AddClosingKeeps, ReleaseSessionKeeps DEF Run
<1>3. ASSUME NEW s \in Sessions, NEW t \in Allocators, AllocateSession(t, s) PROVE IInv'
  BY <1>3, AllocateSessionKeeps
<1>4. ASSUME NEW s \in Sessions, NEW t \in IoThreads, IoDequeue(t, s) PROVE IInv'
  BY <1>4, IoDequeueKeeps
<1>5. ASSUME NEW s \in Sessions, NEW t \in ProcThreads, DequeueProcess(t, s) PROVE IInv'
  BY <1>5, DequeueProcessKeeps
<1>6. ASSUME NEW s \in Sessions, NEW t \in AppThreads, AppCall(t, s) PROVE IInv'
  BY <1>6, AppCallKeeps
<1>7. ASSUME NEW s \in Sessions, TakeClosing(s) PROVE IInv'
  BY <1>7, TakeClosingKeeps
<1>8. ASSUME NEW s \in Sessions, NEW t \in Allocators, Associate(t, s) PROVE IInv'
  BY <1>8, PortKeeps
<1>9. ASSUME NEW s \in Sessions, CompleteUnqueued(s) PROVE IInv'
  BY <1>9, PortKeeps DEF CompleteUnqueued, Associating
<1>. QED  BY <1>1, <1>2, <1>3, <1>4, <1>5, <1>6, <1>7, <1>8, <1>9 DEF Next

\* The invariant holds in every reachable state.
THEOREM Invariance == Spec => []IInv
BY InitIInv, NextIInv, PTL DEF Spec

\* The variables keep their types: no reference count, and no number of
\* outstanding operations, ever drops below zero.
THEOREM TypeCorrect == Spec => []TypeOK
<1>1. IInv => TypeOK
  BY DEF IInv
<1>. QED  BY <1>1, Invariance, PTL

\* m_RefCount counts exactly the references that somebody will give back,
\* whatever threads do with a session between AddRef and ReleaseRef.
THEOREM RefCountIsExact == Spec => []RefCountExact
<1>1. IInv => RefCountExact
  BY DEF IInv
<1>. QED  BY <1>1, Invariance, PTL

\* A session goes through the closing thread once per incarnation, while it is
\* active, disconnected and unreferenced: AddClosingSession's and
\* ReleaseSession's assertions hold.
THEOREM ClosedOnce == Spec => []ClosingOnce
<1>1. IInv => ClosingOnce
  BY DEF IInv
<1>. QED  BY <1>1, Invariance, PTL

------------------------------------------------------------------------------
(***************************************************************************)
(* What the stacks of the threads look like while handlers call handlers:  *)
(* which of them run under a reference, which are always followed by       *)
(* another look at the buffers.  From this and the exact reference count:  *)
(* a session that is being closed is quiescent.                            *)
(***************************************************************************)

(* The shape of a stack                                                    *)

\* Handlers that only run above a ReleaseRef of the same session.
Guarded == {"CompletedRecv", "CompletedSend", "ProcessCompletion", "UnlockProc",
            "PostProcess", "TryProc", "PostProcessLocked"}
               \cup (IF OwnMode THEN {"OnDispatch"} ELSE {})

\* The handlers of m_ProcPending, and those of them that have it locked across calls.
Looping == {"ProcessCompletion", "UnlockProc"}
ProcOps == Looping \cup {"PostProcess", "TryProc", "PostProcessLocked"}

\* The handlers that the shape speaks of.
Marked == Guarded \cup {"OnDispatch", "OnClose", "Close", "AddClosing", "ReleaseSession"}

Rests(q, i) == q[i].op \in Guarded => 1 < i /\ q[1] = RefFrame(q[i].on)
Ends(q, i) == q[i].op \in {"OnClose", "Close"} => 1 < i /\ q[1] = EndFrame(q[i].on)
OnTop(q, i) == q[i].op \in {"TryProc", "PostProcessLocked", "OnDispatch"} => i = Len(q)
Below(q, i, op) == \E j \in 1..(i - 1) : q[j] = Frame(op, q[i].on)
Looks(q, i) ==
    /\ q[i].op = "UnlockProc" => Below(q, i, "PostProcess")
    /\ q[i].op = "CompletedRecv" => Below(q, i, "PostRecv")
    /\ OwnMode /\ q[i].op = "CompletedRecv" => Below(q, i, "PostProcess")
Loops(q) == \A i, j \in 1..Len(q) :
                q[i].op \in Looping /\ q[j].op \in ProcOps /\ i <= j => i = j

Shape(q) ==
    /\ \A i \in 1..Len(q) : Rests(q, i) /\ Ends(q, i) /\ OnTop(q, i) /\ Looks(q, i)
    /\ Loops(q)

\* A closing session has closed its socket; an active one that is neither
\* connected nor closing is the one whose Attach has failed.
SocketInv ==
    /\ \A s \in Sessions : connected[s] => socketOpen[s]
    /\ \A s \in Sessions : socketOpen[s] /\ ~connected[s] => s \in active /\ refCount[s] = 0
    /\ \A t \in Threads : \A i \in 1..Len(stack[t]) :
          stack[t][i].op \in {"AddClosing", "ReleaseSession"} => ~socketOpen[stack[t][i].on]
    /\ \A i \in 1..Len(closingList) : ~socketOpen[closingList[i]]

Shaped == \A t \in Threads : Shape(stack[t])

HInv == IInv /\ Shaped /\ SocketInv

\* Continuations of unmarked frames, and those that fit on the place of frame f.
Dull == {k \in Seq(Frames) : \A j \in 1..Len(k) : k[j].op \notin Marked}

Fits(f, k) ==
    /\ \A j \in 1..Len(k) :
          /\ k[j].op \in Guarded => f.op \in Guarded /\ k[j].on = f.on
          /\ k[j].op \notin {"OnClose", "Close", "CompletedRecv"}
          /\ OnTop(k, j)
          /\ k[j].op = "UnlockProc" => Below(k, j, "PostProcess")
          /\ k[j].op \in ProcOps => f.op \in ProcOps
    /\ Loops(k)

\* Unmarked frames fit everywhere.
LEMMA DullFits ==
    ASSUME NEW k \in Dull, NEW f
    PROVE  Fits(f, k)
BY DEF Dull, Fits, Marked, Guarded, OnTop, Loops, Looping, ProcOps

\* A frame of the new stack is an old one, in its place, or one of k.
LEMMA ReplacedFrames ==
    ASSUME NEW k \in Seq(Frames), NEW t \in Threads, NEW n, Replaced(t, n, k)
    PROVE  /\ n \in Nat /\ n > 0 /\ Len(k) \in Nat /\ Len(stack'[t]) = n - 1 + Len(k)
           /\ \A i \in 1..Len(stack'[t]) :
                 \/ i \in 1..(n - 1) /\ stack'[t][i] = stack[t][i]
                 \/ \E j \in 1..Len(k) : i = n - 1 + j /\ stack'[t][i] = k[j]
<1>1. /\ n \in Nat /\ n > 0 /\ Len(k) \in Nat /\ Len(stack'[t]) = n - 1 + Len(k)
      /\ \A i \in 1..(n - 1) : stack'[t][i] = stack[t][i]
      /\ \A i \in 1..Len(k) : stack'[t][n - 1 + i] = k[i]
  BY LenProperties DEF Replaced
<1>2. ASSUME NEW i \in 1..Len(stack'[t]), i \notin 1..(n - 1)
      PROVE  \E j \in 1..Len(k) : i = n - 1 + j /\ stack'[t][i] = k[j]
  <2>1. i - (n - 1) \in 1..Len(k) /\ i = n - 1 + (i - (n - 1))
    BY <1>1, <1>2
  <2>. QED  BY <1>1, <2>1
<1>. QED  BY <1>1, <1>2

\* A thread that goes on with frames that fit keeps the shape of its stack.
LEMMA ShapeStep ==
    ASSUME Shaped, NEW t \in Threads, NEW k \in Seq(Frames), NEW n,
           Replaced(t, n, k), Len(stack[t]) = n, Fits(stack[t][n], k)
    PROVE  Shaped'
<1> DEFINE q == stack[t]
           r == stack'[t]
<1>1. /\ n \in Nat /\ n > 0 /\ Len(k) \in Nat /\ Len(r) = n - 1 + Len(k)
      /\ \A i \in 1..Len(r) :
            \/ i \in 1..(n - 1) /\ r[i] = q[i]
            \/ \E j \in 1..Len(k) : i = n - 1 + j /\ r[i] = k[j]
  BY ReplacedFrames
<1>2. /\ \A i \in 1..(n - 1) : r[i] = q[i]
      /\ \A j \in 1..Len(k) : r[n - 1 + j] = k[j]
  BY DEF Replaced
<1>3. /\ \A i \in 1..n : Rests(q, i) /\ Ends(q, i) /\ OnTop(q, i) /\ Looks(q, i)
      /\ Loops(q) /\ Len(q) = n
  BY DEF Shaped, Shape
<1>4. Fits(q[n], k)
  OBVIOUS
<1>. HIDE DEF q, r
<1>5. ASSUME NEW i \in 1..Len(r) PROVE Rests(r, i)
  <2>1. CASE i \in 1..(n - 1) /\ r[i] = q[i]
    BY <1>1, <1>2, <1>3, <2>1 DEF Rests
  <2>2. ASSUME NEW j \in 1..Len(k), i = n - 1 + j, r[i] = k[j] PROVE Rests(r, i)
    <3>1. k[j].op \in Guarded => q[n].op \in Guarded /\ k[j].on = q[n].on
      BY <1>4 DEF Fits
    <3>2. n \in 1..n /\ Rests(q, n)
      BY <1>1, <1>3
    <3>. QED  BY <1>1, <1>2, <2>2, <3>1, <3>2 DEF Rests
  <2>. QED  BY <1>1, <2>1, <2>2
<1>6. ASSUME NEW i \in 1..Len(r) PROVE Ends(r, i)
  <2>1. CASE i \in 1..(n - 1) /\ r[i] = q[i]
    <3>1. i \in 1..n /\ (1 < i => 1 \in 1..(n - 1))
      BY <1>1, <2>1
    <3>. QED  BY <1>2, <1>3, <2>1, <3>1 DEF Ends
  <2>2. CASE \E j \in 1..Len(k) : i = n - 1 + j /\ r[i] = k[j]
    BY <1>4, <2>2 DEF Ends, Fits
  <2>. QED  BY <1>1, <2>1, <2>2
<1>7. ASSUME NEW i \in 1..Len(r) PROVE OnTop(r, i)
  <2>1. CASE i \in 1..(n - 1) /\ r[i] = q[i]
    BY <1>1, <1>3, <2>1 DEF OnTop
  <2>2. ASSUME NEW j \in 1..Len(k), i = n - 1 + j, r[i] = k[j] PROVE OnTop(r, i)
    BY <1>1, <1>4, <2>2 DEF OnTop, Fits
  <2>. QED  BY <1>1, <2>1, <2>2
<1>8. ASSUME NEW i \in 1..Len(r) PROVE Looks(r, i)
  <2>1. CASE i \in 1..(n - 1) /\ r[i] = q[i]
    <3>1. \A op : Below(q, i, op) => Below(r, i, op)
      <4>1. \A j \in 1..(i - 1) : r[j] = q[j]
        BY <1>1, <1>2, <2>1
      <4>. QED  BY <2>1, <4>1 DEF Below
    <3>2. Looks(q, i)
      BY <1>1, <1>3, <2>1
    <3>. QED  BY <2>1, <3>1, <3>2 DEF Looks
  <2>2. ASSUME NEW j \in 1..Len(k), i = n - 1 + j, r[i] = k[j] PROVE Looks(r, i)
    <3>1. k[j].op # "CompletedRecv" /\ (k[j].op = "UnlockProc" => Below(k, j, "PostProcess"))
      BY <1>4 DEF Fits
    <3>2. ASSUME NEW m \in 1..(j - 1) PROVE n - 1 + m \in 1..(i - 1) /\ r[n - 1 + m] = k[m]
      BY <1>1, <1>2, <2>2
    <3>3. Below(k, j, "PostProcess") => Below(r, i, "PostProcess")
      BY <2>2, <3>2 DEF Below
    <3>. QED  BY <2>2, <3>1, <3>3 DEF Looks
  <2>. QED  BY <1>1, <2>1, <2>2
<1>9. Loops(r)
  <2> SUFFICES ASSUME NEW i \in 1..Len(r), NEW j \in 1..Len(r),
                      r[i].op \in Looping, r[j].op \in ProcOps, i <= j
               PROVE  i = j
    BY DEF Loops
  <2>1. CASE j \in 1..(n - 1) /\ r[j] = q[j]
    <3>1. i \in 1..(n - 1) /\ r[i] = q[i]
      BY <1>1, <1>2, <2>1
    <3>. QED  BY <1>1, <1>3, <2>1, <3>1 DEF Loops
  <2>2. ASSUME NEW m \in 1..Len(k), j = n - 1 + m, r[j] = k[m] PROVE i = j
    <3>1. q[n].op \in ProcOps
      BY <1>4, <2>2 DEF Fits
    <3>2. i \notin 1..(n - 1)
      <4>1. SUFFICES ASSUME i \in 1..(n - 1) PROVE FALSE
        OBVIOUS
      <4>2. i \in 1..n /\ n \in 1..n /\ i <= n /\ i # n /\ q[i].op \in Looping
        BY <1>1, <1>2, <4>1
      <4>. QED  BY <1>3, <3>1, <4>2 DEF Loops
    <3>3. PICK l \in 1..Len(k) : i = n - 1 + l /\ r[i] = k[l]
      BY <1>1, <3>2
    <3>4. l <= m
      BY <1>1, <2>2, <3>3
    <3>. QED  BY <1>4, <2>2, <3>3, <3>4 DEF Fits, Loops
  <2>. QED  BY <1>1, <2>1, <2>2
<1>10. Shape(r)
  BY <1>5, <1>6, <1>7, <1>8, <1>9 DEF Shape
<1>11. ASSUME NEW u \in Threads PROVE Shape(stack'[u])
  <2>1. CASE u = t
    BY <1>10, <2>1 DEF r
  <2>2. CASE u # t
    <3>1. stack'[u] = stack[u]
      BY <2>2 DEF Replaced
    <3>. QED  BY <3>1 DEF Shaped
  <2>. QED  BY <2>1, <2>2
<1>. QED  BY <1>11 DEF Shaped

\* Going on from frame f with frames that fit keeps the shape of all stacks.
LEMMA ShapeContinue ==
    ASSUME StackType, Shaped, NEW t \in Threads, NEW k \in Seq(Frames),
           stack[t] # <<>>, Continue(t, k), Fits(Top(t), k)
    PROVE  Shaped' /\ Replaced(t, Len(stack[t]), k) /\ Len(stack[t]) \in Nat
<1>1. Replaced(t, Len(stack[t]), k)
  BY ContinueReplaces DEF StackType
<1>2. Fits(stack[t][Len(stack[t])], k)
  BY DEF Top
<1>3. Len(stack[t]) \in Nat
  BY LenProperties DEF StackType
<1>. QED  BY <1>1, <1>2, <1>3, ShapeStep

\* Beginning frames of the right shape keeps it.
LEMMA ShapeBegin ==
    ASSUME StackType, Shaped, NEW t \in Threads, NEW k \in Seq(Frames),
           Begin(t, k), Shape(k)
    PROVE  Shaped' /\ Replaced(t, 1, k)
<1>1. Replaced(t, 1, k)
  BY BeginReplaces DEF StackType
<1>2. stack'[t] = k /\ \A u \in Threads \ {t} : stack'[u] = stack[u]
  BY DEF Begin, StackType
<1>. QED  BY <1>1, <1>2 DEF Shaped

\* Unmarked frames may begin a stack.
LEMMA DullShape ==
    ASSUME NEW k \in Dull
    PROVE  k \in Seq(Frames) /\ Shape(k)
<1>1. k \in Seq(Frames) /\ \A j \in 1..Len(k) : k[j].op \notin Marked
  BY DEF Dull
<1>2. \A op \in Guarded \cup Looping \cup ProcOps \cup {"OnDispatch", "OnClose", "Close"} : op \in Marked
  BY DEF Marked, Guarded, Looping, ProcOps
<1>3. {"TryProc", "PostProcessLocked", "UnlockProc", "CompletedRecv"} \subseteq Guarded
  BY DEF Guarded
<1>. QED  BY <1>1, <1>2, <1>3 DEF Shape, Rests, Ends, OnTop, Looks, Loops

\* The handlers that the shape does not speak of.
LEMMA UnmarkedOps ==
    /\ ApiCalls \subseteq Ops \ Marked
    /\ {"OnAccept", "PostRecv", "PostRecvLocked", "UnlockRecv", "TrySend", "SendLocked",
        "UnlockSend", "ReleaseRef",
        "Send", "SendBuffered", "Flush", "Disconnect", "ProcessPacket"} \subseteq Ops \ Marked
BY DEF Ops, ApiCalls, Marked, Guarded

\* Short continuations of unmarked frames are dull.
LEMMA DullContinuations ==
    ASSUME NEW s \in Sessions
    PROVE  /\ <<>> \in Dull
           /\ \A a \in Ops \ Marked : <<Frame(a, s)>> \in Dull
           /\ \A a, b \in Ops \ Marked : <<Frame(a, s), Frame(b, s)>> \in Dull
           /\ \A a, b, c \in Ops \ Marked :
                 <<Frame(a, s), Frame(b, s), Frame(c, s)>> \in Dull
<1>1. \A a \in Ops \ Marked : Frame(a, s) \in Frames /\ Frame(a, s).op \notin Marked
  BY FrameFields
<1>. QED  BY <1>1 DEF Dull

\* The handlers whose continuations are dull.
LEMMA DullSteps ==
    ASSUME NEW t \in Threads, NEW s \in Sessions,
           \/ Disconnect(t, s) \/ Close(t, s) \/ Callback(t, s)
           \/ PostRecv(t, s) \/ PostRecvLocked(t, s) \/ UnlockRecv(t, s) \/ CompletedRecv(t, s)
           \/ PostProcessLocked(t, s) \/ UnlockProc(t, s)
           \/ Send(t, s) \/ SendBuffered(t, s) \/ Flush(t, s) \/ TrySend(t, s)
           \/ SendLocked(t, s) \/ UnlockSend(t, s) \/ CompletedSend(t, s)
           \/ AddClosing(t, s) \/ ReleaseSession(t, s)
    PROVE  \E k \in Dull : stack[t] # <<>> /\ Continue(t, k)
<1>1. CASE Disconnect(t, s)
  BY <1>1, DullContinuations, UnmarkedOps DEF Disconnect, At, Return
<1>2. CASE Close(t, s)
  BY <1>2, DullContinuations, UnmarkedOps DEF Close, At, Return
<1>3. CASE Callback(t, s)
  BY <1>3, DullContinuations, UnmarkedOps, SessionAssumption DEF Callback, At, Return
<1>4. CASE PostRecv(t, s)
  BY <1>4, DullContinuations, UnmarkedOps DEF PostRecv, At, Return
<1>5. CASE PostRecvLocked(t, s)
  BY <1>5, DullContinuations, UnmarkedOps DEF PostRecvLocked, At, Return, GiveUp
<1>6. CASE UnlockRecv(t, s)
  BY <1>6, DullContinuations, UnmarkedOps DEF UnlockRecv, At, Return
<1>7. CASE CompletedRecv(t, s)
  BY <1>7, DullContinuations, UnmarkedOps DEF CompletedRecv, At, Return
<1>8. CASE PostProcessLocked(t, s)
  BY <1>8, DullContinuations, UnmarkedOps DEF PostProcessLocked, At, Return
<1>9. CASE UnlockProc(t, s)
  BY <1>9, DullContinuations, UnmarkedOps DEF UnlockProc, At, Return
<1>10. CASE Send(t, s)
  BY <1>10, DullContinuations, UnmarkedOps DEF Send, At, Return
<1>11. CASE SendBuffered(t, s)
  BY <1>11, DullContinuations, UnmarkedOps DEF SendBuffered, At, Return
<1>12. CASE Flush(t, s)
  BY <1>12, DullContinuations, UnmarkedOps DEF Flush, At, Return
<1>13. CASE TrySend(t, s)
  BY <1>13, DullContinuations, UnmarkedOps DEF TrySend, At, Return
<1>14. CASE SendLocked(t, s)
  BY <1>14, DullContinuations, UnmarkedOps DEF SendLocked, At, Return, GiveUp
<1>15. CASE UnlockSend(t, s)
  BY <1>15, DullContinuations, UnmarkedOps DEF UnlockSend, At, Return
<1>16. CASE CompletedSend(t, s)
  BY <1>16, DullContinuations, UnmarkedOps DEF CompletedSend, At, Return, AfterSend
<1>17. CASE AddClosing(t, s)
  BY <1>17, DullContinuations, UnmarkedOps DEF AddClosing, At, Return
<1>18. CASE ReleaseSession(t, s)
  BY <1>18, DullContinuations, UnmarkedOps DEF ReleaseSession, At, Return
<1>. QED  BY <1>1, <1>2, <1>3, <1>4, <1>5, <1>6, <1>7, <1>8, <1>9, <1>10, <1>11, <1>12,
             <1>13, <1>14, <1>15, <1>16, <1>17, <1>18

\* Appending a frame, spelled out.
LEMMA AppendIs ==
    ASSUME NEW k \in Seq(Frames), NEW f \in Frames, NEW r \in Seq(Frames),
           Len(r) = Len(k) + 1, r[Len(r)] = f, \A i \in 1..Len(k) : r[i] = k[i]
    PROVE  Append(k, f) = r /\ k \o <<f>> = r
<1>1. /\ Append(k, f) \in Seq(Frames) /\ Len(Append(k, f)) = Len(k) + 1 /\ Len(k) \in Nat
      /\ \A i \in 1..Len(k) : Append(k, f)[i] = k[i]
      /\ Append(k, f)[Len(k) + 1] = f
  BY AppendProperties, LenProperties
<1>2. \A i \in 1..Len(r) : i \in 1..Len(k) \/ i = Len(k) + 1
  BY <1>1
<1>3. Append(k, f) = r
  <2> DEFINE q == Append(k, f)
  <2>1. q \in Seq(Frames) /\ Len(q) = Len(r) /\ \A i \in 1..Len(q) : q[i] = r[i]
    BY <1>1, <1>2
  <2>. HIDE DEF q
  <2>2. q = r
    BY <2>1, SeqEqual
  <2>. QED  BY <2>2 DEF q
<1>. QED  BY <1>3, AppendIsConcat

\* One more frame at the end of a literal continuation.
LEMMA JoinOne ==
    /\ \A x, y \in Frames : <<x>> \o <<>> = <<x>> /\ <<x, y>> \o <<>> = <<x, y>>
    /\ \A x, y \in Frames : Append(<<x>>, y) = <<x, y>> /\ <<x>> \o <<y>> = <<x, y>>
    /\ \A x, y, z \in Frames : <<x, y>> \o <<z>> = <<x, y, z>>
    /\ \A x, y, z, w \in Frames : /\ Append(<<x, y, z>>, w) = <<x, y, z, w>>
                                  /\ <<x, y, z>> \o <<w>> = <<x, y, z, w>>
<1>1. ASSUME NEW x \in Frames, NEW y \in Frames
      PROVE  <<x>> \o <<>> = <<x>> /\ <<x, y>> \o <<>> = <<x, y>>
  BY ConcatEmptySeq
<1>2. ASSUME NEW x \in Frames, NEW y \in Frames
      PROVE  Append(<<x>>, y) = <<x, y>> /\ <<x>> \o <<y>> = <<x, y>>
  <2> DEFINE k == <<x>>
             r == <<x, y>>
  <2>1. /\ k \in Seq(Frames) /\ r \in Seq(Frames)
        /\ Len(r) = Len(k) + 1 /\ r[Len(r)] = y /\ \A i \in 1..Len(k) : r[i] = k[i]
    OBVIOUS
  <2>. HIDE DEF k, r
  <2>2. Append(k, y) = r /\ k \o <<y>> = r
    BY <2>1, AppendIs
  <2>. QED  BY <2>2 DEF k, r
<1>3. ASSUME NEW x \in Frames, NEW y \in Frames, NEW z \in Frames
      PROVE  <<x, y>> \o <<z>> = <<x, y, z>>
  <2> DEFINE k == <<x, y>>
             r == <<x, y, z>>
  <2>1. /\ k \in Seq(Frames) /\ r \in Seq(Frames)
        /\ Len(r) = Len(k) + 1 /\ r[Len(r)] = z /\ \A i \in 1..Len(k) : r[i] = k[i]
    OBVIOUS
  <2>. HIDE DEF k, r
  <2>2. k \o <<z>> = r
    BY <2>1, AppendIs
  <2>. QED  BY <2>2 DEF k, r
<1>4. ASSUME NEW a \in Frames, NEW b \in Frames, NEW c \in Frames, NEW d \in Frames
      PROVE  Append(<<a, b, c>>, d) = <<a, b, c, d>> /\ <<a, b, c>> \o <<d>> = <<a, b, c, d>>
  <2> DEFINE k == <<a, b, c>>
             r == <<a, b, c, d>>
  <2>1. /\ k \in Seq(Frames) /\ r \in Seq(Frames)
        /\ Len(r) = Len(k) + 1 /\ r[Len(r)] = d /\ \A i \in 1..Len(k) : r[i] = k[i]
    OBVIOUS
  <2>. HIDE DEF k, r
  <2>2. Append(k, d) = r /\ k \o <<d>> = r
    BY <2>1, AppendIs
  <2>. QED  BY <2>2 DEF k, r
<1>. QED  BY <1>1, <1>2, <1>3, <1>4, Zenon

\* Literal continuations, put together.
LEMMA Joins ==
    ASSUME NEW a \in Frames, NEW b \in Frames, NEW c \in Frames, NEW d \in Frames
    PROVE  /\ <<a>> \o <<>> \o <<b>> = <<a, b>>
           /\ Append(<<a>>, b) = <<a, b>>
           /\ Append(<<a>> \o <<b>> \o <<c>>, d) = <<a, b, c, d>>
           /\ <<a, b>> \o <<>> \o <<c>> = <<a, b, c>>
<1>1. <<a>> \o <<>> = <<a>> /\ <<a, b>> \o <<>> = <<a, b>>
  BY JoinOne, Zenon
<1>2. <<a>> \o <<b>> = <<a, b>> /\ Append(<<a>>, b) = <<a, b>>
  BY JoinOne, Zenon
<1>3. <<a, b>> \o <<c>> = <<a, b, c>>
  BY JoinOne, Zenon
<1>4. Append(<<a, b, c>>, d) = <<a, b, c, d>>
  BY JoinOne, Zenon
<1>. QED  BY <1>1, <1>2, <1>3, <1>4, Zenon

\* What goes on in the place of a finished ReleaseRef.
LEMMA ReleaseRefFits ==
    ASSUME NEW t \in Threads, NEW s \in Sessions, ReleaseRef(t, s)
    PROVE  \E k \in Seq(Frames) :
              /\ stack[t] # <<>> /\ Continue(t, k) /\ Fits(Top(t), k)
              /\ \A j \in 1..Len(k) : k[j] = AddFrame(s) /\ refCount[s] = 1
<1> DEFINE k == IF refCount[s] = 1 THEN <<AddFrame(s)>> ELSE <<>>
<1>1. AddFrame(s) \in Frames /\ AddFrame(s).op = "AddClosing"
  BY FrameFields DEF AddFrame, Ops
<1>2. stack[t] # <<>> /\ Continue(t, k)
  BY DEF ReleaseRef, At, AddFrame
<1>3. k \in Seq(Frames) /\ \A j \in 1..Len(k) : k[j] = AddFrame(s) /\ refCount[s] = 1
  BY <1>1
<1>. HIDE DEF k
<1>4. Fits(Top(t), k)
  BY <1>1, <1>3 DEF Fits, OnTop, Loops, Guarded, Looping, ProcOps
<1>. QED  BY <1>2, <1>3, <1>4

\* What may go on in the place of f without sending a session to the closing thread.
Follows(f) == {k \in Seq(Frames) :
                  /\ Fits(f, k)
                  /\ \A j \in 1..Len(k) : k[j].op \notin {"AddClosing", "ReleaseSession"}}

\* What the handlers that dispatch packets go on with.
LEMMA DispatchFollows ==
    ASSUME NEW s \in Sessions
    PROVE  /\ \A f : <<>> \in Follows(f)
           /\ <<Frame("TryProc", s)>> \in Follows(Frame("PostProcess", s))
           /\ <<Frame("PostProcessLocked", s)>> \in Follows(Frame("TryProc", s))
           /\ {<<Frame("PostProcess", s), Frame("UnlockProc", s)>>,
               <<Frame("ProcessCompletion", s), Frame("OnDispatch", s)>>,
               <<Frame("PostProcess", s), Frame("Disconnect", s), Frame("UnlockProc", s),
                 Frame("OnDispatch", s)>>} \subseteq Follows(Frame("ProcessCompletion", s))
           /\ ~OwnMode => \A op \in {"ProcessPacket", "Disconnect"} : 
                 <<Frame(op, s), Frame("OnDispatch", s)>> \in Follows(Frame("ProcessPacket", s))
<1> DEFINE F(op) == Frame(op, s)
<1>1. /\ \A op \in Ops : F(op) \in Frames /\ F(op).op = op /\ F(op).on = s
      /\ {"PostProcess", "TryProc", "PostProcessLocked", "ProcessCompletion", "UnlockProc",
          "OnDispatch", "Disconnect", "ProcessPacket"} \subseteq Ops
  BY FrameFields DEF Ops, ApiCalls
<1>. HIDE DEF F
<1>2. \A f : <<>> \in Follows(f)
  BY DEF Follows, Fits, Loops
<1>3. /\ <<F("TryProc")>> \in Follows(F("PostProcess"))
      /\ <<F("PostProcessLocked")>> \in Follows(F("TryProc"))
  BY <1>1 DEF Follows, Fits, OnTop, Loops, Guarded, Looping, ProcOps
<1>4. <<F("PostProcess"), F("UnlockProc")>> \in Follows(F("ProcessCompletion"))
  <2> DEFINE k == <<F("PostProcess"), F("UnlockProc")>>
  <2>1. /\ k \in Seq(Frames) /\ Len(k) = 2 /\ k[1] = F("PostProcess") /\ k[2] = F("UnlockProc")
        /\ Below(k, 2, "PostProcess")
    BY <1>1 DEF Below, F
  <2>. HIDE DEF k
  <2>2. \A j \in 1..Len(k) : j = 1 \/ j = 2
    BY <2>1
  <2>. QED  BY <1>1, <2>1, <2>2 DEF Follows, Fits, OnTop, Loops, Guarded, Looping, ProcOps
<1>5. <<F("ProcessCompletion"), F("OnDispatch")>> \in Follows(F("ProcessCompletion"))
  BY <1>1 DEF Follows, Fits, OnTop, Loops, Below, Guarded, Looping, ProcOps
<1>6. <<F("PostProcess"), F("Disconnect"), F("UnlockProc"), F("OnDispatch")>>
          \in Follows(F("ProcessCompletion"))
  <2> DEFINE k == <<F("PostProcess"), F("Disconnect"), F("UnlockProc"), F("OnDispatch")>>
  <2>1. /\ k \in Seq(Frames) /\ Len(k) = 4 /\ k[1] = F("PostProcess") /\ k[2] = F("Disconnect")
        /\ k[3] = F("UnlockProc") /\ k[4] = F("OnDispatch")
        /\ Below(k, 3, "PostProcess")
    BY <1>1 DEF Below, F
  <2>. HIDE DEF k
  <2>2. \A j \in 1..Len(k) : j = 1 \/ j = 2 \/ j = 3 \/ j = 4
    BY <2>1
  <2>3. Loops(k)
    BY <1>1, <2>1, <2>2 DEF Loops, Looping, ProcOps
  <2>4. ASSUME NEW j \in 1..Len(k)
        PROVE  /\ k[j].on = s /\ k[j].op \notin {"OnClose", "Close", "CompletedRecv"}
               /\ k[j].op \notin {"AddClosing", "ReleaseSession"}
               /\ OnTop(k, j) /\ (k[j].op = "UnlockProc" => j = 3)
    BY <1>1, <2>1, <2>2 DEF OnTop
  <2>. QED  BY <1>1, <2>1, <2>3, <2>4 DEF Follows, Fits, Guarded, ProcOps, Looping
<1>7. ASSUME ~OwnMode, NEW op \in {"ProcessPacket", "Disconnect"}
      PROVE  <<F(op), F("OnDispatch")>> \in Follows(F("ProcessPacket"))
  BY <1>1, <1>7 DEF Follows, Fits, OnTop, Loops, Below, Guarded, Looping, ProcOps
<1>. QED  BY <1>2, <1>3, <1>4, <1>5, <1>6, <1>7 DEF F

\* The loop of ProcessCompletion ends, goes on after a callback, or ends after it.
LEMMA CompletionContinues ==
    ASSUME NEW t \in Threads, NEW s \in Sessions, ProcessCompletion(t, s)
    PROVE  \/ Continue(t, <<Frame("PostProcess", s), Frame("UnlockProc", s)>>)
           \/ Continue(t, <<Frame("ProcessCompletion", s), Frame("OnDispatch", s)>>)
           \/ Continue(t, <<Frame("PostProcess", s), Frame("Disconnect", s),
                            Frame("UnlockProc", s), Frame("OnDispatch", s)>>)
<1> DEFINE p == Frame("PostProcess", s)
           e == Frame("Disconnect", s)
           u == Frame("UnlockProc", s)
           o == Frame("OnDispatch", s)
           c == Frame("ProcessCompletion", s)
<1>1. p \in Frames /\ e \in Frames /\ u \in Frames /\ o \in Frames /\ c \in Frames
  BY FrameFields DEF Ops, ApiCalls
<1>2. \/ Continue(t, AfterDispatch(s, FALSE)) \/ Continue(t, Append(<<c>>, o))
      \/ Continue(t, Append(AfterDispatch(s, TRUE), o))
  BY DEF ProcessCompletion
<1>3. AfterDispatch(s, FALSE) = <<p>> \o <<>> \o <<u>>
      /\ AfterDispatch(s, TRUE) = <<p>> \o <<e>> \o <<u>>
  BY Zenon DEF AfterDispatch
<1>. HIDE DEF p, e, u, o, c
<1>4. <<p>> \o <<>> \o <<u>> = <<p, u>>
  BY <1>1, Joins, Zenon
<1>5. Append(<<c>>, o) = <<c, o>>
  BY <1>1, Joins, Zenon
<1>6. Append(<<p>> \o <<e>> \o <<u>>, o) = <<p, e, u, o>>
  <2>1. \A x, y, z, w \in Frames : Append(<<x>> \o <<y>> \o <<z>>, w) = <<x, y, z, w>>
    BY Joins, Zenon
  <2>. QED  BY <1>1, <2>1, Zenon
<1>7. Continue(t, <<p, u>>) \/ Continue(t, <<c, o>>) \/ Continue(t, <<p, e, u, o>>)
  BY <1>2, <1>3, <1>4, <1>5, <1>6, Zenon
<1>. QED  BY <1>7 DEF p, e, u, o, c

\* What goes on in the place of the handlers that dispatch packets.
LEMMA DispatchFits ==
    ASSUME NEW t \in Threads, NEW s \in Sessions,
           \/ PostProcess(t, s) \/ TryProc(t, s) \/ ProcessCompletion(t, s) \/ ProcessPacket(t, s)
    PROVE  stack[t] # <<>> /\ \E k \in Follows(Top(t)) : Continue(t, k)
<1>1. CASE PostProcess(t, s)
  BY <1>1, DispatchFollows DEF PostProcess, At, Return
<1>2. CASE TryProc(t, s)
  BY <1>2, DispatchFollows DEF TryProc, At, Return
<1>3. CASE ProcessCompletion(t, s)
  <2>1. stack[t] # <<>> /\ Top(t) = Frame("ProcessCompletion", s)
    BY <1>3 DEF ProcessCompletion, At
  <2>. QED  BY <1>3, <2>1, CompletionContinues, DispatchFollows, Zenon
<1>4. CASE ProcessPacket(t, s)
  <2>1. stack[t] # <<>> /\ Top(t) = Frame("ProcessPacket", s)
    BY <1>4 DEF ProcessPacket, At
  <2>2. \/ Continue(t, <<>>)
        \/ /\ ~OwnMode
           /\ \E op \in {"ProcessPacket", "Disconnect"} :
                 Continue(t, <<Frame(op, s), Frame("OnDispatch", s)>>)
    BY <1>4 DEF ProcessPacket, Return
  <2>. QED  BY <2>1, <2>2, DispatchFollows, Zenon
<1>. QED  BY <1>1, <1>2, <1>3, <1>4

\* Whatever handler a thread is in, what it goes on with fits, and only the
\* last ReleaseRef sends the session to the closing thread.
LEMMA StepFits ==
    ASSUME NEW t \in Threads, NEW s \in Sessions,
           SessionStep(t, s) \/ AddClosing(t, s) \/ ReleaseSession(t, s)
    PROVE  \E k \in Seq(Frames) :
              /\ stack[t] # <<>> /\ Continue(t, k) /\ Fits(Top(t), k)
              /\ \A j \in 1..Len(k) : k[j].op \in {"AddClosing", "ReleaseSession"} =>
                    ReleaseRef(t, s) /\ refCount[s] = 1 /\ k[j] = AddFrame(s)
<1>1. CASE ReleaseRef(t, s)
  BY <1>1, ReleaseRefFits
<1>2. CASE PostProcess(t, s) \/ TryProc(t, s) \/ ProcessCompletion(t, s) \/ ProcessPacket(t, s)
  BY <1>2, DispatchFits DEF Follows
<1>3. ASSUME NEW k \in Dull, stack[t] # <<>>, Continue(t, k)
      PROVE  /\ k \in Seq(Frames) /\ Fits(Top(t), k)
             /\ \A j \in 1..Len(k) : k[j].op \notin {"AddClosing", "ReleaseSession"}
  BY <1>3, DullFits DEF Dull, Marked
<1>4. CASE ~ReleaseRef(t, s) /\ ~PostProcess(t, s) /\ ~TryProc(t, s)
           /\ ~ProcessCompletion(t, s) /\ ~ProcessPacket(t, s)
  <2>1. PICK k \in Dull : stack[t] # <<>> /\ Continue(t, k)
    BY <1>4, DullSteps DEF SessionStep
  <2>. QED  BY <1>3, <2>1
<1>. QED  BY <1>1, <1>2, <1>4

\* Below a new stack of the right shape.
LEMMA StartShapes ==
    ASSUME NEW s \in Sessions
    PROVE  /\ OnRecv(s) \in Seq(Frames) /\ Shape(OnRecv(s))
           /\ \A j \in 1..Len(OnRecv(s)) : OnRecv(s)[j].op \notin {"AddClosing", "ReleaseSession"}
           /\ \A op \in {"CompletedSend", "ProcessCompletion"} :
                 /\ <<Frame("ReleaseRef", s), Frame(op, s)>> \in Seq(Frames)
                 /\ Shape(<<Frame("ReleaseRef", s), Frame(op, s)>>)
           /\ <<Frame("ReleaseSession", s), Frame("Close", s), Frame("OnClose", s)>> \in Seq(Frames)
           /\ Shape(<<Frame("ReleaseSession", s), Frame("Close", s), Frame("OnClose", s)>>)
<1> DEFINE F(op) == Frame(op, s)
<1>1. /\ \A op \in Ops : F(op) \in Frames /\ F(op).op = op /\ F(op).on = s
      /\ {"ReleaseRef", "PostRecv", "PostProcess", "CompletedRecv", "CompletedSend",
          "ProcessCompletion", "ReleaseSession", "Close", "OnClose"} \subseteq Ops
      /\ F("ReleaseRef") = RefFrame(s) /\ F("ReleaseSession") = EndFrame(s)
  BY FrameFields DEF Ops, ApiCalls, RefFrame, EndFrame
<1>. HIDE DEF F
<1>2. /\ OnRecv(s) \in Seq(Frames) /\ Shape(OnRecv(s))
      /\ \A j \in 1..Len(OnRecv(s)) : OnRecv(s)[j].op \notin {"AddClosing", "ReleaseSession"}
  <2>1. CASE OwnMode
    <3> DEFINE k == <<F("ReleaseRef"), F("PostRecv"), F("PostProcess"), F("CompletedRecv")>>
    <3>1. OnRecv(s) = k
      <4>1. \A x, y, z, w \in Frames : <<x, y>> \o <<z>> \o <<w>> = <<x, y, z, w>>
        <5> TAKE x, y, z, w \in Frames
        <5>1. <<x, y>> \o <<z>> = <<x, y, z>>
          BY JoinOne, Zenon
        <5>2. <<x, y, z>> \o <<w>> = <<x, y, z, w>>
          BY JoinOne, Zenon
        <5>. QED  BY <5>1, <5>2, Zenon
      <4>2. OnRecv(s) = <<F("ReleaseRef"), F("PostRecv")>> \o <<F("PostProcess")>>
                            \o <<F("CompletedRecv")>>
        BY <2>1, Zenon DEF OnRecv, F
      <4>. QED  BY <1>1, <4>1, <4>2
    <3>2. /\ k \in Seq(Frames) /\ Len(k) = 4 /\ k[1] = F("ReleaseRef") /\ k[2] = F("PostRecv")
          /\ k[3] = F("PostProcess") /\ k[4] = F("CompletedRecv")
          /\ Below(k, 4, "PostRecv") /\ Below(k, 4, "PostProcess")
      BY <1>1 DEF Below, F
    <3>. HIDE DEF k
    <3>3. \A j \in 1..Len(k) : j = 1 \/ j = 2 \/ j = 3 \/ j = 4
      BY <3>2
    <3>4. Loops(k)
      BY <1>1, <3>2, <3>3 DEF Loops, Looping, ProcOps
    <3>5. \A j \in 1..Len(k) : Rests(k, j) /\ Ends(k, j) /\ OnTop(k, j) /\ Looks(k, j)
      BY <1>1, <3>2, <3>3 DEF Rests, Ends, OnTop, Looks, Guarded
    <3>6. \A j \in 1..Len(k) : k[j].op \notin {"AddClosing", "ReleaseSession"}
      BY <1>1, <3>2, <3>3
    <3>. QED  BY <3>1, <3>2, <3>4, <3>5, <3>6 DEF Shape
  <2>2. CASE ~OwnMode
    <3> DEFINE k == <<F("ReleaseRef"), F("PostRecv"), F("CompletedRecv")>>
    <3>1. OnRecv(s) = k
      <4>1. \A x, y, z \in Frames : <<x, y>> \o <<>> \o <<z>> = <<x, y, z>>
        BY Joins, Zenon
      <4>2. OnRecv(s) = <<F("ReleaseRef"), F("PostRecv")>> \o <<>> \o <<F("CompletedRecv")>>
        BY <2>2, Zenon DEF OnRecv, F
      <4>. QED  BY <1>1, <4>1, <4>2
    <3>2. /\ k \in Seq(Frames) /\ Len(k) = 3 /\ k[1] = F("ReleaseRef") /\ k[2] = F("PostRecv")
          /\ k[3] = F("CompletedRecv") /\ Below(k, 3, "PostRecv")
      BY <1>1 DEF Below, F
    <3>. HIDE DEF k
    <3>3. \A j \in 1..Len(k) : j = 1 \/ j = 2 \/ j = 3
      BY <3>2
    <3>4. Loops(k)
      BY <1>1, <3>2, <3>3 DEF Loops, Looping, ProcOps
    <3>5. \A j \in 1..Len(k) : Rests(k, j) /\ Ends(k, j) /\ OnTop(k, j) /\ Looks(k, j)
      BY <1>1, <2>2, <3>2, <3>3 DEF Rests, Ends, OnTop, Looks, Guarded
    <3>6. \A j \in 1..Len(k) : k[j].op \notin {"AddClosing", "ReleaseSession"}
      BY <1>1, <3>2, <3>3
    <3>. QED  BY <3>1, <3>2, <3>4, <3>5, <3>6 DEF Shape
  <2>. QED  BY <2>1, <2>2
<1>3. ASSUME NEW op \in {"CompletedSend", "ProcessCompletion"}
      PROVE  /\ <<F("ReleaseRef"), F(op)>> \in Seq(Frames)
             /\ Shape(<<F("ReleaseRef"), F(op)>>)
  <2> DEFINE k == <<F("ReleaseRef"), F(op)>>
  <2>1. k \in Seq(Frames) /\ Len(k) = 2 /\ k[1] = F("ReleaseRef") /\ k[2] = F(op)
    BY <1>1
  <2>. HIDE DEF k
  <2>2. \A j \in 1..Len(k) : j = 1 \/ j = 2
    BY <2>1
  <2>3. Loops(k)
    BY <1>1, <2>1, <2>2 DEF Loops, Looping, ProcOps
  <2>4. \A j \in 1..Len(k) : Rests(k, j) /\ Ends(k, j) /\ OnTop(k, j) /\ Looks(k, j)
    BY <1>1, <2>1, <2>2 DEF Rests, Ends, OnTop, Looks, Guarded
  <2>5. k \in Seq(Frames) /\ Shape(k)
    BY <2>1, <2>3, <2>4 DEF Shape
  <2>. QED  BY <2>5 DEF k
<1>4. /\ <<F("ReleaseSession"), F("Close"), F("OnClose")>> \in Seq(Frames)
      /\ Shape(<<F("ReleaseSession"), F("Close"), F("OnClose")>>)
  <2> DEFINE k == <<F("ReleaseSession"), F("Close"), F("OnClose")>>
  <2>1. /\ k \in Seq(Frames) /\ Len(k) = 3 /\ k[1] = F("ReleaseSession") /\ k[2] = F("Close")
        /\ k[3] = F("OnClose")
    BY <1>1
  <2>. HIDE DEF k
  <2>2. \A j \in 1..Len(k) : j = 1 \/ j = 2 \/ j = 3
    BY <2>1
  <2>3. Loops(k)
    BY <1>1, <2>1, <2>2 DEF Loops, Looping, ProcOps
  <2>4. \A j \in 1..Len(k) : Rests(k, j) /\ Ends(k, j) /\ OnTop(k, j) /\ Looks(k, j)
    BY <1>1, <2>1, <2>2 DEF Rests, Ends, OnTop, Looks, Guarded, Looping, ProcOps
  <2>5. k \in Seq(Frames) /\ Shape(k)
    BY <2>1, <2>3, <2>4 DEF Shape
  <2>. QED  BY <2>5 DEF k
<1>. QED  BY <1>2, <1>3, <1>4 DEF F

------------------------------------------------------------------------------
(* Sockets of closing sessions are closed                                  *)

\* A step that opens no socket, disconnects a session only together with its
\* socket, and sends only sessions without one to the closing thread.
LEMMA SocketStep ==
    ASSUME SocketInv, StackType, NEW t \in Threads, NEW n, NEW k \in Seq(Frames),
           Replaced(t, n, k), closingList \in Seq(Sessions),
           \A r \in Sessions : \/ connected'[r] = connected[r] /\ socketOpen'[r] = socketOpen[r]
                               \/ ~connected'[r] /\ ~socketOpen'[r],
           \A r \in Sessions : socketOpen[r] /\ ~connected[r] =>
                                  refCount'[r] = refCount[r] /\ r \in active',
           \A j \in 1..Len(k) : k[j].op \in {"AddClosing", "ReleaseSession"} =>
                                  ~socketOpen[k[j].on],
           closingList' \in Seq(Sessions),
           \A i \in 1..Len(closingList') : ~socketOpen[closingList'[i]]
    PROVE  SocketInv'
<1>1. \A r \in Sessions : ~socketOpen[r] => ~socketOpen'[r]
  BY DEF SocketInv
<1>2. ASSUME NEW s \in Sessions
      PROVE  /\ connected'[s] => socketOpen'[s]
             /\ socketOpen'[s] /\ ~connected'[s] => s \in active' /\ refCount'[s] = 0
  BY DEF SocketInv
<1>3. ASSUME NEW u \in Threads, NEW i \in 1..Len(stack'[u]),
             stack'[u][i].op \in {"AddClosing", "ReleaseSession"}
      PROVE  ~socketOpen'[stack'[u][i].on]
  <2>1. ASSUME NEW m \in 1..Len(stack[u]), stack'[u][i] = stack[u][m]
        PROVE  ~socketOpen'[stack'[u][i].on]
    <3>1. stack[u][m] \in Frames
      BY ElementOfSeq DEF StackType
    <3>2. stack[u][m].on \in Sessions
      BY <3>1 DEF Frames
    <3>3. ~socketOpen[stack[u][m].on]
      BY <1>3, <2>1 DEF SocketInv
    <3>. QED  BY <1>1, <2>1, <3>2, <3>3
  <2>2. ASSUME NEW j \in 1..Len(k), stack'[u][i] = k[j]
        PROVE  ~socketOpen'[stack'[u][i].on]
    <3>1. k[j] \in Frames
      BY ElementOfSeq
    <3>2. k[j].on \in Sessions
      BY <3>1 DEF Frames
    <3>. QED  BY <1>1, <1>3, <2>2, <3>2
  <2>3. CASE u # t
    <3>1. stack'[u] = stack[u]
      BY <2>3 DEF Replaced
    <3>. QED  BY <2>1, <3>1
  <2>4. CASE u = t
    <3>1. \/ i \in 1..(n - 1) /\ stack'[u][i] = stack[u][i]
          \/ \E j \in 1..Len(k) : i = n - 1 + j /\ stack'[u][i] = k[j]
      BY <2>4, ReplacedFrames
    <3>2. Len(stack[u]) \in Nat
      BY LenProperties DEF StackType
    <3>3. i \in 1..(n - 1) => i \in 1..Len(stack[u])
      BY <2>4, <3>2 DEF Replaced
    <3>. QED  BY <2>1, <2>2, <3>1, <3>3
  <2>. QED  BY <2>3, <2>4
<1>4. ASSUME NEW i \in 1..Len(closingList') PROVE ~socketOpen'[closingList'[i]]
  <2>1. closingList'[i] \in Sessions
    BY ElementOfSeq
  <2>. QED  BY <1>1, <2>1
<1>. QED  BY <1>2, <1>3, <1>4 DEF SocketInv

\* What the handlers of Session.cpp do to sockets and references.
LEMMA StepConnects ==
    ASSUME TypeOK, NEW t \in Threads, NEW s \in Sessions, SessionStep(t, s)
    PROVE  \A r \in Sessions :
              /\ \/ connected'[r] = connected[r] /\ socketOpen'[r] = socketOpen[r]
                 \/ ~connected'[r] /\ ~socketOpen'[r]
              /\ refCount'[r] = refCount[r] \/ connected[r] \/ (ReleaseRef(t, s) /\ r = s)
<1>0. /\ connected \in [Sessions -> BOOLEAN] /\ socketOpen \in [Sessions -> BOOLEAN]
      /\ refCount \in [Sessions -> Nat]
  BY DEF TypeOK
<1>1. CASE Disconnect(t, s)
  BY <1>0, <1>1 DEF Disconnect, connVars
<1>2. CASE ReleaseRef(t, s)
  BY <1>0, <1>2 DEF ReleaseRef, connVars
<1>3. CASE PostRecvLocked(t, s)
  BY <1>0, <1>3 DEF PostRecvLocked, connVars, AddRef
<1>4. CASE PostProcessLocked(t, s)
  BY <1>0, <1>4 DEF PostProcessLocked, connVars, AddRef
<1>5. CASE SendLocked(t, s)
  BY <1>0, <1>5 DEF SendLocked, connVars, AddRef
<1>6. CASE UNCHANGED <<connVars, refCount>>
  BY <1>6 DEF connVars
<1>7. CASE \/ Close(t, s) \/ Callback(t, s) \/ PostRecv(t, s) \/ UnlockRecv(t, s)
           \/ CompletedRecv(t, s) \/ PostProcess(t, s) \/ TryProc(t, s)
           \/ ProcessCompletion(t, s) \/ UnlockProc(t, s) \/ ProcessPacket(t, s)
           \/ Send(t, s) \/ SendBuffered(t, s) \/ Flush(t, s) \/ TrySend(t, s)
           \/ UnlockSend(t, s) \/ CompletedSend(t, s)
  BY <1>6, <1>7 DEF Close, Callback, PostRecv, UnlockRecv, CompletedRecv, PostProcess, TryProc,
     ProcessCompletion, UnlockProc, ProcessPacket, Send, SendBuffered, Flush, TrySend,
     UnlockSend, CompletedSend
<1>. QED  BY <1>1, <1>2, <1>3, <1>4, <1>5, <1>7 DEF SessionStep

\* Who gives a reference back holds one, so the session is not one whose
\* Attach has failed; and the last one finds it disconnected.
LEMMA LastReference ==
    ASSUME IInv, SocketInv, NEW t \in Threads, NEW s \in Sessions, ReleaseRef(t, s)
    PROVE  /\ ~(socketOpen[s] /\ ~connected[s])
           /\ refCount[s] = 1 => ~socketOpen[s]
<1>0. StackType
  BY DEF IInv, TypeOK, StackType
<1>1. Waiting(RefFrame(s)) > 0
  BY <1>0, TopCounted DEF ReleaseRef, RefFrame
<1>2. /\ refCount[s] = Held(s) + Waiting(RefFrame(s))
      /\ Held(s) \in Nat /\ Waiting(RefFrame(s)) \in Nat
  BY SessionFacts
<1>3. connected[s] => Held(s) > 0
  BY CountTypes DEF Held, IInv
<1>4. refCount[s] > 0 /\ (refCount[s] = 1 => ~connected[s])
  BY <1>1, <1>2, <1>3
<1>. QED  BY <1>4 DEF SocketInv

\* Every step of a handler keeps shapes and sockets.
LEMMA HandlerKeeps ==
    ASSUME HInv, NEW t \in Threads, NEW s \in Sessions, SessionStep(t, s), UNCHANGED networkVars
    PROVE  Shaped' /\ SocketInv'
<1>0. TypeOK /\ StackType /\ IInv /\ Shaped /\ SocketInv /\ closingList \in Seq(Sessions)
  BY DEF HInv, IInv, TypeOK, StackType
<1>1. PICK k \in Seq(Frames) :
         /\ stack[t] # <<>> /\ Continue(t, k) /\ Fits(Top(t), k)
         /\ \A j \in 1..Len(k) : k[j].op \in {"AddClosing", "ReleaseSession"} =>
               ReleaseRef(t, s) /\ refCount[s] = 1 /\ k[j] = AddFrame(s)
  BY StepFits
<1>2. Shaped' /\ Replaced(t, Len(stack[t]), k)
  BY <1>0, <1>1, ShapeContinue
<1>3. \A j \in 1..Len(k) : k[j].op \in {"AddClosing", "ReleaseSession"} => ~socketOpen[k[j].on]
  BY <1>0, <1>1, LastReference, FrameFields DEF AddFrame
<1>4. active' = active /\ closingList' = closingList
  BY DEF networkVars, poolVars
<1>5. \A r \in Sessions : socketOpen[r] /\ ~connected[r] =>
                             refCount'[r] = refCount[r] /\ r \in active'
  BY <1>0, <1>4, StepConnects, LastReference DEF SocketInv
<1>6. \A i \in 1..Len(closingList') : ~socketOpen[closingList'[i]]
  BY <1>0, <1>4 DEF SocketInv
<1>7. \A r \in Sessions : \/ connected'[r] = connected[r] /\ socketOpen'[r] = socketOpen[r]
                          \/ ~connected'[r] /\ ~socketOpen'[r]
  BY <1>0, StepConnects
<1>8. SocketInv'
  BY <1>0, <1>2, <1>3, <1>4, <1>5, <1>6, <1>7, SocketStep
<1>. QED  BY <1>2, <1>8

\* So do the steps that move a session to the closing list and out of the pool.
LEMMA ClosingKeeps ==
    ASSUME HInv, NEW t \in Threads, NEW s \in Sessions,
           AddClosing(t, s) \/ ReleaseSession(t, s)
    PROVE  Shaped' /\ SocketInv'
<1>0. TypeOK /\ StackType /\ IInv /\ Shaped /\ SocketInv /\ closingList \in Seq(Sessions)
  BY DEF HInv, IInv, TypeOK, StackType
<1>1. PICK k \in Seq(Frames) :
         /\ stack[t] # <<>> /\ Continue(t, k) /\ Fits(Top(t), k)
         /\ \A j \in 1..Len(k) : k[j].op \in {"AddClosing", "ReleaseSession"} =>
               ReleaseRef(t, s) /\ refCount[s] = 1 /\ k[j] = AddFrame(s)
  BY StepFits
<1>2. Shaped' /\ Replaced(t, Len(stack[t]), k)
  BY <1>0, <1>1, ShapeContinue
<1>3. ~ReleaseRef(t, s)
  BY FrameFields DEF ReleaseRef, AddClosing, ReleaseSession, At
<1>4. stack[t] # <<>> /\ Top(t).on = s /\ Top(t).op \in {"AddClosing", "ReleaseSession"}
  BY FrameFields DEF AddClosing, ReleaseSession, At
<1>5. ~socketOpen[s]
  <2>1. Len(stack[t]) \in 1..Len(stack[t])
    BY <1>0, <1>4, EmptySeq DEF StackType
  <2>. QED  BY <1>0, <1>4, <2>1 DEF SocketInv, Top
<1>6. connected' = connected /\ socketOpen' = socketOpen /\ refCount' = refCount
  BY DEF AddClosing, ReleaseSession, connVars
<1>7. \A r \in Sessions : r # s /\ r \in active => r \in active'
  BY DEF AddClosing, ReleaseSession, poolVars
<1>8. \A r \in Sessions : socketOpen[r] /\ ~connected[r] =>
                             refCount'[r] = refCount[r] /\ r \in active'
  BY <1>0, <1>5, <1>6, <1>7 DEF SocketInv
<1>9. /\ closingList' \in Seq(Sessions)
      /\ \A i \in 1..Len(closingList') : ~socketOpen[closingList'[i]]
  <2>1. CASE closingList' = closingList
    BY <1>0, <2>1 DEF SocketInv
  <2>2. CASE closingList' = Append(closingList, s)
    <3>1. /\ closingList' \in Seq(Sessions) /\ Len(closingList') = Len(closingList) + 1
          /\ \A i \in 1..Len(closingList) : closingList'[i] = closingList[i]
          /\ closingList'[Len(closingList) + 1] = s /\ Len(closingList) \in Nat
      BY <1>0, <2>2, AppendProperties, LenProperties
    <3>2. \A i \in 1..Len(closingList') : i \in 1..Len(closingList) \/ i = Len(closingList) + 1
      BY <3>1
    <3>. QED  BY <1>0, <1>5, <3>1, <3>2 DEF SocketInv
  <2>. QED  BY <2>1, <2>2 DEF AddClosing, ReleaseSession
<1>10. SocketInv'
  <2>1. \A j \in 1..Len(k) : k[j].op \in {"AddClosing", "ReleaseSession"} => ~socketOpen[k[j].on]
    BY <1>1, <1>3
  <2>. QED  BY <1>0, <1>2, <1>6, <1>8, <1>9, <2>1, SocketStep
<1>. QED  BY <1>2, <1>10

\* A thread that takes up work without touching connections.
LEMMA BeginKeeps ==
    ASSUME HInv, NEW t \in Threads, NEW k \in Seq(Frames), Begin(t, k), Shape(k),
           UNCHANGED <<connected, socketOpen, refCount, active>>,
           \A j \in 1..Len(k) : k[j].op \in {"AddClosing", "ReleaseSession"} =>
                                  ~socketOpen[k[j].on],
           closingList' \in Seq(Sessions),
           \A i \in 1..Len(closingList') : ~socketOpen[closingList'[i]]
    PROVE  Shaped' /\ SocketInv'
<1>0. StackType /\ Shaped /\ SocketInv /\ closingList \in Seq(Sessions)
  BY DEF HInv, IInv, TypeOK, StackType
<1>1. Shaped' /\ Replaced(t, 1, k)
  BY <1>0, ShapeBegin
<1>2. \A r \in Sessions : socketOpen[r] /\ ~connected[r] =>
                             refCount'[r] = refCount[r] /\ r \in active'
  BY <1>0 DEF SocketInv
<1>3. SocketInv'
  BY <1>0, <1>1, <1>2, SocketStep
<1>. QED  BY <1>1, <1>3

\* The workers and the application take up work.
LEMMA WorkersKeep ==
    ASSUME HInv, NEW t \in Threads, NEW s \in Sessions,
           IoDequeue(t, s) \/ DequeueProcess(t, s) \/ AppCall(t, s)
    PROVE  Shaped' /\ SocketInv'
<1>0. SocketInv /\ closingList \in Seq(Sessions)
  BY DEF HInv, IInv, TypeOK
<1>1. /\ UNCHANGED <<connected, socketOpen, refCount, active, closingList>>
  BY DEF IoDequeue, DequeueRecv, DequeueSend, DequeueFailed, DequeueProcess, AppCall,
     connVars, networkVars, poolVars
<1>2. /\ closingList' \in Seq(Sessions)
      /\ \A i \in 1..Len(closingList') : ~socketOpen[closingList'[i]]
  BY <1>0, <1>1 DEF SocketInv
<1>3. ASSUME NEW k \in Seq(Frames), Begin(t, k), Shape(k),
             \A j \in 1..Len(k) : k[j].op \notin {"AddClosing", "ReleaseSession"}
      PROVE  Shaped' /\ SocketInv'
  BY <1>1, <1>2, <1>3, BeginKeeps
<1>4. CASE DequeueRecv(t, s)
  BY <1>3, <1>4, StartShapes DEF DequeueRecv
<1>5. CASE DequeueSend(t, s) \/ DequeueProcess(t, s)
  <2>1. PICK op \in {"CompletedSend", "ProcessCompletion"} :
           Begin(t, <<Frame("ReleaseRef", s), Frame(op, s)>>)
    BY <1>5 DEF DequeueSend, DequeueProcess
  <2> DEFINE k == <<Frame("ReleaseRef", s), Frame(op, s)>>
  <2>2. k \in Seq(Frames) /\ Shape(k)
    BY StartShapes
  <2>3. \A j \in 1..Len(k) : k[j].op \notin {"AddClosing", "ReleaseSession"}
    BY FrameFields
  <2>4. Begin(t, k)
    BY <2>1
  <2>. HIDE DEF k
  <2>. QED  BY <1>3, <2>2, <2>3, <2>4
<1>6. ASSUME NEW k \in Dull, Begin(t, k) PROVE Shaped' /\ SocketInv'
  <2>1. k \in Seq(Frames) /\ Shape(k)
    BY <1>6, DullShape
  <2>2. \A j \in 1..Len(k) : k[j].op \notin {"AddClosing", "ReleaseSession"}
    BY <1>6 DEF Dull, Marked
  <2>. QED  BY <1>3, <1>6, <2>1, <2>2
<1>7. CASE DequeueFailed(t, s)
  <2>1. <<Frame("ReleaseRef", s), Frame("Disconnect", s)>> \in Dull
    BY DullContinuations, UnmarkedOps
  <2>. QED  BY <1>6, <1>7, <2>1 DEF DequeueFailed
<1>8. CASE AppCall(t, s)
  <2>1. PICK call \in AppCalls : Begin(t, <<Frame(call, s)>>)
    BY <1>8 DEF AppCall
  <2>2. <<Frame(call, s)>> \in Dull
    BY DullContinuations, UnmarkedOps, NetworkAssumption
  <2>. QED  BY <1>6, <2>1, <2>2
<1>. QED  BY <1>4, <1>5, <1>7, <1>8 DEF IoDequeue

\* The closing thread takes up a session.
LEMMA TakeKeeps ==
    ASSUME HInv, NEW s \in Sessions, TakeClosing(s)
    PROVE  Shaped' /\ SocketInv'
<1> DEFINE k == <<Frame("ReleaseSession", s), Frame("Close", s), Frame("OnClose", s)>>
<1>1. /\ SocketInv /\ closingList \in Seq(Sessions) /\ closingList # <<>> /\ s = Head(closingList)
      /\ closingList' = Tail(closingList) /\ Begin(ClosingThread, k)
      /\ UNCHANGED <<connected, socketOpen, refCount, active>>
  BY DEF HInv, IInv, TypeOK, TakeClosing, connVars, poolVars
<1>2. /\ closingList' \in Seq(Sessions) /\ Len(closingList') = Len(closingList) - 1
      /\ \A i \in 1..Len(closingList') : closingList'[i] = closingList[i + 1]
      /\ Len(closingList) \in Nat /\ Len(closingList) > 0 /\ closingList[1] = s
  BY <1>1, HeadTailProperties, LenProperties, EmptySeq
<1>3. \A i \in 1..Len(closingList') : i + 1 \in 1..Len(closingList)
  BY <1>2
<1>4. \A i \in 1..Len(closingList') : ~socketOpen[closingList'[i]]
  BY <1>1, <1>2, <1>3 DEF SocketInv
<1>5. ~socketOpen[s]
  <2>1. 1 \in 1..Len(closingList)
    BY <1>2
  <2>. QED  BY <1>1, <1>2, <2>1 DEF SocketInv
<1>6. k \in Seq(Frames) /\ Shape(k)
  BY StartShapes
<1>7. \A j \in 1..Len(k) : k[j].on = s
  BY FrameFields
<1>. HIDE DEF k
<1>. QED  BY <1>1, <1>2, <1>4, <1>5, <1>6, <1>7, BeginKeeps, NetworkAssumption

\* A frame on a stack is counted among those that wait.
LEMMA OnStackWaits ==
    ASSUME StackType, NEW t \in Threads, NEW i \in 1..Len(stack[t])
    PROVE  Waiting(stack[t][i]) > 0 /\ Waiting(stack[t][i]) \in Nat
<1> DEFINE f == stack[t][i]
<1>1. <<t, i>> \in Holders(f)
  BY HoldersMember, LenProperties DEF StackType
<1>2. IsFiniteSet(Holders(f)) /\ Cardinality(Holders(f)) \in Nat
  BY HoldersFinite DEF StackType
<1>3. Cardinality(Holders(f)) # 0
  BY <1>1, <1>2, FS_EmptySet
<1>. QED  BY <1>2, <1>3 DEF Waiting

\* A session in the closing list is counted there.
LEMMA ListedWaits ==
    ASSUME closingList \in Seq(Sessions), NEW i \in 1..Len(closingList)
    PROVE  Listed(closingList[i]) > 0
<1> DEFINE all == {j \in DOMAIN closingList : closingList[j] = closingList[i]}
<1>1. i \in all /\ all \subseteq 1..Len(closingList) /\ Len(closingList) \in Nat
  BY LenProperties
<1>. HIDE DEF all
<1>a. IsFiniteSet(1..Len(closingList))
  BY <1>1, FS_Interval
<1>2. IsFiniteSet(all)
  BY <1>1, <1>a, FS_Subset
<1>3. Cardinality(all) \in Nat /\ Cardinality(all) # 0
  BY <1>1, <1>2, FS_CardinalityType, FS_EmptySet
<1>. QED  BY <1>3 DEF Listed, all

\* A session that is allocated was free: nobody is closing it.
LEMMA AllocateShapes ==
    ASSUME HInv, NEW t \in Allocators, NEW s \in Sessions, AllocateSession(t, s)
    PROVE  Shaped' /\ SocketInv'
<1> DEFINE k == <<Frame("PostRecv", s), Frame("OnAccept", s)>>
<1>0. IInv /\ TypeOK /\ StackType /\ Shaped /\ SocketInv /\ t \in Threads
      /\ closingList \in Seq(Sessions)
  BY NetworkAssumption DEF HInv, IInv, TypeOK, StackType
<1>1. k \in Dull /\ k \in Seq(Frames) /\ Shape(k)
  BY DullContinuations, UnmarkedOps, DullShape
<1>2. Begin(t, k) /\ closingList' = closingList /\ active' = active \cup {s}
  BY DEF AllocateSession
<1>. HIDE DEF k
<1>3. Shaped' /\ Replaced(t, 1, k)
  BY <1>0, <1>1, <1>2, ShapeBegin
<1>4. s \notin active
  <2>1. /\ freeList \in Seq(Sessions) /\ freeList # <<>> /\ s = Head(freeList)
        /\ {freeList[i] : i \in DOMAIN freeList} = Sessions \ active
    BY <1>0 DEF AllocateSession, TypeOK, IInv, FreeListed
  <2>2. 1 \in DOMAIN freeList /\ freeList[1] = s
    BY <2>1, EmptySeq, LenProperties
  <2>. QED  BY <2>1, <2>2
<1>5. /\ ~connected[s] /\ refCount[s] = 0
      /\ Waiting(AddFrame(s)) = 0 /\ Waiting(EndFrame(s)) = 0 /\ Listed(s) = 0
  BY <1>0, <1>4, SessionFacts
<1>6. /\ \A r \in Sessions \ {s} : /\ connected'[r] = connected[r] /\ refCount'[r] = refCount[r]
                                   /\ socketOpen'[r] = socketOpen[r]
      /\ socketOpen'[s] /\ (~connected'[s] => refCount'[s] = 0)
  <2>1. /\ connected \in [Sessions -> BOOLEAN] /\ socketOpen \in [Sessions -> BOOLEAN]
        /\ refCount \in [Sessions -> Nat]
    BY <1>0 DEF TypeOK
  <2>. QED  BY <1>5, <2>1 DEF AllocateSession, Attach
<1>7. \A r \in Sessions : /\ connected'[r] => socketOpen'[r]
                          /\ socketOpen'[r] /\ ~connected'[r] => r \in active' /\ refCount'[r] = 0
  BY <1>0, <1>2, <1>6 DEF SocketInv
<1>8. ASSUME NEW u \in Threads, NEW i \in 1..Len(stack'[u]),
             stack'[u][i].op \in {"AddClosing", "ReleaseSession"}
      PROVE  ~socketOpen'[stack'[u][i].on]
  <2>1. i \in 1..Len(stack[u]) /\ stack'[u][i] = stack[u][i]
    <3>1. CASE u # t
      BY <3>1, <1>3, <1>8 DEF Replaced
    <3>2. CASE u = t
      <4>1. stack'[t] = k
        BY <1>0, <1>2 DEF Begin, StackType
      <4>2. k[i].op \notin {"AddClosing", "ReleaseSession"}
        BY <1>1, <1>8, <3>2, <4>1 DEF Dull, Marked
      <4>. QED  BY <1>8, <3>2, <4>1, <4>2
    <3>. QED  BY <3>1, <3>2
  <2>2. stack[u][i] \in Frames /\ stack[u] \in Seq(Frames)
    BY <1>0, <2>1, ElementOfSeq DEF StackType
  <2>3. stack[u][i].on \in Sessions /\ ~socketOpen[stack[u][i].on]
    BY <1>0, <1>8, <2>1, <2>2 DEF Frames, SocketInv
  <2>4. stack[u][i].on # s
    <3>1. SUFFICES ASSUME stack[u][i].on = s PROVE FALSE
      OBVIOUS
    <3>2. stack[u][i] = AddFrame(s) \/ stack[u][i] = EndFrame(s)
      BY <1>8, <2>1, <2>2, <3>1 DEF Frames, AddFrame, EndFrame, Frame
    <3>. QED  BY <1>0, <1>5, <2>1, <3>2, OnStackWaits
  <2>. QED  BY <1>6, <2>1, <2>3, <2>4
<1>9. ASSUME NEW i \in 1..Len(closingList') PROVE ~socketOpen'[closingList'[i]]
  <2>1. closingList[i] \in Sessions /\ ~socketOpen[closingList[i]] /\ Listed(closingList[i]) > 0
    BY <1>0, <1>2, <1>9, ElementOfSeq, ListedWaits DEF SocketInv
  <2>. QED  BY <1>2, <1>5, <1>6, <2>1
<1>10. SocketInv'
  BY <1>7, <1>8, <1>9 DEF SocketInv
<1>. QED  BY <1>3, <1>10

------------------------------------------------------------------------------
(* The theorems                                                            *)

\* Initially nobody runs anything and no socket is open.
LEMMA InitHInv == Init => HInv
<1> SUFFICES ASSUME Init PROVE HInv
  OBVIOUS
<1>1. IInv
  BY InitIInv
<1>2. Shaped
  BY DEF Init, SessionInit, Shaped, Shape, Loops
<1>3. SocketInv
  BY DEF Init, SessionInit, NetworkInit, SocketInv
<1>. QED  BY <1>1, <1>2, <1>3 DEF HInv

\* Every step of every thread keeps the shapes and the sockets.
LEMMA NextHInv == HInv /\ [Next]_vars => HInv'
<1> SUFFICES ASSUME HInv, [Next]_vars PROVE HInv'
  OBVIOUS
<1>1. IInv'
  BY NextIInv DEF HInv
<1>2. CASE UNCHANGED vars
  <2>1. UNCHANGED <<stack, connected, socketOpen, refCount, active, closingList>>
    BY <1>2 DEF vars, sessionVars, connVars, networkVars, poolVars
  <2>. QED  BY <1>1, <2>1 DEF HInv, Shaped, SocketInv
<1>3. ASSUME NEW s \in Sessions, NEW t \in Threads, Run(t, s) PROVE Shaped' /\ SocketInv'
  BY <1>3, HandlerKeeps, ClosingKeeps DEF Run
<1>4. ASSUME NEW s \in Sessions, NEW t \in Allocators, AllocateSession(t, s)
      PROVE  Shaped' /\ SocketInv'
  BY <1>4, AllocateShapes
<1>5. ASSUME NEW s \in Sessions, NEW t \in Threads,
             IoDequeue(t, s) \/ DequeueProcess(t, s) \/ AppCall(t, s)
      PROVE  Shaped' /\ SocketInv'
  BY <1>5, WorkersKeep
<1>6. ASSUME NEW s \in Sessions, TakeClosing(s) PROVE Shaped' /\ SocketInv'
  BY <1>6, TakeKeeps
<1>7. ASSUME NEW s \in Sessions, (\E t \in Allocators : Associate(t, s)) \/ CompleteUnqueued(s)
      PROVE  Shaped' /\ SocketInv'
  <2>1. UNCHANGED <<stack, connected, socketOpen, refCount, active, closingList>>
    BY <1>7, PortSteps DEF sessionVars, connVars
  <2>. QED  BY <2>1 DEF HInv, Shaped, SocketInv
<1>. QED  BY <1>1, <1>2, <1>3, <1>4, <1>5, <1>6, <1>7, NetworkAssumption DEF Next, HInv

\* The shapes and the sockets are as described in every reachable state.
THEOREM HandlerInvariance == Spec => []HInv
BY InitHInv, NextHInv, PTL DEF Spec

\* Whoever closes a session runs above its ReleaseSession.
LEMMA ClosersBelow ==
    ASSUME HInv, NEW s \in Sessions, Busy(s, {"OnClose", "Close", "ReleaseSession"})
    PROVE  Waiting(EndFrame(s)) > 0 /\ ~socketOpen[s]
<1>0. StackType /\ Shaped /\ SocketInv /\ stack \in [Threads -> Seq(Frames)]
  BY DEF HInv, IInv, TypeOK, StackType
<1>a. PICK t \in Threads : \E i \in DOMAIN stack[t] :
         stack[t][i].on = s /\ stack[t][i].op \in {"OnClose", "Close", "ReleaseSession"}
  BY DEF Busy
<1>1. PICK i \in DOMAIN stack[t] :
         stack[t][i].on = s /\ stack[t][i].op \in {"OnClose", "Close", "ReleaseSession"}
  BY <1>a
<1>2. i \in 1..Len(stack[t]) /\ Len(stack[t]) \in Nat
  BY <1>0, LenProperties
<1>3. \E j \in 1..Len(stack[t]) : stack[t][j] = EndFrame(s)
  <2>1. CASE stack[t][i].op = "ReleaseSession"
    <3>1. stack[t][i] \in Frames
      BY <1>0, <1>2, ElementOfSeq
    <3>2. stack[t][i] = EndFrame(s)
      BY <1>1, <2>1, <3>1 DEF Frames, EndFrame, Frame
    <3>. QED  BY <1>2, <3>2
  <2>2. CASE stack[t][i].op \in {"OnClose", "Close"}
    <3>1. Ends(stack[t], i)
      BY <1>0, <1>2 DEF Shaped, Shape
    <3>2. stack[t][1] = EndFrame(s) /\ 1 \in 1..Len(stack[t])
      BY <1>1, <1>2, <2>2, <3>1 DEF Ends
    <3>. QED  BY <3>2
  <2>. QED  BY <1>1, <2>1, <2>2
<1>4. PICK j \in 1..Len(stack[t]) : stack[t][j] = EndFrame(s)
  BY <1>3
<1>5. Waiting(EndFrame(s)) > 0
  BY <1>0, <1>4, OnStackWaits
<1>6. ~socketOpen[s]
  <2>1. stack[t][j].op = "ReleaseSession" /\ stack[t][j].on = s
    BY <1>4, FrameFields DEF EndFrame
  <2>. QED  BY <1>0, <1>4, <2>1 DEF SocketInv
<1>. QED  BY <1>5, <1>6

\* Whoever works on a session under a reference runs above its ReleaseRef.
LEMMA WorkersHold ==
    ASSUME HInv, NEW s \in Sessions, Busy(s, Guarded \cup {"ReleaseRef"})
    PROVE  Waiting(RefFrame(s)) > 0
<1>0. StackType /\ Shaped /\ stack \in [Threads -> Seq(Frames)]
  BY DEF HInv, IInv, TypeOK, StackType
<1>a. PICK t \in Threads : \E i \in DOMAIN stack[t] :
         stack[t][i].on = s /\ stack[t][i].op \in Guarded \cup {"ReleaseRef"}
  BY DEF Busy
<1>1. PICK i \in DOMAIN stack[t] :
         stack[t][i].on = s /\ stack[t][i].op \in Guarded \cup {"ReleaseRef"}
  BY <1>a
<1>2. i \in 1..Len(stack[t]) /\ Len(stack[t]) \in Nat
  BY <1>0, LenProperties
<1>3. \E j \in 1..Len(stack[t]) : stack[t][j] = RefFrame(s)
  <2>1. CASE stack[t][i].op = "ReleaseRef"
    <3>1. stack[t][i] \in Frames
      BY <1>0, <1>2, ElementOfSeq
    <3>2. stack[t][i] = RefFrame(s)
      BY <1>1, <2>1, <3>1 DEF Frames, RefFrame, Frame
    <3>. QED  BY <1>2, <3>2
  <2>2. CASE stack[t][i].op \in Guarded
    <3>1. Rests(stack[t], i)
      BY <1>0, <1>2 DEF Shaped, Shape
    <3>2. stack[t][1] = RefFrame(s) /\ 1 \in 1..Len(stack[t])
      BY <1>1, <1>2, <2>2, <3>1 DEF Rests
    <3>. QED  BY <3>2
  <2>. QED  BY <1>1, <2>1, <2>2
<1>4. PICK j \in 1..Len(stack[t]) : stack[t][j] = RefFrame(s)
  BY <1>3
<1>. QED  BY <1>0, <1>4, OnStackWaits

\* In a state of the invariant a session that is being closed is quiescent.
LEMMA ClosingIsQuiescent ==
    ASSUME HInv
    PROVE  CloseIsQuiescent
<1> SUFFICES ASSUME NEW s \in Sessions, Busy(s, {"OnClose", "Close", "ReleaseSession"})
             PROVE  /\ refCount[s] = 0 /\ ~socketOpen[s] /\ ~connected[s]
                    /\ recvIO[s] = 0 /\ sendIO[s] = 0 /\ procQ[s] = 0
                    /\ ~Busy(s, {"CompletedRecv", "CompletedSend", "ProcessCompletion",
                                 "UnlockProc", "ReleaseRef"})
                    /\ OwnMode => ~Busy(s, {"OnDispatch"})
  BY DEF CloseIsQuiescent
<1>1. Waiting(EndFrame(s)) > 0 /\ ~socketOpen[s]
  BY ClosersBelow
<1>2. refCount[s] = 0 /\ ~connected[s]
  BY <1>1, SessionFacts DEF HInv
<1>3. recvIO[s] = 0 /\ sendIO[s] = 0 /\ procQ[s] = 0 /\ Waiting(RefFrame(s)) = 0
  <2>1. refCount[s] = Held(s) + Waiting(RefFrame(s)) 
    BY RefsOutParts DEF HInv, IInv, RefCountExact
  <2>2. /\ recvIO[s] \in Nat /\ sendIO[s] \in Nat /\ procQ[s] \in Nat
        /\ Waiting(RefFrame(s)) \in Nat
    BY CountTypes DEF HInv, IInv
  <2>3. Held(s) = recvIO[s] + sendIO[s] + procQ[s]
    BY <1>2, <2>2 DEF Held
  <2>4. ASSUME NEW a \in Nat, NEW b \in Nat, NEW c \in Nat, NEW d \in Nat, 0 = a + b + c + d
        PROVE  a = 0 /\ b = 0 /\ c = 0 /\ d = 0
    BY <2>4
  <2>5. 0 = recvIO[s] + sendIO[s] + procQ[s] + Waiting(RefFrame(s))
    BY <1>2, <2>1, <2>3
  <2>. QED  BY <2>2, <2>4, <2>5
<1>4. ~Busy(s, Guarded \cup {"ReleaseRef"})
  BY <1>3, WorkersHold
<1>5. /\ ~Busy(s, {"CompletedRecv", "CompletedSend", "ProcessCompletion",
                   "UnlockProc", "ReleaseRef"})
      /\ OwnMode => ~Busy(s, {"OnDispatch"})
  BY <1>4 DEF Busy, Guarded
<1>. QED  BY <1>1, <1>2, <1>3, <1>5

\* While OnClose, Close or ReleaseSession works on a session, its socket is
\* closed, none of its operations is outstanding and no worker is inside one of
\* its handlers, so nothing of this incarnation reaches the next one.
THEOREM ClosesQuiescently == Spec => []CloseIsQuiescent
BY HandlerInvariance, ClosingIsQuiescent, PTL
==============================================================================
