----------------------------- MODULE SampleProofs -----------------------------
(***************************************************************************)
(* Proofs about Sample: the map of DummyServer is exact, and the two       *)
(* assertions of DummyClient hold on the connections on which no stale     *)
(* range has been posted, for any number of sessions on either side and    *)
(* any number of connections.                                              *)
(***************************************************************************)
EXTENDS Sample, FiniteSetTheorems, SequenceTheorems, TLAPS

------------------------------------------------------------------------------
(* Packets on their way to a client                                        *)

\* The next broadcast behind d, of which the client has taken number q, is n.
Awaits(d, q, n) ==
    /\ \A i \in BroadcastsIn(d) : (\A j \in BroadcastsIn(d) : j <= i) => d[i].no + 1 = n
    /\ BroadcastsIn(d) = {} /\ q # 0 => q + 1 = n

\* What Append makes of the places in a sequence, ...
LEMMA Appended ==
    ASSUME NEW S, NEW d \in Seq(S), NEW p \in S
    PROVE  /\ Len(d) \in Nat /\ DOMAIN d = 1 .. Len(d)
           /\ Append(d, p) \in Seq(S) /\ DOMAIN Append(d, p) = 1 .. Len(d) + 1
           /\ \A i \in 1 .. Len(d) : Append(d, p)[i] = d[i]
           /\ Append(d, p)[Len(d) + 1] = p
<1>1. /\ Append(d, p) \in Seq(S) /\ Len(Append(d, p)) = Len(d) + 1
      /\ \A i \in 1 .. Len(d) : Append(d, p)[i] = d[i]
      /\ Append(d, p)[Len(d) + 1] = p
  BY AppendProperties
<1>. QED
  BY <1>1, LenProperties

\* ... and what Tail makes of them.
LEMMA Taken ==
    ASSUME NEW S, NEW d \in Seq(S), d # <<>>
    PROVE  /\ Len(d) \in Nat /\ Len(d) > 0 /\ DOMAIN d = 1 .. Len(d)
           /\ Head(d) = d[1] /\ d[1] \in S
           /\ Tail(d) \in Seq(S) /\ DOMAIN Tail(d) = 1 .. Len(d) - 1
           /\ \A i \in 1 .. Len(d) - 1 : Tail(d)[i] = d[i + 1]
<1>1. /\ Len(d) \in Nat /\ Len(d) > 0 /\ DOMAIN d = 1 .. Len(d)
  BY LenProperties, EmptySeq
<1>2. Tail(d) \in Seq(S) /\ Len(Tail(d)) = Len(d) - 1
  BY HeadTailProperties
<1>. QED
  BY <1>1, <1>2, LenProperties

\* The broadcast that is awaited can be appended, and the next one is awaited.
LEMMA BroadcastAppended ==
    ASSUME NEW d \in Seq(Packets), NEW q \in Nat, NEW n \in Nat, NEW p \in Packets,
           p.id = "ans_chat_msg1", p.no = n, Follow(d, q)
    PROVE  Awaits(d, q, n) => Follow(Append(d, p), q) /\ Awaits(Append(d, p), q, n + 1)
<1>. DEFINE e == Append(d, p)
<1>. SUFFICES ASSUME Awaits(d, q, n) PROVE Follow(e, q) /\ Awaits(e, q, n + 1)
  OBVIOUS
<1>1. /\ Len(d) \in Nat /\ DOMAIN d = 1 .. Len(d) /\ DOMAIN e = 1 .. Len(d) + 1
      /\ \A i \in 1 .. Len(d) : e[i] = d[i]
      /\ e[Len(d) + 1] = p
  BY Appended
<1>. HIDE DEF e
<1>2. /\ BroadcastsIn(e) = BroadcastsIn(d) \cup {Len(d) + 1}
      /\ \A i \in BroadcastsIn(d) : i \in 1 .. Len(d) /\ i < Len(d) + 1 /\ e[i] = d[i]
  BY <1>1 DEF BroadcastsIn
<1>3. ASSUME NEW i \in BroadcastsIn(e), q # 0, \A j \in BroadcastsIn(e) : i <= j
      PROVE  e[i].no = q + 1
  <2>1. CASE i \in BroadcastsIn(d)
    BY <1>2, <1>3, <2>1 DEF Follow
  <2>2. CASE i = Len(d) + 1
    <3>1. BroadcastsIn(d) = {}
      <4>1. ASSUME NEW j \in BroadcastsIn(d) PROVE FALSE
        <5>1. j \in 1 .. Len(d) /\ i <= j
          BY <1>2, <1>3
        <5>. QED
          BY <1>1, <2>2, <5>1
      <4>. QED
        BY <4>1
    <3>. QED
      BY <1>1, <1>3, <2>2, <3>1 DEF Awaits
  <2>. QED
    BY <1>2, <2>1, <2>2
<1>4. ASSUME NEW i \in BroadcastsIn(e), NEW j \in BroadcastsIn(e), i < j,
             \A l \in BroadcastsIn(e) : l <= i \/ j <= l
      PROVE  e[j].no = e[i].no + 1
  <2>1. i \in BroadcastsIn(d)
    <3>1. CASE i = Len(d) + 1
      BY <1>1, <1>2, <1>4, <3>1
    <3>. QED
      BY <1>2, <3>1
  <2>2. CASE j \in BroadcastsIn(d)
    BY <1>2, <1>4, <2>1, <2>2 DEF Follow
  <2>3. CASE j = Len(d) + 1
    <3>1. \A l \in BroadcastsIn(d) : l <= i
      BY <1>1, <1>2, <1>4, <2>3
    <3>2. d[i].no + 1 = n
      BY <2>1, <3>1 DEF Awaits
    <3>. QED
      BY <1>1, <1>2, <2>1, <2>3, <3>2
  <2>. QED
    BY <1>2, <2>2, <2>3
<1>5. ASSUME NEW i \in BroadcastsIn(e), \A j \in BroadcastsIn(e) : j <= i
      PROVE  e[i].no + 1 = n + 1
  <2>1. i = Len(d) + 1
    BY <1>1, <1>2, <1>5
  <2>. QED
    BY <1>1, <2>1
<1>6. BroadcastsIn(e) # {}
  BY <1>2
<1>. QED
  BY <1>3, <1>4, <1>5, <1>6 DEF Follow, Awaits

\* Another packet changes nothing for the broadcasts.
LEMMA EchoAppended ==
    ASSUME NEW d \in Seq(Packets), NEW q \in Nat, NEW p \in Packets, p.id # "ans_chat_msg1"
    PROVE  /\ Follow(Append(d, p), q) <=> Follow(d, q)
           /\ \A n \in Nat : Awaits(Append(d, p), q, n) <=> Awaits(d, q, n)
<1>. DEFINE e == Append(d, p)
<1>1. /\ Len(d) \in Nat /\ DOMAIN d = 1 .. Len(d) /\ DOMAIN e = 1 .. Len(d) + 1
      /\ \A i \in 1 .. Len(d) : e[i] = d[i]
      /\ e[Len(d) + 1] = p
  BY Appended
<1>. HIDE DEF e
<1>2. BroadcastsIn(e) = BroadcastsIn(d) /\ \A i \in BroadcastsIn(d) : e[i] = d[i]
  BY <1>1 DEF BroadcastsIn
<1>3. Follow(e, q) <=> Follow(d, q)
  BY <1>2 DEF Follow
<1>4. \A n \in Nat : Awaits(e, q, n) <=> Awaits(d, q, n)
  BY <1>2 DEF Awaits
<1>. QED
  BY <1>3, <1>4 DEF e

\* The client takes a broadcast: it is the one from which the others follow.
LEMMA BroadcastTaken ==
    ASSUME NEW d \in Seq(Packets), NEW q \in Nat, d # <<>>, Head(d).id = "ans_chat_msg1",
           Follow(d, q)
    PROVE  /\ Follow(Tail(d), Head(d).no)
           /\ \A n \in Nat : Awaits(d, q, n) => Awaits(Tail(d), Head(d).no, n)
<1>. DEFINE e == Tail(d)
<1>1. /\ Len(d) \in Nat /\ Len(d) > 0 /\ DOMAIN d = 1 .. Len(d) /\ DOMAIN e = 1 .. Len(d) - 1
      /\ Head(d) = d[1]
      /\ \A i \in 1 .. Len(d) - 1 : e[i] = d[i + 1]
  BY Taken
<1>. HIDE DEF e
<1>2. /\ 1 \in BroadcastsIn(d) /\ \A i \in BroadcastsIn(d) : i \in 1 .. Len(d)
      /\ \A i \in BroadcastsIn(d) : i = 1 \/ i - 1 \in BroadcastsIn(e)
      /\ \A i \in BroadcastsIn(e) : /\ i \in 1 .. Len(d) - 1 /\ i + 1 \in BroadcastsIn(d)
                                    /\ e[i] = d[i + 1]
  <2>1. \A i \in BroadcastsIn(d) : i \in 1 .. Len(d) /\ d[i].id = "ans_chat_msg1"
    BY <1>1 DEF BroadcastsIn
  <2>2. ASSUME NEW i \in BroadcastsIn(d), i # 1 PROVE i - 1 \in BroadcastsIn(e)
    <3>1. PICK m \in 1 .. Len(d) - 1 : i = m + 1
      <4>1. i - 1 \in 1 .. Len(d) - 1 /\ i = (i - 1) + 1
        BY <1>1, <2>1, <2>2
      <4>. QED
        BY <4>1
    <3>2. e[m].id = "ans_chat_msg1" /\ i - 1 = m
      BY <1>1, <2>1, <3>1
    <3>. QED
      BY <1>1, <3>1, <3>2 DEF BroadcastsIn
  <2>3. ASSUME NEW i \in BroadcastsIn(e)
        PROVE  i \in 1 .. Len(d) - 1 /\ i + 1 \in BroadcastsIn(d) /\ e[i] = d[i + 1]
    BY <1>1 DEF BroadcastsIn
  <2>4. 1 \in BroadcastsIn(d)
    BY <1>1 DEF BroadcastsIn
  <2>. QED
    BY <2>1, <2>2, <2>3, <2>4
<1>3. ASSUME NEW i \in BroadcastsIn(e), \A j \in BroadcastsIn(e) : i <= j
      PROVE  e[i].no = Head(d).no + 1
  <2>1. \A l \in BroadcastsIn(d) : l <= 1 \/ i + 1 <= l
    BY <1>1, <1>2, <1>3
  <2>2. d[i + 1].no = d[1].no + 1
    <3>1. PICK m \in BroadcastsIn(d) : m = i + 1
      BY <1>2
    <3>. QED
      BY <1>1, <1>2, <2>1, <3>1 DEF Follow
  <2>. QED
    BY <1>1, <1>2, <2>2
<1>4. ASSUME NEW i \in BroadcastsIn(e), NEW j \in BroadcastsIn(e), i < j,
             \A l \in BroadcastsIn(e) : l <= i \/ j <= l
      PROVE  e[j].no = e[i].no + 1
  <2>1. PICK a \in BroadcastsIn(d), b \in BroadcastsIn(d) : a = i + 1 /\ b = j + 1
    BY <1>2
  <2>2. a < b /\ \A l \in BroadcastsIn(d) : l <= a \/ b <= l
    BY <1>1, <1>2, <1>4, <2>1
  <2>3. d[b].no = d[a].no + 1
    BY <2>2 DEF Follow
  <2>. QED
    BY <1>2, <2>1, <2>3
<1>5. ASSUME NEW n \in Nat, Awaits(d, q, n) PROVE Awaits(e, Head(d).no, n)
  <2>1. ASSUME NEW i \in BroadcastsIn(e), \A j \in BroadcastsIn(e) : j <= i
        PROVE  e[i].no + 1 = n
    <3>1. PICK a \in BroadcastsIn(d) : a = i + 1
      BY <1>2
    <3>2. \A l \in BroadcastsIn(d) : l <= a
      BY <1>1, <1>2, <2>1, <3>1
    <3>. QED
      BY <1>2, <1>5, <3>1, <3>2 DEF Awaits
  <2>2. ASSUME BroadcastsIn(e) = {} PROVE Head(d).no + 1 = n
    <3>1. \A l \in BroadcastsIn(d) : l <= 1
      BY <1>2, <2>2
    <3>. QED
      BY <1>1, <1>2, <1>5, <3>1 DEF Awaits
  <2>. QED
    BY <2>1, <2>2 DEF Awaits
<1>. QED
  BY <1>3, <1>4, <1>5 DEF Follow, e

\* The client takes another packet, which changes nothing for the broadcasts.
LEMMA EchoTaken ==
    ASSUME NEW d \in Seq(Packets), NEW q \in Nat, d # <<>>, Head(d).id # "ans_chat_msg1"
    PROVE  /\ Follow(d, q) => Follow(Tail(d), q)
           /\ \A n \in Nat : Awaits(d, q, n) => Awaits(Tail(d), q, n)
<1>. DEFINE e == Tail(d)
<1>1. /\ Len(d) \in Nat /\ Len(d) > 0 /\ DOMAIN d = 1 .. Len(d) /\ DOMAIN e = 1 .. Len(d) - 1
      /\ Head(d) = d[1]
      /\ \A i \in 1 .. Len(d) - 1 : e[i] = d[i + 1]
  BY Taken
<1>. HIDE DEF e
<1>2. /\ \A i \in BroadcastsIn(d) : i \in 1 .. Len(d) /\ i - 1 \in BroadcastsIn(e)
      /\ \A i \in BroadcastsIn(e) : /\ i \in 1 .. Len(d) - 1 /\ i + 1 \in BroadcastsIn(d)
                                    /\ e[i] = d[i + 1]
  <2>1. \A i \in BroadcastsIn(d) : i \in 1 .. Len(d) /\ d[i].id = "ans_chat_msg1"
    BY <1>1 DEF BroadcastsIn
  <2>2. ASSUME NEW i \in BroadcastsIn(d) PROVE i - 1 \in BroadcastsIn(e)
    <3>1. PICK m \in 1 .. Len(d) - 1 : i = m + 1
      <4>1. i # 1
        BY <1>1, <2>1
      <4>2. i - 1 \in 1 .. Len(d) - 1 /\ i = (i - 1) + 1
        BY <1>1, <2>1, <4>1
      <4>. QED
        BY <4>2
    <3>2. e[m].id = "ans_chat_msg1" /\ i - 1 = m
      BY <1>1, <2>1, <3>1
    <3>. QED
      BY <1>1, <3>1, <3>2 DEF BroadcastsIn
  <2>3. ASSUME NEW i \in BroadcastsIn(e)
        PROVE  i \in 1 .. Len(d) - 1 /\ i + 1 \in BroadcastsIn(d) /\ e[i] = d[i + 1]
    BY <1>1 DEF BroadcastsIn
  <2>. QED
    BY <2>1, <2>2, <2>3
<1>3. ASSUME Follow(d, q), NEW i \in BroadcastsIn(e), q # 0, \A j \in BroadcastsIn(e) : i <= j
      PROVE  e[i].no = q + 1
  <2>1. PICK a \in BroadcastsIn(d) : a = i + 1
    BY <1>2
  <2>2. \A l \in BroadcastsIn(d) : a <= l
    BY <1>1, <1>2, <1>3, <2>1
  <2>. QED
    BY <1>2, <1>3, <2>1, <2>2 DEF Follow
<1>4. ASSUME Follow(d, q), NEW i \in BroadcastsIn(e), NEW j \in BroadcastsIn(e), i < j,
             \A l \in BroadcastsIn(e) : l <= i \/ j <= l
      PROVE  e[j].no = e[i].no + 1
  <2>1. PICK a \in BroadcastsIn(d), b \in BroadcastsIn(d) : a = i + 1 /\ b = j + 1
    BY <1>2
  <2>2. a < b /\ \A l \in BroadcastsIn(d) : l <= a \/ b <= l
    BY <1>1, <1>2, <1>4, <2>1
  <2>3. d[b].no = d[a].no + 1
    BY <1>4, <2>2 DEF Follow
  <2>. QED
    BY <1>2, <2>1, <2>3
<1>5. ASSUME NEW n \in Nat, Awaits(d, q, n) PROVE Awaits(e, q, n)
  <2>1. ASSUME NEW i \in BroadcastsIn(e), \A j \in BroadcastsIn(e) : j <= i
        PROVE  e[i].no + 1 = n
    <3>1. PICK a \in BroadcastsIn(d) : a = i + 1
      BY <1>2
    <3>2. \A l \in BroadcastsIn(d) : l <= a
      BY <1>1, <1>2, <2>1, <3>1
    <3>. QED
      BY <1>2, <1>5, <3>1, <3>2 DEF Awaits
  <2>2. BroadcastsIn(e) = {} => BroadcastsIn(d) = {}
    BY <1>2
  <2>. QED
    BY <1>5, <2>1, <2>2 DEF Awaits
<1>. QED
  BY <1>3, <1>4, <1>5 DEF Follow, e

------------------------------------------------------------------------------
(* The invariant                                                           *)

\* Between AddNet and RemoveNet.
InMap(s) == stage[s] \in {"registered", "receiving"}

\* The number of the next broadcast to the session of slot s.
Expected(s) == IF sNo[s] \in todo THEN seq - 1 ELSE seq

\* Connections that AcceptThread has taken up.
Accepted == {k \in Conns : state[k] \in {"open", "shut"}}

\* Nothing is sent to the client before the connection has been accepted.
ConnsOK ==
    \A k \in Conns :
        /\ state[k] = "new" <=> k > made
        /\ state[k] \in {"new", "pending"} => down[k] = <<>>

\* Every slot is free, once in the list, or has an accepted connection of its
\* own; and AcceptThread is in one OnAccept at a time.
SlotsOK ==
    /\ \A i, j \in DOMAIN free : free[i] = free[j] => i = j
    /\ \A s \in Slots : stage[s] = "free" <=> \E i \in DOMAIN free : free[i] = s
    /\ \A s \in Slots : stage[s] # "free" => conn[s] \in Accepted
    /\ \A s, u \in Slots :
           stage[s] # "free" /\ stage[u] # "free" /\ conn[s] = conn[u] => s = u
    /\ \A s, u \in Slots : stage[s] = "accepting" /\ stage[u] = "accepting" => s = u

\* The slots in the map have different numbers, and Broadcast has yet to send to
\* some of them.
NumbersOK ==
    /\ netMap = {<<sNo[s], s>> : s \in {t \in Slots : InMap(t)}}
    /\ \A s \in Slots : InMap(s) => sNo[s] \in 1 .. maxNo /\ ready[s]
    /\ \A s, u \in Slots : InMap(s) /\ InMap(u) /\ sNo[s] = sNo[u] => s = u
    /\ \A n \in todo : \E s \in Slots : InMap(s) /\ sNo[s] = n
    /\ todo # {} => seq > 0

\* A number is given once for a connection.
CountOK ==
    maxNo + (IF \E s \in Slots : stage[s] = "accepting" THEN 1 ELSE 0) <= Cardinality(Accepted)

\* Every client object is free, once in the list, or has a connection of its own.
ClientsOK ==
    /\ \A i, j \in DOMAIN cFree : cFree[i] = cFree[j] => i = j
    /\ \A c \in Clients : cConn[c] = None <=> \E i \in DOMAIN cFree : cFree[i] = c
    /\ \A c \in Clients : cConn[c] <= made
    /\ \A c, d \in Clients : cConn[c] = cConn[d] /\ cConn[c] # None => c = d

\* At most one request or echo is under way, the latest, ...
EchoOK(c, k) ==
    /\ Len(up[k]) <= 1
    /\ \A i \in DOMAIN up[k] : up[k][i].no = cNo[c]
    /\ \A i \in DOMAIN down[k] : down[k][i].id = "ans_chat_msg" =>
           /\ down[k][i].no = cNo[c] /\ up[k] = <<>>
           /\ \A j \in DOMAIN down[k] : down[k][j].id = "ans_chat_msg" => j = i

\* ... until a stale range is posted.
EchoesOK == \A c \in Clients : cConn[c] # None /\ ~stale[cConn[c]] => EchoOK(c, cConn[c])

\* Broadcasts are sent from AddNet on, ...
QuietUntilAdded ==
    \A c \in Clients : cConn[c] # None =>
        /\ state[cConn[c]] = "pending" => cSeq[c] = 0
        /\ \A s \in Slots : stage[s] = "accepting" /\ conn[s] = cConn[c] => cSeq[c] = 0
Unsent ==
    \A s \in Slots : stage[s] = "accepting" => down[conn[s]] = <<>>

\* ... with numbers of main, ...
NumbersOfMain == \A k \in Conns : \A i \in BroadcastsIn(down[k]) : down[k][i].no < seq

\* ... and each one follows the one before, until a stale range is posted.
NextIsAwaited ==
    \A c \in Clients, s \in Slots :
        cConn[c] # None /\ ~refused[cConn[c]] /\ ~stale[cConn[c]]
            /\ InMap(s) /\ conn[s] = cConn[c] /\ state[cConn[c]] = "open"
        => Awaits(down[cConn[c]], cSeq[c], Expected(s))

IInv ==
    /\ SampleTypeOK
    /\ ConnsOK /\ SlotsOK /\ NumbersOK /\ CountOK /\ ClientsOK
    /\ EchoesOK /\ QuietUntilAdded /\ Unsent /\ NumbersOfMain
    /\ BroadcastsFollow /\ NextIsAwaited

------------------------------------------------------------------------------
(* Types                                                                   *)

\* There are MaxConns connections, and no more are accepted.
LEMMA ConnsFinite ==
    /\ IsFiniteSet(Conns) /\ Cardinality(Conns) = MaxConns
    /\ IsFiniteSet(Accepted) /\ Cardinality(Accepted) \in Nat
    /\ Cardinality(Accepted) <= Cardinality(Conns)
<1>1. IsFiniteSet(Conns) /\ Cardinality(Conns) = MaxConns
  BY SampleAssumption, FS_Interval DEF Conns
<1>2. Accepted \subseteq Conns
  BY DEF Accepted
<1>. QED
  BY <1>1, <1>2, FS_Subset, FS_CardinalityType


\* The packets that the two programs send.
LEMMA PacketsTyped ==
    ASSUME NEW n \in 0 .. MaxSeq + MaxChat
    PROVE  Ask(n) \in Packets /\ Ans(n) \in Packets /\ Ans1(n) \in Packets
BY DEF Ask, Ans, Ans1, Packets

\* What PostSend changes, for any packet.
LEMMA PostSendEffect ==
    ASSUME SampleTypeOK, NEW k \in Conns, NEW p \in Packets, PostSend(k, p)
    PROVE  /\ down' \in [Conns -> Seq(Packets)] /\ refused' \in [Conns -> BOOLEAN]
           /\ \A l \in Conns : l # k => down'[l] = down[l] /\ refused'[l] = refused[l]
           /\ state[k] # "open" => down' = down /\ refused' = refused
           /\ refused[k] => refused'[k]
           /\ \/ down'[k] = down[k] /\ (state[k] = "open" => refused'[k])
              \/ down'[k] = Append(down[k], p) /\ state[k] = "open"
<1>1. /\ down \in [Conns -> Seq(Packets)] /\ refused \in [Conns -> BOOLEAN]
      /\ Append(down[k], p) \in Seq(Packets) /\ Len(down[k]) \in Nat
  BY AppendProperties, LenProperties DEF SampleTypeOK
<1>2. CASE state[k] = "open" /\ Len(down[k]) < Room
  <2>1. down' = [down EXCEPT ![k] = Append(down[k], p)] /\ refused' = refused
    BY <1>1, <1>2, SampleAssumption DEF PostSend
  <2>. QED
    BY <1>1, <1>2, <2>1
<1>3. CASE state[k] = "open" /\ ~(Len(down[k]) < Room)
  <2>1. down' = down /\ refused' = [refused EXCEPT ![k] = TRUE]
    BY <1>1, <1>3, SampleAssumption DEF PostSend
  <2>. QED
    BY <1>1, <1>3, <2>1
<1>4. CASE state[k] # "open"
  <2>1. down' = down /\ refused' = refused
    BY <1>4 DEF PostSend
  <2>. QED
    BY <1>1, <1>4, <2>1
<1>. QED
  BY <1>2, <1>3, <1>4

\* An entry of the map that is to be sent to next is a slot in the map.
LEMMA EntryIsSlot ==
    ASSUME SampleTypeOK, NumbersOK, NEW e \in netMap
    PROVE  /\ e[2] \in Slots /\ InMap(e[2]) /\ e[1] = sNo[e[2]]
           /\ e[1] \in 1 .. maxNo
BY DEF NumbersOK, SampleTypeOK

\* A packet that is sent again takes a place among the others.
LEMMA RepeatedTyped ==
    ASSUME NEW d \in Seq(Packets), NEW p \in Packets, NEW e \in Repeated(d, p)
    PROVE  /\ e \in Seq(Packets)
           /\ \A i \in DOMAIN e : e[i] = p \/ (i \in DOMAIN d /\ e[i] = d[i])
<1>1. CASE e = Append(d, p)
  <2>1. /\ Append(d, p) \in Seq(Packets) /\ DOMAIN Append(d, p) = 1 .. Len(d) + 1
        /\ Len(d) \in Nat /\ DOMAIN d = 1 .. Len(d)
        /\ \A i \in 1 .. Len(d) : Append(d, p)[i] = d[i]
        /\ Append(d, p)[Len(d) + 1] = p
    BY Appended
  <2>2. ASSUME NEW i \in 1 .. Len(d) + 1 PROVE i = Len(d) + 1 \/ i \in 1 .. Len(d)
    BY <2>1
  <2>. QED
    BY <1>1, <2>1, <2>2
<1>2. ASSUME NEW i \in DOMAIN d, e = [d EXCEPT ![i] = p]
      PROVE  /\ e \in Seq(Packets)
             /\ \A j \in DOMAIN e : e[j] = p \/ (j \in DOMAIN d /\ e[j] = d[j])
  <2>1. Len(d) \in Nat /\ DOMAIN d = 1 .. Len(d) /\ d \in [1 .. Len(d) -> Packets]
    BY LenProperties
  <2>2. e \in [1 .. Len(d) -> Packets]
    BY <1>2, <2>1
  <2>3. e \in Seq(Packets)
    BY <2>1, <2>2
  <2>. QED
    BY <1>2, <2>1, <2>2, <2>3
<1>. QED
  BY <1>1, <1>2 DEF Repeated

\* A stale range changes the packets of one connection, of which no more is
\* claimed.  What the server sends again it has sent to a slot in the map.
LEMMA StaleSendEffect ==
    ASSUME SampleTypeOK, NEW c \in Clients, StaleSend(c)
    PROVE  \E k \in Conns :
               /\ k = cConn[c] /\ state[k] = "open"
               /\ stale' = [stale EXCEPT ![k] = TRUE]
               /\ up' \in [Conns -> Seq(Packets)] /\ down' \in [Conns -> Seq(Packets)]
               /\ \A l \in Conns : l # k => up'[l] = up[l] /\ down'[l] = down[l]
               /\ down' = down \/ \E s \in Slots : InMap(s) /\ conn[s] = k
               /\ \A i \in BroadcastsIn(down'[k]) :
                      \/ down'[k][i].no < seq
                      \/ i \in BroadcastsIn(down[k]) /\ down'[k][i] = down[k][i]
               /\ UNCHANGED <<made, state, refused, slotVars, mapVars, clientVars>>
<1>1. /\ up \in [Conns -> Seq(Packets)] /\ down \in [Conns -> Seq(Packets)]
      /\ MaxSeq \in Nat /\ MaxChat \in Nat /\ seq \in 0 .. MaxSeq /\ cNo[c] \in 0 .. MaxChat
  BY SampleAssumption DEF SampleTypeOK
<1>2. PICK k \in Conns :
          /\ k = cConn[c] /\ state[k] = "open" /\ stale' = [stale EXCEPT ![k] = TRUE]
          /\ UNCHANGED <<made, state, refused, slotVars, mapVars, clientVars>>
  BY DEF StaleSend, SampleTypeOK
<1>3. CASE \E n \in 1 .. cNo[c] : \E d \in Repeated(up[k], Ask(n)) :
               up' = [up EXCEPT ![k] = d] /\ UNCHANGED down
  <2>1. PICK n \in 1 .. cNo[c] :
            \E d \in Repeated(up[k], Ask(n)) : up' = [up EXCEPT ![k] = d] /\ UNCHANGED down
    BY <1>3
  <2>2. PICK d \in Repeated(up[k], Ask(n)) : up' = [up EXCEPT ![k] = d] /\ UNCHANGED down
    BY <2>1
  <2>3. n \in 0 .. MaxSeq + MaxChat
    BY <1>1
  <2>4. d \in Seq(Packets)
    BY <1>1, <2>3, PacketsTyped, RepeatedTyped
  <2>5. up' \in [Conns -> Seq(Packets)] /\ \A l \in Conns : l # k => up'[l] = up[l]
    BY <1>1, <2>2, <2>4
  <2>. QED
    BY <1>1, <1>2, <2>2, <2>5
<1>4. CASE /\ \E s \in Slots : conn[s] = k /\ stage[s] \in {"registered", "receiving"}
           /\ \E p \in {Ans(n) : n \in 1 .. cNo[c]} \cup {Ans1(n) : n \in 0 .. seq - 1} :
                  \E d \in Repeated(down[k], p) :
                      down' = [down EXCEPT ![k] = d] /\ UNCHANGED up
  <2>1. PICK p \in {Ans(n) : n \in 1 .. cNo[c]} \cup {Ans1(n) : n \in 0 .. seq - 1} :
            \E d \in Repeated(down[k], p) : down' = [down EXCEPT ![k] = d] /\ UNCHANGED up
    BY <1>4
  <2>2. p \in Packets /\ (p.id = "ans_chat_msg1" => p.no < seq)
    <3>1. ASSUME NEW n \in 1 .. cNo[c], p = Ans(n) PROVE p \in Packets /\ p.id = "ans_chat_msg"
      <4>1. n \in 0 .. MaxSeq + MaxChat
        BY <1>1
      <4>. QED
        BY <3>1, <4>1, PacketsTyped DEF Ans
    <3>2. ASSUME NEW n \in 0 .. seq - 1, p = Ans1(n) PROVE p \in Packets /\ p.no < seq
      <4>1. n \in 0 .. MaxSeq + MaxChat /\ n < seq
        BY <1>1
      <4>. QED
        BY <3>2, <4>1, PacketsTyped DEF Ans1
    <3>. QED
      BY <2>1, <3>1, <3>2
  <2>3. PICK d \in Repeated(down[k], p) : down' = [down EXCEPT ![k] = d] /\ UNCHANGED up
    BY <2>1
  <2>4. /\ d \in Seq(Packets)
        /\ \A i \in DOMAIN d : d[i] = p \/ (i \in DOMAIN down[k] /\ d[i] = down[k][i])
    BY <1>1, <2>2, RepeatedTyped
  <2>5. /\ down' \in [Conns -> Seq(Packets)] /\ down'[k] = d
        /\ \A l \in Conns : l # k => down'[l] = down[l]
    BY <1>1, <2>3, <2>4
  <2>6. \A i \in BroadcastsIn(d) : \/ d[i].no < seq
                                   \/ i \in BroadcastsIn(down[k]) /\ d[i] = down[k][i]
    BY <2>2, <2>4 DEF BroadcastsIn
  <2>7. \E s \in Slots : InMap(s) /\ conn[s] = k
    BY <1>4 DEF InMap
  <2>. QED
    BY <1>1, <1>2, <2>3, <2>5, <2>6, <2>7
<1>. QED
  BY <1>2, <1>3, <1>4 DEF StaleSend

\* Every step keeps the types.
LEMMA TypeStep ==
    ASSUME IInv, [Next]_vars
    PROVE  SampleTypeOK'
<1>. DEFINE ConnT == /\ made \in 0 .. MaxConns
                     /\ state \in [Conns -> {"new", "pending", "open", "shut"}]
                     /\ up \in [Conns -> Seq(Packets)] /\ down \in [Conns -> Seq(Packets)]
                     /\ refused \in [Conns -> BOOLEAN] /\ stale \in [Conns -> BOOLEAN]
            SlotT == /\ free \in Seq(Slots)
                     /\ stage \in [Slots -> {"free", "accepting", "registered", "receiving", "removed"}]
                     /\ conn \in [Slots -> Conns \cup {None}]
                     /\ sNo \in [Slots -> Nat] /\ ready \in [Slots -> BOOLEAN]
            MapT == /\ maxNo \in 0 .. Cardinality(Conns)
                    /\ netMap \subseteq (1 .. Cardinality(Conns)) \X Slots
                    /\ seq \in 0 .. MaxSeq /\ todo \subseteq 1 .. Cardinality(Conns)
            ClientT == /\ cFree \in Seq(Clients)
                       /\ cConn \in [Clients -> Conns \cup {None}]
                       /\ cNo \in [Clients -> 0 .. MaxChat] /\ cSeq \in [Clients -> 0 .. MaxSeq]
<1>0. /\ ConnT /\ SlotT /\ MapT /\ ClientT
      /\ SampleTypeOK /\ ConnsOK /\ SlotsOK /\ NumbersOK /\ CountOK /\ NumbersOfMain
      /\ MaxChat \in Nat /\ MaxSeq \in Nat /\ MaxConns \in Nat
      /\ Cardinality(Conns) \in Nat /\ Cardinality(Accepted) <= Cardinality(Conns)
      /\ Cardinality(Accepted) \in Nat
  BY ConnsFinite, SampleAssumption DEF IInv, SampleTypeOK
<1>1. SUFFICES ConnT' /\ SlotT' /\ MapT' /\ ClientT'
  BY DEF SampleTypeOK
<1>2. /\ UNCHANGED connVars => ConnT'
      /\ UNCHANGED slotVars => SlotT'
      /\ UNCHANGED mapVars => MapT'
      /\ UNCHANGED clientVars => ClientT'
  BY <1>0 DEF connVars, slotVars, mapVars, clientVars
<1>3. CASE UNCHANGED vars
  BY <1>2, <1>3 DEF vars
<1>4. ASSUME NEW k \in Conns, Accept(k) PROVE ConnT' /\ SlotT' /\ MapT' /\ ClientT'
  <2>1. MapT' /\ ClientT' /\ UNCHANGED <<made, up, down, refused, stale, sNo, ready>>
    BY <1>2, <1>4 DEF Accept
  <2>2. ConnT'
    BY <1>0, <1>4, <2>1 DEF Accept
  <2>3. SlotT'
    <3>1. CASE free # <<>>
      <4>1. Head(free) \in Slots /\ Tail(free) \in Seq(Slots)
        BY <1>0, <3>1, HeadTailProperties
      <4>2. /\ free' = Tail(free) /\ stage' = [stage EXCEPT ![Head(free)] = "accepting"]
            /\ conn' = [conn EXCEPT ![Head(free)] = k]
        BY <1>4, <3>1 DEF Accept
      <4>. QED
        BY <1>0, <2>1, <4>1, <4>2
    <3>2. CASE free = <<>>
      BY <1>0, <1>4, <2>1, <3>2 DEF Accept
    <3>. QED
      BY <3>1, <3>2
  <2>. QED
    BY <2>1, <2>2, <2>3
<1>5. ASSUME NEW s \in Slots, OnAccept(s) \/ PostRecv(s)
      PROVE  ConnT' /\ SlotT' /\ MapT' /\ ClientT'
  <2>1. ConnT' /\ MapT' /\ ClientT'
    BY <1>2, <1>5 DEF OnAccept, PostRecv
  <2>2. SlotT'
    BY <1>0, <1>5 DEF OnAccept, PostRecv
  <2>. QED
    BY <2>1, <2>2
<1>6. ASSUME NEW s \in Slots, AddNet(s) PROVE ConnT' /\ SlotT' /\ MapT' /\ ClientT'
  <2>1. ConnT' /\ ClientT' /\ UNCHANGED <<free, conn, ready, seq, todo>>
    BY <1>2, <1>6 DEF AddNet
  <2>2. maxNo' = maxNo + 1 /\ maxNo + 1 \in 1 .. Cardinality(Conns)
    <3>1. maxNo' = maxNo + 1 /\ stage[s] = "accepting"
      BY <1>6 DEF AddNet
    <3>2. maxNo + 1 <= Cardinality(Accepted)
      BY <1>0, <3>1 DEF CountOK
    <3>. QED
      BY <1>0, <3>1, <3>2
  <2>3. SlotT'
    BY <1>0, <1>6, <2>1, <2>2 DEF AddNet
  <2>4. MapT'
    BY <1>0, <1>6, <2>1, <2>2 DEF AddNet
  <2>. QED
    BY <2>1, <2>3, <2>4
<1>7. ASSUME NEW s \in Slots, ChatMsg(s) PROVE ConnT' /\ SlotT' /\ MapT' /\ ClientT'
  <2>1. PICK k \in Conns : k = conn[s]
    BY <1>0, <1>7 DEF ChatMsg, SlotsOK, Accepted
  <2>2. up[k] # <<>> /\ up[k] \in Seq(Packets) /\ up' = [up EXCEPT ![k] = Tail(up[k])]
    BY <1>0, <1>7, <2>1 DEF ChatMsg
  <2>3. Head(up[k]) \in Packets /\ Tail(up[k]) \in Seq(Packets)
    BY <2>2, HeadTailProperties
  <2>4. Ans(Head(up[k]).no) \in Packets
    BY <2>3, PacketsTyped DEF Packets
  <2>5. PostSend(k, Ans(Head(up[k]).no))
    BY <1>7, <2>1 DEF ChatMsg
  <2>6. down' \in [Conns -> Seq(Packets)] /\ refused' \in [Conns -> BOOLEAN]
    BY <1>0, <2>4, <2>5, PostSendEffect
  <2>7. UNCHANGED <<made, state, stale, slotVars, mapVars, clientVars>>
    BY <1>7 DEF ChatMsg
  <2>8. ConnT'
    BY <1>0, <2>2, <2>3, <2>6, <2>7
  <2>. QED
    BY <1>2, <2>7, <2>8
<1>8. ASSUME NEW s \in Slots, RemoveNet(s) PROVE ConnT' /\ SlotT' /\ MapT' /\ ClientT'
  <2>1. ConnT' /\ ClientT'
    BY <1>2, <1>8 DEF RemoveNet
  <2>2. SlotT' /\ MapT'
    BY <1>0, <1>8 DEF RemoveNet
  <2>. QED
    BY <2>1, <2>2
<1>9. ASSUME NEW s \in Slots, OnClose(s) PROVE ConnT' /\ SlotT' /\ MapT' /\ ClientT'
  <2>1. MapT' /\ ClientT' /\ UNCHANGED <<made, state, down, refused, stale, sNo>>
    BY <1>2, <1>9 DEF OnClose
  <2>2. Append(free, s) \in Seq(Slots) /\ <<>> \in Seq(Packets)
    BY <1>0, AppendProperties, EmptySeq
  <2>3. ConnT' /\ SlotT'
    BY <1>0, <1>9, <2>1, <2>2 DEF OnClose
  <2>. QED
    BY <2>1, <2>3
<1>10. ASSUME Broadcast PROVE ConnT' /\ SlotT' /\ MapT' /\ ClientT'
  <2>1. ConnT' /\ SlotT' /\ ClientT' /\ UNCHANGED <<maxNo, netMap>>
    BY <1>2, <1>10 DEF Broadcast
  <2>2. seq' = seq + 1 /\ seq < MaxSeq /\ todo' = {e[1] : e \in netMap}
    BY <1>10 DEF Broadcast
  <2>3. seq' \in 0 .. MaxSeq
    BY <1>0, <2>2
  <2>4. todo' \subseteq 1 .. Cardinality(Conns)
    BY <1>0, <2>2
  <2>. QED
    BY <1>0, <2>1, <2>3, <2>4
<1>11. ASSUME BroadcastNext PROVE ConnT' /\ SlotT' /\ MapT' /\ ClientT'
  <2>1. UNCHANGED <<made, state, up, stale, slotVars, maxNo, netMap, seq, clientVars>>
    BY <1>11 DEF BroadcastNext
  <2>2. PICK e \in netMap : /\ e[1] \in todo /\ todo' = todo \ {e[1]}
                            /\ PostSend(conn[e[2]], Ans1(seq - 1))
    BY <1>11 DEF BroadcastNext
  <2>3. PICK k \in Conns : k = conn[e[2]]
    BY <1>0, EntryIsSlot DEF SlotsOK, InMap, Accepted
  <2>4. seq - 1 \in 0 .. MaxSeq + MaxChat
    BY <1>0, <2>2 DEF NumbersOK
  <2>5. down' \in [Conns -> Seq(Packets)] /\ refused' \in [Conns -> BOOLEAN]
    BY <1>0, <2>2, <2>3, <2>4, PacketsTyped, PostSendEffect
  <2>6. ConnT' /\ MapT'
    BY <1>0, <2>1, <2>2, <2>5
  <2>. QED
    BY <1>2, <2>1, <2>6
<1>12. ASSUME OnConnect PROVE ConnT' /\ SlotT' /\ MapT' /\ ClientT'
  <2>1. SlotT' /\ MapT' /\ UNCHANGED <<down, refused, stale>>
    BY <1>2, <1>12 DEF OnConnect
  <2>2. made < MaxConns /\ made' = made + 1 /\ cFree # <<>>
    BY <1>12 DEF OnConnect
  <2>3. PICK c \in Clients : c = Head(cFree)
    BY <1>0, <2>2, HeadTailProperties
  <2>4. PICK k \in Conns : k = made + 1 /\ made' = k
    <3>1. made + 1 \in Conns
      BY <1>0, <2>2 DEF Conns
    <3>. QED
      BY <2>2, <3>1
  <2>5. /\ cNo[c] < MaxChat /\ cNo' = [cNo EXCEPT ![c] = cNo[c] + 1]
        /\ cFree' = Tail(cFree) /\ cConn' = [cConn EXCEPT ![c] = k]
        /\ cSeq' = [cSeq EXCEPT ![c] = 0]
        /\ state' = [state EXCEPT ![k] = "pending"]
        /\ up' = [up EXCEPT ![k] = <<Ask(cNo'[c])>>]
    BY <1>12, <2>3, <2>4 DEF OnConnect
  <2>6. cNo[c] + 1 \in 0 .. MaxChat /\ cNo'[c] = cNo[c] + 1
    <3>1. cNo[c] \in 0 .. MaxChat
      BY <1>0
    <3>. QED
      BY <1>0, <2>5, <3>1
  <2>7. <<Ask(cNo'[c])>> \in Seq(Packets)
    <3>1. cNo'[c] \in 0 .. MaxSeq + MaxChat
      BY <1>0, <2>6
    <3>2. Ask(cNo'[c]) \in Packets
      BY <3>1, PacketsTyped
    <3>. QED
      BY <3>2
  <2>8. Tail(cFree) \in Seq(Clients) /\ 0 \in 0 .. MaxSeq
    BY <1>0, <2>2, HeadTailProperties
  <2>9. ConnT'
    <3>1. made' \in 0 .. MaxConns
      BY <1>0, <2>2
    <3>. QED
      BY <1>0, <2>1, <2>5, <2>7, <3>1
  <2>10. ClientT'
    BY <1>0, <2>5, <2>6, <2>8
  <2>. QED
    BY <2>1, <2>9, <2>10
<1>13. ASSUME NEW c \in Clients, ClientWorker(c) PROVE ConnT' /\ SlotT' /\ MapT' /\ ClientT'
  <2>1. /\ SlotT' /\ MapT' /\ UNCHANGED <<made, state, refused, stale, cFree, cConn>>
        /\ cConn[c] # None /\ down' = [down EXCEPT ![cConn[c]] = Tail(@)]
        /\ down[cConn[c]] # <<>>
    BY <1>2, <1>13 DEF ClientWorker, ResChatMsg, ResChatMsg1, HasPacket, Take
  <2>2. PICK k \in Conns : k = cConn[c]
    BY <1>0, <2>1
  <2>3. down[k] \in Seq(Packets) /\ down[k] # <<>>
    BY <1>0, <2>1, <2>2
  <2>4. Tail(down[k]) \in Seq(Packets) /\ down[k][1] = Head(down[k]) /\ 1 \in DOMAIN down[k]
    BY <2>3, Taken
  <2>5. CASE ResChatMsg(c)
    <3>1. /\ cNo[c] < MaxChat /\ cNo' = [cNo EXCEPT ![c] = cNo[c] + 1] /\ cSeq' = cSeq
          /\ up' = [up EXCEPT ![k] = IF state[k] = "open" /\ Len(up[k]) < Room
                                     THEN Append(up[k], Ask(cNo[c] + 1)) ELSE up[k]]
      BY <2>2, <2>5 DEF ResChatMsg
    <3>2. cNo[c] + 1 \in 0 .. MaxChat
      <4>1. cNo[c] \in 0 .. MaxChat
        BY <1>0
      <4>. QED
        BY <1>0, <3>1, <4>1
    <3>3. Append(up[k], Ask(cNo[c] + 1)) \in Seq(Packets) /\ up[k] \in Seq(Packets)
      <4>1. Ask(cNo[c] + 1) \in Packets
        BY <1>0, <3>2, PacketsTyped
      <4>. QED
        BY <1>0, <4>1, AppendProperties
    <3>. QED
      BY <1>0, <2>1, <2>2, <2>4, <3>1, <3>2, <3>3
  <2>6. CASE ResChatMsg1(c)
    <3>1. /\ cSeq' = [cSeq EXCEPT ![c] = Head(down[k]).no] /\ UNCHANGED <<up, cNo>>
          /\ Head(down[k]).id = "ans_chat_msg1"
      BY <2>2, <2>6 DEF ResChatMsg1, Received
    <3>2. 1 \in BroadcastsIn(down[k])
      BY <2>4, <3>1 DEF BroadcastsIn
    <3>3. Head(down[k]).no \in Nat
      <4>1. Head(down[k]) \in Packets
        BY <2>3, HeadTailProperties
      <4>. QED
        BY <4>1 DEF Packets
    <3>4. Head(down[k]).no \in 0 .. MaxSeq
      BY <1>0, <2>4, <3>2, <3>3 DEF NumbersOfMain
    <3>. QED
      BY <1>0, <2>1, <2>2, <2>4, <3>1, <3>4
  <2>. QED
    BY <1>13, <2>5, <2>6 DEF ClientWorker
<1>14. ASSUME NEW c \in Clients, ClientOnClose(c) PROVE ConnT' /\ SlotT' /\ MapT' /\ ClientT'
  <2>1. SlotT' /\ MapT' /\ UNCHANGED <<made, state, up, refused, stale, cNo, cSeq>>
    BY <1>2, <1>14 DEF ClientOnClose
  <2>2. Append(cFree, c) \in Seq(Clients) /\ <<>> \in Seq(Packets)
    BY <1>0, AppendProperties, EmptySeq
  <2>. QED
    BY <1>0, <1>14, <2>1, <2>2 DEF ClientOnClose
<1>15. ASSUME NEW k \in Conns, Shut(k) PROVE ConnT' /\ SlotT' /\ MapT' /\ ClientT'
  <2>1. SlotT' /\ MapT' /\ ClientT'
    BY <1>2, <1>15 DEF Shut
  <2>. QED
    BY <1>0, <1>15, <2>1 DEF Shut
<1>16. ASSUME NEW c \in Clients, StaleSend(c) PROVE ConnT' /\ SlotT' /\ MapT' /\ ClientT'
  <2>1. PICK k \in Conns :
            /\ stale' = [stale EXCEPT ![k] = TRUE]
            /\ up' \in [Conns -> Seq(Packets)] /\ down' \in [Conns -> Seq(Packets)]
            /\ UNCHANGED <<made, state, refused, slotVars, mapVars, clientVars>>
    BY <1>0, <1>16, StaleSendEffect
  <2>2. ConnT'
    BY <1>0, <2>1
  <2>. QED
    BY <1>2, <2>1, <2>2
<1>. HIDE DEF ConnT, SlotT, MapT, ClientT
<1>. QED
  BY <1>3, <1>4, <1>5, <1>6, <1>7, <1>8, <1>9, <1>10, <1>11, <1>12, <1>13, <1>14, <1>15, <1>16
  DEF Next, Acceptor, Closing


------------------------------------------------------------------------------
(* Connections, slots and client objects                                   *)

\* A list without repetitions loses its first element, and nothing else, ...
LEMMA ListTail ==
    ASSUME NEW S, NEW d \in Seq(S), d # <<>>, \A i, j \in DOMAIN d : d[i] = d[j] => i = j
    PROVE  /\ \A i, j \in DOMAIN Tail(d) : Tail(d)[i] = Tail(d)[j] => i = j
           /\ \A x : (\E i \in DOMAIN Tail(d) : Tail(d)[i] = x)
                         <=> x # Head(d) /\ \E i \in DOMAIN d : d[i] = x
           /\ \E i \in DOMAIN d : d[i] = Head(d)
<1>. DEFINE e == Tail(d)
<1>1. /\ Len(d) \in Nat /\ Len(d) > 0 /\ DOMAIN d = 1 .. Len(d) /\ DOMAIN e = 1 .. Len(d) - 1
      /\ Head(d) = d[1]
      /\ \A i \in 1 .. Len(d) - 1 : e[i] = d[i + 1]
  BY Taken
<1>. HIDE DEF e
<1>2. 1 \in DOMAIN d /\ \A i \in DOMAIN e : i + 1 \in DOMAIN d /\ i + 1 # 1
  BY <1>1
<1>3. ASSUME NEW i \in DOMAIN e, NEW j \in DOMAIN e, e[i] = e[j] PROVE i = j
  <2>1. PICK a \in DOMAIN d, b \in DOMAIN d : a = i + 1 /\ b = j + 1
    BY <1>2
  <2>2. a = b
    BY <1>1, <1>3, <2>1
  <2>. QED
    BY <1>1, <2>1, <2>2
<1>4. ASSUME NEW i \in DOMAIN e PROVE e[i] # Head(d) /\ \E j \in DOMAIN d : d[j] = e[i]
  <2>1. PICK a \in DOMAIN d : a = i + 1 /\ a # 1
    BY <1>2
  <2>. QED
    BY <1>1, <1>2, <2>1
<1>5. ASSUME NEW j \in DOMAIN d, d[j] # Head(d) PROVE \E i \in DOMAIN e : e[i] = d[j]
  <2>1. j \in 1 .. Len(d) /\ j # 1
    BY <1>1, <1>5
  <2>2. PICK i \in 1 .. Len(d) - 1 : j = i + 1
    <3>1. j - 1 \in 1 .. Len(d) - 1 /\ j = (j - 1) + 1
      BY <1>1, <2>1
    <3>. QED
      BY <3>1
  <2>. QED
    BY <1>1, <2>2
<1>. QED
  BY <1>1, <1>2, <1>3, <1>4, <1>5 DEF e

\* ... and gains a new one behind the others.
LEMMA ListAppend ==
    ASSUME NEW S, NEW d \in Seq(S), NEW x \in S, \A i, j \in DOMAIN d : d[i] = d[j] => i = j,
           ~\E i \in DOMAIN d : d[i] = x
    PROVE  /\ \A i, j \in DOMAIN Append(d, x) : Append(d, x)[i] = Append(d, x)[j] => i = j
           /\ \A y : (\E i \in DOMAIN Append(d, x) : Append(d, x)[i] = y)
                         <=> y = x \/ \E i \in DOMAIN d : d[i] = y
<1>. DEFINE e == Append(d, x)
<1>1. /\ Len(d) \in Nat /\ DOMAIN d = 1 .. Len(d) /\ DOMAIN e = 1 .. Len(d) + 1
      /\ \A i \in 1 .. Len(d) : e[i] = d[i]
      /\ e[Len(d) + 1] = x
  BY Appended
<1>. HIDE DEF e
<1>2. DOMAIN e = DOMAIN d \cup {Len(d) + 1} /\ \A i \in DOMAIN d : e[i] = d[i]
  BY <1>1
<1>. QED
  BY <1>1, <1>2 DEF e

\* A connection stays new until it is made, and no packets are sent to the client
\* before it has been accepted.
LEMMA ConnsStep ==
    ASSUME IInv, [Next]_vars
    PROVE  ConnsOK'
<1>0. /\ SampleTypeOK /\ ConnsOK /\ SlotsOK /\ NumbersOK
      /\ made \in Nat /\ MaxConns \in Nat /\ Conns \subseteq Nat /\ None \notin Conns
      /\ state \in [Conns -> {"new", "pending", "open", "shut"}]
      /\ down \in [Conns -> Seq(Packets)]
      /\ cConn \in [Clients -> Conns \cup {None}]
  <2>1. SampleTypeOK /\ ConnsOK /\ SlotsOK /\ NumbersOK
    BY DEF IInv
  <2>2. MaxConns \in Nat /\ Conns \subseteq Nat /\ None \notin Conns
    BY SampleAssumption DEF Conns, None
  <2>. QED
    BY <2>1, <2>2 DEF SampleTypeOK
<1>1. CASE UNCHANGED <<made, state, down>>
  BY <1>0, <1>1 DEF ConnsOK
<1>2. ASSUME NEW k \in Conns, Accept(k) PROVE ConnsOK'
  BY <1>0, <1>2 DEF Accept, ConnsOK
<1>3. ASSUME NEW k \in Conns, Shut(k) PROVE ConnsOK'
  BY <1>0, <1>3 DEF Shut, ConnsOK
<1>4. ASSUME NEW k \in Conns, NEW p \in Packets, PostSend(k, p), UNCHANGED <<made, state>>
      PROVE  ConnsOK'
  <2>1. \A l \in Conns : state[l] \in {"new", "pending"} => down'[l] = down[l]
    BY <1>0, <1>4, PostSendEffect
  <2>. QED
    BY <1>0, <1>4, <2>1 DEF ConnsOK
<1>5. ASSUME NEW s \in Slots, ChatMsg(s) PROVE ConnsOK'
  <2>1. PICK k \in Conns : k = conn[s]
    BY <1>0, <1>5 DEF ChatMsg, SlotsOK, Accepted
  <2>2. Head(up[k]) \in Packets
    <3>1. up[k] \in Seq(Packets) /\ up[k] # <<>>
      BY <1>0, <1>5, <2>1 DEF ChatMsg, SampleTypeOK
    <3>. QED
      BY <3>1, HeadTailProperties
  <2>3. Ans(Head(up[k]).no) \in Packets
    BY <2>2, PacketsTyped DEF Packets
  <2>. QED
    BY <1>4, <1>5, <2>1, <2>3 DEF ChatMsg
<1>6. ASSUME BroadcastNext PROVE ConnsOK'
  <2>1. PICK e \in netMap : e[1] \in todo /\ PostSend(conn[e[2]], Ans1(seq - 1))
    BY <1>6 DEF BroadcastNext
  <2>2. PICK k \in Conns : k = conn[e[2]]
    BY <1>0, EntryIsSlot DEF SlotsOK, InMap, Accepted
  <2>3. Ans1(seq - 1) \in Packets
    <3>1. seq \in 0 .. MaxSeq /\ seq > 0 /\ MaxSeq \in Nat /\ MaxChat \in Nat
      BY <1>0, <2>1, SampleAssumption DEF NumbersOK, SampleTypeOK
    <3>2. seq - 1 \in 0 .. MaxSeq + MaxChat
      BY <3>1
    <3>. QED
      BY <3>2, PacketsTyped
  <2>. QED
    BY <1>4, <1>6, <2>1, <2>2, <2>3 DEF BroadcastNext
<1>7. ASSUME OnConnect PROVE ConnsOK'
  <2>1. made < MaxConns /\ made' = made + 1
    BY <1>7 DEF OnConnect
  <2>2. PICK k \in Conns : k = made + 1 /\ made' = k
    <3>1. made + 1 \in Conns
      BY <1>0, <2>1 DEF Conns
    <3>. QED
      BY <2>1, <3>1
  <2>3. state' = [state EXCEPT ![k] = "pending"] /\ down' = down
    BY <1>7, <2>2 DEF OnConnect
  <2>4. \A l \in Conns : l > made' <=> l > made /\ l # k
    BY <1>0, <2>2
  <2>5. state[k] = "new" /\ down[k] = <<>>
    <3>1. k > made
      BY <1>0, <2>2
    <3>. QED
      BY <1>0, <3>1 DEF ConnsOK
  <2>. QED
    BY <1>0, <2>3, <2>4, <2>5 DEF ConnsOK
<1>8. ASSUME NEW c \in Clients, ClientWorker(c) PROVE ConnsOK'
  <2>1. /\ UNCHANGED <<made, state>> /\ cConn[c] # None /\ down[cConn[c]] # <<>>
        /\ down' = [down EXCEPT ![cConn[c]] = Tail(@)]
    BY <1>8 DEF ClientWorker, ResChatMsg, ResChatMsg1, HasPacket, Take
  <2>. QED
    BY <1>0, <2>1 DEF ConnsOK
<1>9. ASSUME NEW c \in Clients, ClientOnClose(c) PROVE ConnsOK'
  BY <1>0, <1>9 DEF ClientOnClose, ConnsOK
<1>10. ASSUME NEW s \in Slots, OnAccept(s) \/ AddNet(s) \/ PostRecv(s) \/ Closing(s) PROVE ConnsOK'
  <2>1. UNCHANGED <<made, state, down>>
    BY <1>10 DEF OnAccept, AddNet, PostRecv, Closing, RemoveNet, OnClose, connVars
  <2>. QED
    BY <1>1, <2>1
<1>11. ASSUME Broadcast PROVE ConnsOK'
  BY <1>1, <1>11 DEF Broadcast, connVars
<1>12. CASE UNCHANGED vars
  BY <1>1, <1>12 DEF vars, connVars
<1>13. ASSUME NEW c \in Clients, StaleSend(c) PROVE ConnsOK'
  <2>1. PICK k \in Conns : /\ state[k] = "open" /\ UNCHANGED <<made, state>>
                           /\ \A l \in Conns : l # k => down'[l] = down[l]
    BY <1>0, <1>13, StaleSendEffect
  <2>. QED
    BY <1>0, <2>1 DEF ConnsOK
<1>. QED
  BY <1>2, <1>3, <1>5, <1>6, <1>7, <1>8, <1>9, <1>10, <1>11, <1>12, <1>13 DEF Next, Acceptor

\* A connection that is accepted stays so, and only AcceptThread and Shut accept.
LEMMA AcceptedStep ==
    ASSUME IInv, [Next]_vars
    PROVE  /\ Accepted \subseteq Accepted'
           /\ (\A k \in Conns : ~Accept(k) /\ ~Shut(k)) => Accepted' = Accepted
<1>0. /\ SampleTypeOK /\ ConnsOK
      /\ made \in Nat /\ MaxConns \in Nat /\ Conns \subseteq Nat
      /\ state \in [Conns -> {"new", "pending", "open", "shut"}]
  BY SampleAssumption DEF IInv, SampleTypeOK, Conns
<1>1. CASE UNCHANGED state
  BY <1>1 DEF Accepted
<1>2. ASSUME NEW k \in Conns, Accept(k) \/ Shut(k) PROVE Accepted \subseteq Accepted'
  BY <1>0, <1>2 DEF Accept, Shut, Accepted
<1>3. ASSUME OnConnect PROVE Accepted' = Accepted
  <2>1. made < MaxConns /\ made' = made + 1
    BY <1>3 DEF OnConnect
  <2>2. PICK k \in Conns : k = made + 1 /\ made' = k
    <3>1. made + 1 \in Conns
      BY <1>0, <2>1 DEF Conns
    <3>. QED
      BY <2>1, <3>1
  <2>3. state' = [state EXCEPT ![k] = "pending"]
    BY <1>3, <2>2 DEF OnConnect
  <2>4. state[k] = "new"
    BY <1>0, <2>2 DEF ConnsOK
  <2>. QED
    BY <1>0, <2>3, <2>4 DEF Accepted
<1>4. ASSUME NEW s \in Slots, \/ OnAccept(s) \/ AddNet(s) \/ PostRecv(s)
                              \/ ChatMsg(s) \/ Closing(s)
      PROVE  UNCHANGED state
  BY <1>4 DEF OnAccept, AddNet, PostRecv, ChatMsg, Closing, RemoveNet, OnClose, connVars
<1>5. ASSUME NEW c \in Clients, ClientWorker(c) \/ ClientOnClose(c) \/ StaleSend(c)
      PROVE  UNCHANGED state
  BY <1>5 DEF ClientWorker, ResChatMsg, ResChatMsg1, ClientOnClose, StaleSend
<1>6. ASSUME Broadcast \/ BroadcastNext \/ UNCHANGED vars PROVE UNCHANGED state
  BY <1>6 DEF Broadcast, BroadcastNext, vars, connVars
<1>. QED
  BY <1>1, <1>2, <1>3, <1>4, <1>5, <1>6 DEF Next, Acceptor


\* A step of one slot among the stages that are not free, without a new
\* accept, keeps the slots.
LEMMA StageMoves ==
    ASSUME SampleTypeOK, SlotsOK, Accepted \subseteq Accepted', UNCHANGED <<free, conn>>,
           NEW s \in Slots, NEW x \in {"registered", "receiving", "removed"},
           stage[s] # "free", stage' = [stage EXCEPT ![s] = x]
    PROVE  SlotsOK'
<1>1. stage \in [Slots -> {"free", "accepting", "registered", "receiving", "removed"}]
  BY DEF SampleTypeOK
<1>2. \A u \in Slots : /\ stage'[u] = "free" <=> stage[u] = "free"
                       /\ stage'[u] = "accepting" => stage[u] = "accepting"
  BY <1>1
<1>. QED
  BY <1>2 DEF SlotsOK

\* Every slot stays free or with a connection of its own.
LEMMA SlotsStep ==
    ASSUME IInv, [Next]_vars
    PROVE  SlotsOK'
<1>0. /\ SampleTypeOK /\ SlotsOK /\ Accepted \subseteq Accepted'
      /\ stage \in [Slots -> {"free", "accepting", "registered", "receiving", "removed"}]
      /\ free \in Seq(Slots) /\ conn \in [Slots -> Conns \cup {None}]
  BY AcceptedStep DEF IInv, SampleTypeOK
<1>1. CASE UNCHANGED <<free, stage, conn>>
  BY <1>0, <1>1 DEF SlotsOK
<1>2. ASSUME NEW k \in Conns, Accept(k) PROVE SlotsOK'
  <2>1. CASE free = <<>>
    <3>1. UNCHANGED <<free, stage, conn>>
      BY <1>2, <2>1 DEF Accept
    <3>. QED
      BY <1>1, <3>1
  <2>2. CASE free # <<>>
    <3>1. PICK h \in Slots : h = Head(free)
      BY <1>0, <2>2, HeadTailProperties
    <3>2. /\ free' = Tail(free) /\ stage' = [stage EXCEPT ![h] = "accepting"]
          /\ conn' = [conn EXCEPT ![h] = k] /\ state' = [state EXCEPT ![k] = "open"]
          /\ state[k] = "pending" /\ \A s \in Slots : stage[s] # "accepting"
      BY <1>2, <2>2, <3>1 DEF Accept
    <3>3. \A i, j \in DOMAIN free : free[i] = free[j] => i = j
      BY <1>0 DEF SlotsOK
    <3>4. /\ \A i, j \in DOMAIN Tail(free) : Tail(free)[i] = Tail(free)[j] => i = j
          /\ \A x : (\E i \in DOMAIN Tail(free) : Tail(free)[i] = x)
                        <=> x # h /\ \E i \in DOMAIN free : free[i] = x
          /\ \E i \in DOMAIN free : free[i] = h
      BY <1>0, <2>2, <3>1, <3>3, ListTail
    <3>5. k \in Accepted' /\ k \notin Accepted
      BY <1>0, <3>2 DEF Accepted, SampleTypeOK
    <3>6. stage[h] = "free" /\ \A s \in Slots : stage'[s] = "free" <=> stage[s] = "free" /\ s # h
      BY <1>0, <3>2, <3>4 DEF SlotsOK
    <3>7. \A s \in Slots : stage'[s] = "free" <=> \E i \in DOMAIN free' : free'[i] = s
      <4>1. \A s \in Slots : stage[s] = "free" <=> \E i \in DOMAIN free : free[i] = s
        BY <1>0 DEF SlotsOK
      <4>2. free' = Tail(free)
        BY <3>2
      <4>. QED
        BY <3>4, <3>6, <4>1, <4>2
    <3>8. \A s \in Slots : stage'[s] # "free" => conn'[s] \in Accepted'
      BY <1>0, <3>2, <3>5, <3>6 DEF SlotsOK
    <3>9. ASSUME NEW s \in Slots, NEW u \in Slots, stage'[s] # "free", stage'[u] # "free",
                 conn'[s] = conn'[u]
          PROVE  s = u
      <4>1. CASE s = h \/ u = h
        BY <1>0, <3>2, <3>5, <3>6, <3>9, <4>1 DEF SlotsOK
      <4>2. CASE s # h /\ u # h
        BY <1>0, <3>2, <3>6, <3>9, <4>2 DEF SlotsOK
      <4>. QED
        BY <4>1, <4>2
    <3>10. \A s, u \in Slots : stage'[s] = "accepting" /\ stage'[u] = "accepting" => s = u
      BY <1>0, <3>2
    <3>. QED
      BY <3>2, <3>4, <3>7, <3>8, <3>9, <3>10 DEF SlotsOK
  <2>. QED
    BY <2>1, <2>2
<1>3. ASSUME NEW s \in Slots, OnAccept(s) PROVE SlotsOK'
  BY <1>1, <1>3 DEF OnAccept
<1>4. ASSUME NEW s \in Slots, AddNet(s) \/ PostRecv(s) \/ RemoveNet(s) PROVE SlotsOK'
  <2>1. PICK x \in {"registered", "receiving", "removed"} :
            /\ stage[s] # "free" /\ stage' = [stage EXCEPT ![s] = x]
            /\ UNCHANGED <<free, conn>>
    <3>1. CASE AddNet(s)
      BY <3>1 DEF AddNet
    <3>2. CASE PostRecv(s)
      BY <3>2 DEF PostRecv
    <3>3. CASE RemoveNet(s)
      BY <3>3 DEF RemoveNet
    <3>. QED
      BY <1>4, <3>1, <3>2, <3>3
  <2>. QED
    BY <1>0, <2>1, StageMoves
<1>5. ASSUME NEW s \in Slots, OnClose(s) PROVE SlotsOK'
  <2>1. /\ stage[s] = "removed" /\ free' = Append(free, s)
        /\ stage' = [stage EXCEPT ![s] = "free"] /\ conn' = [conn EXCEPT ![s] = None]
    BY <1>5 DEF OnClose
  <2>2. /\ \A i, j \in DOMAIN free : free[i] = free[j] => i = j
        /\ ~\E i \in DOMAIN free : free[i] = s
    BY <1>0, <2>1 DEF SlotsOK
  <2>3. /\ \A i, j \in DOMAIN free' : free'[i] = free'[j] => i = j
        /\ \A y : (\E i \in DOMAIN free' : free'[i] = y) <=> y = s \/ \E i \in DOMAIN free : free[i] = y
    BY <1>0, <2>1, <2>2, ListAppend
  <2>4. \A u \in Slots : /\ stage'[u] = "free" <=> stage[u] = "free" \/ u = s
                         /\ stage'[u] # "free" => conn'[u] = conn[u] /\ stage'[u] = stage[u]
    BY <1>0, <2>1
  <2>5. \A u \in Slots : stage'[u] = "free" <=> \E i \in DOMAIN free' : free'[i] = u
    BY <1>0, <2>3, <2>4 DEF SlotsOK
  <2>6. /\ \A u \in Slots : stage'[u] # "free" => conn'[u] \in Accepted'
        /\ \A t, u \in Slots : stage'[t] # "free" /\ stage'[u] # "free" /\ conn'[t] = conn'[u] => t = u
    BY <1>0, <2>4 DEF SlotsOK
  <2>7. \A t, u \in Slots : stage'[t] = "accepting" /\ stage'[u] = "accepting" => t = u
    BY <1>0, <2>4 DEF SlotsOK
  <2>. QED
    BY <2>3, <2>5, <2>6, <2>7 DEF SlotsOK
<1>6. ASSUME NEW s \in Slots, ChatMsg(s) PROVE SlotsOK'
  BY <1>1, <1>6 DEF ChatMsg, slotVars
<1>7. ASSUME NEW c \in Clients, ClientWorker(c) \/ ClientOnClose(c) \/ StaleSend(c)
      PROVE  SlotsOK'
  BY <1>1, <1>7 DEF ClientWorker, ResChatMsg, ResChatMsg1, ClientOnClose, StaleSend, slotVars
<1>8. ASSUME \/ Broadcast \/ BroadcastNext \/ OnConnect \/ UNCHANGED vars
             \/ \E k \in Conns : Shut(k)
      PROVE  SlotsOK'
  BY <1>1, <1>8 DEF Broadcast, BroadcastNext, OnConnect, Shut, vars, slotVars
<1>. QED
  BY <1>2, <1>3, <1>4, <1>5, <1>6, <1>7, <1>8 DEF Next, Acceptor, Closing

\* A number is given once for a connection that has been accepted.
LEMMA CountStep ==
    ASSUME IInv, [Next]_vars
    PROVE  CountOK'
<1>. DEFINE Accepting == \E s \in Slots : stage[s] = "accepting"
            Extra == IF Accepting THEN 1 ELSE 0
            Card == Cardinality(Accepted)
<1>0. /\ SampleTypeOK /\ SlotsOK /\ CountOK /\ Accepted \subseteq Accepted'
      /\ maxNo \in Nat
      /\ stage \in [Slots -> {"free", "accepting", "registered", "receiving", "removed"}]
      /\ state \in [Conns -> {"new", "pending", "open", "shut"}]
      /\ free \in Seq(Slots)
  <2>1. /\ SampleTypeOK /\ SlotsOK /\ CountOK /\ Accepted \subseteq Accepted'
    BY AcceptedStep DEF IInv
  <2>2. maxNo \in 0 .. MaxConns /\ MaxConns \in Nat
    BY <2>1, ConnsFinite, SampleAssumption DEF SampleTypeOK
  <2>3. maxNo \in Nat
    BY <2>2
  <2>. QED
    BY <2>1, <2>3 DEF SampleTypeOK
<1>1. /\ Card \in Nat /\ Card' \in Nat /\ Card <= Card'
      /\ IsFiniteSet(Accepted)
  <2>1. IsFiniteSet(Accepted) /\ Card \in Nat
    BY ConnsFinite
  <2>2. IsFiniteSet(Accepted')
    <3>1. Accepted' \subseteq Conns
      BY DEF Accepted
    <3>. QED
      BY <3>1, ConnsFinite, FS_Subset
  <2>. QED
    BY <1>0, <2>1, <2>2, FS_Subset, FS_CardinalityType
<1>2. Extra \in {0, 1} /\ Extra' \in {0, 1} /\ (maxNo + Extra <= Card)
      /\ (CountOK' <=> maxNo' + Extra' <= Card')
  BY <1>0 DEF CountOK
<1>3. ASSUME maxNo' = maxNo, \A s \in Slots : stage'[s] = "accepting" => stage[s] = "accepting"
      PROVE  CountOK'
  <2>1. Extra' <= Extra
    BY <1>3
  <2>. QED
    BY <1>0, <1>1, <1>2, <1>3, <2>1
<1>4. ASSUME NEW k \in Conns, Accept(k) PROVE CountOK'
  <2>1. CASE free = <<>>
    BY <1>3, <1>4, <2>1 DEF Accept, mapVars
  <2>2. CASE free # <<>>
    <3>1. /\ state[k] = "pending" /\ state' = [state EXCEPT ![k] = "open"]
          /\ maxNo' = maxNo /\ ~Accepting
      BY <1>4, <2>2 DEF Accept, mapVars
    <3>2. Accepted' = Accepted \cup {k} /\ k \notin Accepted
      BY <1>0, <3>1 DEF Accepted
    <3>3. Card' = Card + 1
      BY <1>1, <3>2, FS_AddElement
    <3>4. Extra = 0
      BY <3>1
    <3>. QED
      BY <1>0, <1>1, <1>2, <3>1, <3>3, <3>4
  <2>. QED
    BY <2>1, <2>2
<1>5. ASSUME NEW s \in Slots, AddNet(s) PROVE CountOK'
  <2>1. /\ stage[s] = "accepting" /\ maxNo' = maxNo + 1
        /\ stage' = [stage EXCEPT ![s] = "registered"]
    BY <1>5 DEF AddNet
  <2>2. Extra = 1
    BY <2>1
  <2>3. Extra' = 0
    <3>1. \A u \in Slots : stage'[u] # "accepting"
      BY <1>0, <2>1 DEF SlotsOK
    <3>. QED
      BY <3>1
  <2>. QED
    BY <1>0, <1>1, <1>2, <2>1, <2>2, <2>3
<1>6. ASSUME NEW s \in Slots, OnAccept(s) \/ PostRecv(s) \/ ChatMsg(s) \/ Closing(s)
      PROVE  CountOK'
  <2>1. maxNo' = maxNo
    BY <1>6 DEF OnAccept, PostRecv, ChatMsg, Closing, RemoveNet, OnClose, mapVars
  <2>2. \A u \in Slots : stage'[u] = "accepting" => stage[u] = "accepting"
    <3>1. CASE OnAccept(s) \/ ChatMsg(s)
      BY <3>1 DEF OnAccept, ChatMsg, slotVars
    <3>2. CASE PostRecv(s)
      BY <1>0, <3>2 DEF PostRecv
    <3>3. CASE RemoveNet(s)
      BY <1>0, <3>3 DEF RemoveNet
    <3>4. CASE OnClose(s)
      BY <1>0, <3>4 DEF OnClose
    <3>. QED
      BY <1>6, <3>1, <3>2, <3>3, <3>4 DEF Closing
  <2>. QED
    BY <1>3, <2>1, <2>2
<1>7. ASSUME NEW c \in Clients, ClientWorker(c) \/ ClientOnClose(c) \/ StaleSend(c)
      PROVE  CountOK'
  <2>1. UNCHANGED <<maxNo, stage>>
    BY <1>7 DEF ClientWorker, ResChatMsg, ResChatMsg1, ClientOnClose, StaleSend, slotVars, mapVars
  <2>. QED
    BY <1>3, <2>1
<1>8. ASSUME \/ Broadcast \/ BroadcastNext \/ OnConnect \/ UNCHANGED vars
             \/ \E k \in Conns : Shut(k)
      PROVE  CountOK'
  <2>1. UNCHANGED <<maxNo, stage>>
    BY <1>8 DEF Broadcast, BroadcastNext, OnConnect, Shut, vars, slotVars, mapVars
  <2>. QED
    BY <1>3, <2>1
<1>. QED
  BY <1>4, <1>5, <1>6, <1>7, <1>8 DEF Next, Acceptor


\* The map holds the slots between AddNet and RemoveNet, with numbers of their
\* own.
LEMMA NumbersStep ==
    ASSUME IInv, [Next]_vars
    PROVE  NumbersOK'
<1>0. /\ SampleTypeOK /\ SlotsOK /\ NumbersOK
      /\ maxNo \in Nat /\ seq \in Nat
      /\ stage \in [Slots -> {"free", "accepting", "registered", "receiving", "removed"}]
      /\ sNo \in [Slots -> Nat] /\ ready \in [Slots -> BOOLEAN]
  <2>1. SampleTypeOK /\ SlotsOK /\ NumbersOK
    BY DEF IInv
  <2>2. maxNo \in 0 .. MaxConns /\ MaxConns \in Nat /\ seq \in 0 .. MaxSeq /\ MaxSeq \in Nat
    BY <2>1, ConnsFinite, SampleAssumption DEF SampleTypeOK
  <2>. QED
    BY <2>1, <2>2 DEF SampleTypeOK
<1>1. ASSUME UNCHANGED <<netMap, sNo, maxNo, todo, seq>>,
             \A s \in Slots : InMap(s)' <=> InMap(s),
             \A s \in Slots : InMap(s) => ready'[s] = ready[s]
      PROVE  NumbersOK'
  BY <1>0, <1>1 DEF NumbersOK
<1>2. ASSUME UNCHANGED <<netMap, sNo, maxNo, todo, seq, stage, ready>>
      PROVE  NumbersOK'
  BY <1>1, <1>2 DEF InMap
<1>3. ASSUME NEW k \in Conns, Accept(k) PROVE NumbersOK'
  <2>1. UNCHANGED <<netMap, sNo, maxNo, todo, seq, ready>>
    BY <1>3 DEF Accept, mapVars
  <2>2. CASE free = <<>>
    BY <1>2, <1>3, <2>1, <2>2 DEF Accept
  <2>3. CASE free # <<>>
    <3>1. PICK h \in Slots : h = Head(free) /\ stage[h] = "free"
      <4>1. free \in Seq(Slots) /\ \A i, j \in DOMAIN free : free[i] = free[j] => i = j
        BY <1>0 DEF SlotsOK, SampleTypeOK
      <4>2. Head(free) \in Slots /\ \E i \in DOMAIN free : free[i] = Head(free)
        BY <2>3, <4>1, ListTail, HeadTailProperties
      <4>3. stage[Head(free)] = "free"
        BY <1>0, <4>2 DEF SlotsOK
      <4>. QED
        BY <4>2, <4>3
    <3>2. stage' = [stage EXCEPT ![h] = "accepting"]
      BY <1>3, <2>3, <3>1 DEF Accept
    <3>3. \A s \in Slots : InMap(s)' <=> InMap(s)
      BY <1>0, <3>1, <3>2 DEF InMap
    <3>. QED
      BY <1>1, <2>1, <3>3
  <2>. QED
    BY <2>2, <2>3
<1>4. ASSUME NEW s \in Slots, OnAccept(s) PROVE NumbersOK'
  <2>1. /\ stage[s] = "accepting" /\ ready' = [ready EXCEPT ![s] = TRUE]
        /\ UNCHANGED <<netMap, sNo, maxNo, todo, seq, stage>>
    BY <1>4 DEF OnAccept, mapVars
  <2>2. \A u \in Slots : InMap(u) => ready'[u] = ready[u]
    BY <1>0, <2>1 DEF InMap
  <2>3. \A u \in Slots : InMap(u)' <=> InMap(u)
    BY <2>1 DEF InMap
  <2>. QED
    BY <1>1, <2>1, <2>2, <2>3
<1>5. ASSUME NEW s \in Slots, AddNet(s) PROVE NumbersOK'
  <2>1. /\ stage[s] = "accepting" /\ ready[s] /\ todo = {} /\ maxNo' = maxNo + 1
        /\ sNo' = [sNo EXCEPT ![s] = maxNo + 1]
        /\ netMap' = netMap \cup {<<maxNo + 1, s>>}
        /\ stage' = [stage EXCEPT ![s] = "registered"]
        /\ UNCHANGED <<ready, seq, todo>>
    BY <1>5 DEF AddNet, Unlocked
  <2>2. ~InMap(s) /\ \A u \in Slots : InMap(u)' <=> InMap(u) \/ u = s
    BY <1>0, <2>1 DEF InMap
  <2>3. sNo'[s] = maxNo + 1 /\ \A u \in Slots : u # s => sNo'[u] = sNo[u]
    BY <1>0, <2>1
  <2>4. \A u \in Slots : InMap(u) => sNo[u] \in 1 .. maxNo /\ ready[u]
    BY <1>0 DEF NumbersOK
  <2>5. \A u \in Slots : InMap(u)' => sNo'[u] \in 1 .. maxNo' /\ ready'[u]
    BY <1>0, <2>1, <2>2, <2>3, <2>4
  <2>6. ASSUME NEW t \in Slots, NEW u \in Slots, InMap(t)', InMap(u)', sNo'[t] = sNo'[u]
        PROVE  t = u
    <3>1. CASE t = s \/ u = s
      <4>1. \A v \in Slots : InMap(v) => sNo[v] # maxNo + 1
        BY <1>0, <2>4
      <4>. QED
        BY <2>2, <2>3, <2>6, <3>1, <4>1
    <3>2. CASE t # s /\ u # s
      BY <1>0, <2>2, <2>3, <2>6, <3>2 DEF NumbersOK
    <3>. QED
      BY <3>1, <3>2
  <2>7. netMap' = {<<sNo'[u], u>> : u \in {t \in Slots : InMap(t)'}}
    <3>1. {t \in Slots : InMap(t)'} = {t \in Slots : InMap(t)} \cup {s}
      BY <2>2
    <3>2. netMap = {<<sNo'[u], u>> : u \in {t \in Slots : InMap(t)}}
      BY <1>0, <2>2, <2>3 DEF NumbersOK
    <3>. QED
      BY <2>1, <2>3, <3>1, <3>2
  <2>. QED
    BY <2>1, <2>5, <2>6, <2>7 DEF NumbersOK
<1>6. ASSUME NEW s \in Slots, PostRecv(s) PROVE NumbersOK'
  <2>1. /\ stage[s] = "registered" /\ stage' = [stage EXCEPT ![s] = "receiving"]
        /\ UNCHANGED <<netMap, sNo, maxNo, todo, seq, ready>>
    BY <1>6 DEF PostRecv, mapVars
  <2>2. \A u \in Slots : InMap(u)' <=> InMap(u)
    BY <1>0, <2>1 DEF InMap
  <2>. QED
    BY <1>1, <2>1, <2>2
<1>7. ASSUME NEW s \in Slots, RemoveNet(s) PROVE NumbersOK'
  <2>1. /\ InMap(s) /\ todo = {} /\ stage' = [stage EXCEPT ![s] = "removed"]
        /\ netMap' = {e \in netMap : e[1] # sNo[s]}
        /\ UNCHANGED <<sNo, maxNo, todo, seq, ready>>
    BY <1>7 DEF RemoveNet, Unlocked, InMap
  <2>2. \A u \in Slots : InMap(u)' <=> InMap(u) /\ u # s
    BY <1>0, <2>1 DEF InMap
  <2>3. \A u \in Slots : InMap(u) => (sNo[u] # sNo[s] <=> u # s)
    BY <1>0, <2>1 DEF NumbersOK
  <2>4. netMap' = {<<sNo'[u], u>> : u \in {t \in Slots : InMap(t)'}}
    <3>1. netMap = {<<sNo[u], u>> : u \in {t \in Slots : InMap(t)}}
      BY <1>0 DEF NumbersOK
    <3>2. \A u : <<sNo[u], u>>[1] = sNo[u]
      OBVIOUS
    <3>3. netMap' = {<<sNo[u], u>> : u \in {t \in Slots : InMap(t) /\ t # s}}
      BY <2>1, <2>3, <3>1, <3>2
    <3>4. {t \in Slots : InMap(t)'} = {t \in Slots : InMap(t) /\ t # s}
      BY <2>2
    <3>. QED
      BY <2>1, <3>3, <3>4
  <2>5. /\ \A u \in Slots : InMap(u)' => sNo'[u] \in 1 .. maxNo' /\ ready'[u]
        /\ \A t, u \in Slots : InMap(t)' /\ InMap(u)' /\ sNo'[t] = sNo'[u] => t = u
    BY <1>0, <2>1, <2>2 DEF NumbersOK
  <2>. QED
    BY <2>1, <2>4, <2>5 DEF NumbersOK
<1>8. ASSUME NEW s \in Slots, OnClose(s) PROVE NumbersOK'
  <2>1. /\ stage[s] = "removed" /\ stage' = [stage EXCEPT ![s] = "free"]
        /\ ready' = [ready EXCEPT ![s] = FALSE]
        /\ UNCHANGED <<netMap, sNo, maxNo, todo, seq>>
    BY <1>8 DEF OnClose, mapVars
  <2>2. \A u \in Slots : (InMap(u)' <=> InMap(u)) /\ (InMap(u) => ready'[u] = ready[u])
    BY <1>0, <2>1 DEF InMap
  <2>. QED
    BY <1>1, <2>1, <2>2
<1>9. ASSUME Broadcast PROVE NumbersOK'
  <2>1. /\ todo' = {e[1] : e \in netMap} /\ seq' = seq + 1
        /\ UNCHANGED <<netMap, sNo, maxNo, stage, ready>>
    BY <1>9 DEF Broadcast, slotVars
  <2>2. \A u \in Slots : InMap(u)' <=> InMap(u)
    BY <2>1 DEF InMap
  <2>3. ASSUME NEW n \in todo' PROVE \E s \in Slots : InMap(s)' /\ sNo'[s] = n
    <3>1. PICK e \in netMap : n = e[1]
      BY <2>1
    <3>2. e[2] \in Slots /\ InMap(e[2]) /\ e[1] = sNo[e[2]]
      BY <1>0, EntryIsSlot
    <3>. QED
      BY <2>1, <2>2, <3>1, <3>2
  <2>4. seq' > 0
    BY <1>0, <2>1
  <2>. QED
    BY <1>0, <2>1, <2>2, <2>3, <2>4 DEF NumbersOK
<1>10. ASSUME BroadcastNext PROVE NumbersOK'
  <2>1. /\ UNCHANGED <<netMap, sNo, maxNo, seq, stage, ready>>
        /\ \E e \in netMap : e[1] \in todo /\ todo' = todo \ {e[1]}
    BY <1>10 DEF BroadcastNext, slotVars
  <2>2. todo' \subseteq todo /\ (todo' # {} => todo # {})
    BY <2>1
  <2>3. \A u \in Slots : InMap(u)' <=> InMap(u)
    BY <2>1 DEF InMap
  <2>. QED
    BY <1>0, <2>1, <2>2, <2>3 DEF NumbersOK
<1>11. ASSUME \/ \E s \in Slots : ChatMsg(s)
              \/ \E c \in Clients : ClientWorker(c) \/ ClientOnClose(c) \/ StaleSend(c)
              \/ OnConnect \/ UNCHANGED vars
              \/ \E k \in Conns : Shut(k)
      PROVE  NumbersOK'
  BY <1>2, <1>11 DEF ChatMsg, ClientWorker, ResChatMsg, ResChatMsg1, ClientOnClose, OnConnect,
                     Shut, StaleSend, vars, slotVars, mapVars
<1>. QED
  BY <1>3, <1>4, <1>5, <1>6, <1>7, <1>8, <1>9, <1>10, <1>11 DEF Next, Acceptor, Closing

\* The client connects with a new connection and a free object.
LEMMA OnConnectEffect ==
    ASSUME IInv, OnConnect
    PROVE  \E c \in Clients, k \in Conns :
               /\ k = made + 1 /\ made' = k /\ c = Head(cFree)
               /\ cConn[c] = None /\ \A d \in Clients : cConn[d] # k
               /\ cFree # <<>> /\ cFree' = Tail(cFree)
               /\ cConn' = [cConn EXCEPT ![c] = k]
               /\ cNo[c] + 1 \in 0 .. MaxChat /\ cNo' = [cNo EXCEPT ![c] = cNo[c] + 1]
               /\ cSeq' = [cSeq EXCEPT ![c] = 0]
               /\ state[k] = "new" /\ state' = [state EXCEPT ![k] = "pending"]
               /\ down[k] = <<>> /\ down' = down /\ refused' = refused
               /\ up' = [up EXCEPT ![k] = <<Ask(cNo[c] + 1)>>]
               /\ UNCHANGED <<slotVars, mapVars>>
<1>0. SampleTypeOK /\ ConnsOK /\ ClientsOK
  BY DEF IInv
<1>1. made < MaxConns /\ made' = made + 1 /\ cFree # <<>>
  BY DEF OnConnect
<1>2. made \in 0 .. MaxConns /\ MaxConns \in Nat /\ MaxChat \in Nat
  BY <1>0, SampleAssumption DEF SampleTypeOK
<1>3. PICK k \in Conns : k = made + 1
  BY <1>1, <1>2 DEF Conns
<1>4. k > made /\ k \in Nat /\ k # None /\ state[k] = "new" /\ down[k] = <<>>
  BY <1>0, <1>2, <1>3 DEF ConnsOK, None
<1>5. PICK c \in Clients : c = Head(cFree) /\ cConn[c] = None
  <2>1. cFree \in Seq(Clients) /\ \A i, j \in DOMAIN cFree : cFree[i] = cFree[j] => i = j
    BY <1>0 DEF ClientsOK, SampleTypeOK
  <2>2. Head(cFree) \in Clients /\ \E i \in DOMAIN cFree : cFree[i] = Head(cFree)
    BY <1>1, <2>1, ListTail, HeadTailProperties
  <2>. QED
    BY <1>0, <2>2 DEF ClientsOK
<1>6. \A d \in Clients : cConn[d] # k
  <2>1. \A d \in Clients : cConn[d] <= made
    BY <1>0 DEF ClientsOK
  <2>. QED
    BY <1>2, <1>3, <2>1
<1>7. cNo[c] + 1 \in 0 .. MaxChat
  <2>1. cNo[c] < MaxChat /\ cNo[c] \in 0 .. MaxChat
    BY <1>0, <1>5 DEF OnConnect, SampleTypeOK
  <2>. QED
    BY <1>2, <2>1
<1>8. /\ cFree' = Tail(cFree) /\ cConn' = [cConn EXCEPT ![c] = k]
      /\ cNo' = [cNo EXCEPT ![c] = cNo[c] + 1]
      /\ cSeq' = [cSeq EXCEPT ![c] = 0]
      /\ state' = [state EXCEPT ![k] = "pending"]
      /\ up' = [up EXCEPT ![k] = <<Ask(cNo'[c])>>]
      /\ UNCHANGED <<down, refused, slotVars, mapVars>>
  BY <1>1, <1>3, <1>5 DEF OnConnect
<1>9. cNo'[c] = cNo[c] + 1
  BY <1>0, <1>5, <1>8 DEF SampleTypeOK
<1>. QED
  BY <1>1, <1>3, <1>4, <1>5, <1>6, <1>7, <1>8, <1>9

\* Every client object stays free or with a connection of its own.
LEMMA ClientsStep ==
    ASSUME IInv, [Next]_vars
    PROVE  ClientsOK'
<1>0. /\ SampleTypeOK /\ ClientsOK
      /\ made \in Nat /\ Conns \subseteq Nat /\ None \notin Conns /\ None = 0
      /\ cFree \in Seq(Clients) /\ cConn \in [Clients -> Conns \cup {None}]
  <2>1. SampleTypeOK /\ ClientsOK
    BY DEF IInv
  <2>2. MaxConns \in Nat /\ Conns \subseteq Nat /\ None \notin Conns /\ None = 0
    BY SampleAssumption DEF Conns, None
  <2>. QED
    BY <2>1, <2>2 DEF SampleTypeOK
<1>1. CASE UNCHANGED <<cFree, cConn, made>>
  BY <1>0, <1>1 DEF ClientsOK
<1>2. ASSUME OnConnect PROVE ClientsOK'
  <2>1. PICK c \in Clients, k \in Conns :
            /\ k = made + 1 /\ made' = k /\ c = Head(cFree)
            /\ cConn[c] = None /\ \A d \in Clients : cConn[d] # k
            /\ cFree # <<>> /\ cFree' = Tail(cFree)
            /\ cConn' = [cConn EXCEPT ![c] = k]
    BY <1>2, OnConnectEffect
  <2>2. \A i, j \in DOMAIN cFree : cFree[i] = cFree[j] => i = j
    BY <1>0 DEF ClientsOK
  <2>3. /\ \A i, j \in DOMAIN cFree' : cFree'[i] = cFree'[j] => i = j
        /\ \A x : (\E i \in DOMAIN cFree' : cFree'[i] = x)
                      <=> x # c /\ \E i \in DOMAIN cFree : cFree[i] = x
    BY <1>0, <2>1, <2>2, ListTail
  <2>4. \A d \in Clients : cConn'[d] = IF d = c THEN k ELSE cConn[d]
    BY <1>0, <2>1
  <2>5. \A d \in Clients : cConn'[d] = None <=> \E i \in DOMAIN cFree' : cFree'[i] = d
    BY <1>0, <2>1, <2>3, <2>4 DEF ClientsOK
  <2>6. ASSUME NEW d \in Clients PROVE cConn'[d] <= made'
    <3>1. cConn[d] <= made
      BY <1>0 DEF ClientsOK
    <3>2. cConn[d] \in Nat
      <4>1. cConn[d] \in Conns \cup {None} /\ None \in Nat
        BY <1>0
      <4>. QED
        BY <1>0, <4>1
    <3>. QED
      BY <1>0, <2>1, <2>4, <3>1, <3>2
  <2>7. \A d, e \in Clients : cConn'[d] = cConn'[e] /\ cConn'[d] # None => d = e
    BY <1>0, <2>1, <2>4 DEF ClientsOK
  <2>. QED
    BY <2>3, <2>5, <2>6, <2>7 DEF ClientsOK
<1>3. ASSUME NEW c \in Clients, ClientOnClose(c) PROVE ClientsOK'
  <2>1. /\ cConn[c] # None /\ cFree' = Append(cFree, c) /\ cConn' = [cConn EXCEPT ![c] = None]
        /\ made' = made
    BY <1>3 DEF ClientOnClose
  <2>2. /\ \A i, j \in DOMAIN cFree : cFree[i] = cFree[j] => i = j
        /\ ~\E i \in DOMAIN cFree : cFree[i] = c
    BY <1>0, <2>1 DEF ClientsOK
  <2>3. /\ \A i, j \in DOMAIN cFree' : cFree'[i] = cFree'[j] => i = j
        /\ \A y : (\E i \in DOMAIN cFree' : cFree'[i] = y)
                      <=> y = c \/ \E i \in DOMAIN cFree : cFree[i] = y
    BY <1>0, <2>1, <2>2, ListAppend
  <2>4. \A d \in Clients : cConn'[d] = IF d = c THEN None ELSE cConn[d]
    BY <1>0, <2>1
  <2>5. \A d \in Clients : cConn'[d] = None <=> \E i \in DOMAIN cFree' : cFree'[i] = d
    BY <1>0, <2>3, <2>4 DEF ClientsOK
  <2>6. \A d \in Clients : cConn'[d] <= made'
    BY <1>0, <2>1, <2>4 DEF ClientsOK
  <2>7. \A d, e \in Clients : cConn'[d] = cConn'[e] /\ cConn'[d] # None => d = e
    BY <1>0, <2>4 DEF ClientsOK
  <2>. QED
    BY <2>3, <2>5, <2>6, <2>7 DEF ClientsOK
<1>4. ASSUME NEW s \in Slots, \/ OnAccept(s) \/ AddNet(s) \/ PostRecv(s)
                              \/ ChatMsg(s) \/ Closing(s)
      PROVE  ClientsOK'
  <2>1. UNCHANGED <<cFree, cConn, made>>
    BY <1>4 DEF OnAccept, AddNet, PostRecv, ChatMsg, Closing, RemoveNet, OnClose, connVars, clientVars
  <2>. QED
    BY <1>1, <2>1
<1>5. ASSUME \/ \E k \in Conns : Accept(k) \/ Shut(k)
             \/ \E c \in Clients : ClientWorker(c) \/ StaleSend(c)
             \/ Broadcast \/ BroadcastNext \/ UNCHANGED vars
      PROVE  ClientsOK'
  BY <1>1, <1>5 DEF Accept, Shut, StaleSend, ClientWorker, ResChatMsg, ResChatMsg1, Broadcast, BroadcastNext,
                    vars, connVars, clientVars
<1>. QED
  BY <1>2, <1>3, <1>4, <1>5 DEF Next, Acceptor


------------------------------------------------------------------------------
(* Requests and echoes                                                     *)

\* The server takes a request: what changes is at the connection of the slot.
LEMMA ChatMsgEffect ==
    ASSUME IInv, NEW s \in Slots, ChatMsg(s)
    PROVE  \E k \in Conns, p \in Packets :
               /\ k = conn[s] /\ up[k] # <<>> /\ p = Ans(Head(up[k]).no)
               /\ p.id = "ans_chat_msg" /\ p.no = Head(up[k]).no
               /\ up' = [up EXCEPT ![k] = Tail(up[k])]
               /\ PostSend(k, p) /\ InMap(s)
               /\ UNCHANGED <<made, state, slotVars, mapVars, clientVars>>
<1>0. SampleTypeOK /\ SlotsOK
  BY DEF IInv
<1>1. stage[s] = "receiving" /\ up[conn[s]] # <<>>
  BY DEF ChatMsg
<1>2. PICK k \in Conns : k = conn[s]
  BY <1>0, <1>1 DEF SlotsOK, Accepted
<1>3. Head(up[k]) \in Packets
  <2>1. up[k] \in Seq(Packets) /\ up[k] # <<>>
    BY <1>0, <1>1, <1>2 DEF SampleTypeOK
  <2>. QED
    BY <2>1, HeadTailProperties
<1>4. PICK p \in Packets : p = Ans(Head(up[k]).no)
  BY <1>3, PacketsTyped DEF Packets
<1>5. p.id = "ans_chat_msg" /\ p.no = Head(up[k]).no
  BY <1>4 DEF Ans
<1>6. /\ up' = [up EXCEPT ![k] = Tail(up[k])] /\ PostSend(k, p)
      /\ UNCHANGED <<made, state, slotVars, mapVars, clientVars>>
  BY <1>2, <1>4 DEF ChatMsg
<1>. QED
  BY <1>1, <1>2, <1>4, <1>5, <1>6 DEF InMap

\* Broadcast sends to one session: what changes is at its connection.
LEMMA BroadcastNextEffect ==
    ASSUME IInv, BroadcastNext
    PROVE  \E s \in Slots, k \in Conns, p \in Packets :
               /\ InMap(s) /\ k = conn[s] /\ sNo[s] \in todo /\ todo' = todo \ {sNo[s]}
               /\ p.id = "ans_chat_msg1" /\ p.no = seq - 1 /\ seq - 1 \in Nat
               /\ PostSend(k, p)
               /\ UNCHANGED <<made, state, up, slotVars, maxNo, netMap, seq, clientVars>>
<1>0. SampleTypeOK /\ SlotsOK /\ NumbersOK
  BY DEF IInv
<1>1. PICK e \in netMap : /\ e[1] \in todo /\ todo' = todo \ {e[1]}
                          /\ PostSend(conn[e[2]], Ans1(seq - 1))
                          /\ UNCHANGED <<made, state, up, slotVars, maxNo, netMap, seq, clientVars>>
  BY DEF BroadcastNext
<1>2. PICK s \in Slots : s = e[2] /\ InMap(s) /\ e[1] = sNo[s]
  BY <1>0, EntryIsSlot
<1>3. PICK k \in Conns : k = conn[s]
  BY <1>0, <1>2 DEF SlotsOK, InMap, Accepted
<1>4. seq - 1 \in Nat /\ seq - 1 \in 0 .. MaxSeq + MaxChat
  <2>1. seq \in 0 .. MaxSeq /\ seq > 0 /\ MaxSeq \in Nat /\ MaxChat \in Nat
    BY <1>0, <1>1, SampleAssumption DEF NumbersOK, SampleTypeOK
  <2>. QED
    BY <2>1
<1>5. PICK p \in Packets : p = Ans1(seq - 1)
  BY <1>4, PacketsTyped
<1>6. p.id = "ans_chat_msg1" /\ p.no = seq - 1
  BY <1>5 DEF Ans1
<1>. QED
  BY <1>1, <1>2, <1>3, <1>4, <1>5, <1>6

\* A client takes a packet of its connection.
LEMMA WorkerEffect ==
    ASSUME IInv, NEW c \in Clients, ClientWorker(c)
    PROVE  \E k \in Conns :
               /\ k = cConn[c] /\ down[k] \in Seq(Packets) /\ down[k] # <<>>
               /\ Head(down[k]) \in Packets /\ Head(down[k]) = down[k][1] /\ 1 \in DOMAIN down[k]
               /\ down' = [down EXCEPT ![k] = Tail(down[k])]
               /\ \A d \in Clients : cConn[d] = k => d = c
               /\ UNCHANGED <<made, state, refused, slotVars, mapVars, cFree, cConn>>
               /\ \/ /\ Head(down[k]).id = "ans_chat_msg" /\ cSeq' = cSeq
                     /\ cNo' = [cNo EXCEPT ![c] = cNo[c] + 1]
                     /\ up' = [up EXCEPT ![k] = IF state[k] = "open" /\ Len(up[k]) < Room
                                                THEN Append(up[k], Ask(cNo[c] + 1)) ELSE up[k]]
                  \/ /\ Head(down[k]).id = "ans_chat_msg1" /\ cNo' = cNo /\ up' = up
                     /\ cSeq' = [cSeq EXCEPT ![c] = Head(down[k]).no]
<1>0. SampleTypeOK /\ ClientsOK
  BY DEF IInv
<1>1. /\ cConn[c] # None /\ down[cConn[c]] # <<>>
      /\ down' = [down EXCEPT ![cConn[c]] = Tail(@)]
      /\ UNCHANGED <<made, state, refused, slotVars, mapVars, cFree, cConn>>
  BY DEF ClientWorker, ResChatMsg, ResChatMsg1, HasPacket, Take
<1>2. PICK k \in Conns : k = cConn[c] /\ k # None
  BY <1>0, <1>1 DEF SampleTypeOK
<1>3. down[k] \in Seq(Packets) /\ down[k] # <<>>
  BY <1>0, <1>1, <1>2 DEF SampleTypeOK
<1>4. Head(down[k]) \in Packets /\ Head(down[k]) = down[k][1] /\ 1 \in DOMAIN down[k]
  BY <1>3, Taken
<1>5. \A d \in Clients : cConn[d] = k => d = c
  BY <1>0, <1>2 DEF ClientsOK
<1>6. CASE ResChatMsg(c)
  <2>1. /\ Head(down[k]).id = "ans_chat_msg" /\ cSeq' = cSeq
        /\ cNo' = [cNo EXCEPT ![c] = cNo[c] + 1]
        /\ up' = [up EXCEPT ![k] = IF state[k] = "open" /\ Len(up[k]) < Room
                                   THEN Append(up[k], Ask(cNo[c] + 1)) ELSE up[k]]
    BY <1>2, <1>6 DEF ResChatMsg, Received
  <2>. QED
    BY <1>1, <1>2, <1>3, <1>4, <1>5, <2>1
<1>7. CASE ResChatMsg1(c)
  <2>1. /\ Head(down[k]).id = "ans_chat_msg1" /\ cNo' = cNo /\ up' = up
        /\ cSeq' = [cSeq EXCEPT ![c] = Head(down[k]).no]
    BY <1>2, <1>7 DEF ResChatMsg1, Received
  <2>. QED
    BY <1>1, <1>2, <1>3, <1>4, <1>5, <2>1
<1>. QED
  BY <1>6, <1>7 DEF ClientWorker

\* A connection on which a stale range has been posted stays one.
LEMMA StaleStays ==
    ASSUME SampleTypeOK, [Next]_vars, NEW k \in Conns, ~stale'[k]
    PROVE  ~stale[k]
<1>0. stale \in [Conns -> BOOLEAN]
  BY DEF SampleTypeOK
<1>1. ASSUME NEW c \in Clients, StaleSend(c) PROVE stale[k] => stale'[k]
  <2>1. PICK l \in Conns : stale' = [stale EXCEPT ![l] = TRUE]
    BY <1>1, StaleSendEffect
  <2>. QED
    BY <1>0, <2>1
<1>2. ASSUME NEW s \in Slots, \/ OnAccept(s) \/ AddNet(s) \/ PostRecv(s)
                              \/ ChatMsg(s) \/ Closing(s)
      PROVE  UNCHANGED stale
  BY <1>2 DEF OnAccept, AddNet, PostRecv, ChatMsg, Closing, RemoveNet, OnClose, connVars
<1>3. ASSUME NEW c \in Clients, ClientWorker(c) \/ ClientOnClose(c) PROVE UNCHANGED stale
  BY <1>3 DEF ClientWorker, ResChatMsg, ResChatMsg1, ClientOnClose
<1>4. ASSUME \/ Broadcast \/ BroadcastNext \/ OnConnect \/ UNCHANGED vars
             \/ \E l \in Conns : Accept(l) \/ Shut(l)
      PROVE  UNCHANGED stale
  BY <1>4 DEF Broadcast, BroadcastNext, OnConnect, Accept, Shut, vars, connVars
<1>. QED
  BY <1>1, <1>2, <1>3, <1>4 DEF Next, Acceptor

\* At most one request or echo is under way for a client.
LEMMA EchoesStep ==
    ASSUME IInv, [Next]_vars
    PROVE  EchoesOK'
<1>0. /\ SampleTypeOK /\ ConnsOK /\ ClientsOK /\ EchoesOK
      /\ up \in [Conns -> Seq(Packets)] /\ down \in [Conns -> Seq(Packets)]
      /\ cConn \in [Clients -> Conns \cup {None}] /\ None \notin Conns
      /\ cNo \in [Clients -> 0 .. MaxChat]
  <2>1. None \notin Conns
    BY SampleAssumption DEF Conns, None
  <2>. QED
    BY <2>1 DEF IInv, SampleTypeOK
<1>1. ASSUME NEW c \in Clients, NEW k \in Conns, EchoOK(c, k),
             up'[k] = up[k] \/ up'[k] = <<>>, cNo'[c] = cNo[c], down'[k] = down[k]
      PROVE  EchoOK(c, k)'
  <2>1. CASE up'[k] = up[k]
    BY <1>1, <2>1 DEF EchoOK
  <2>2. CASE up'[k] = <<>>
    <3>1. Len(<<>>) = 0 /\ DOMAIN <<>> = {}
      OBVIOUS
    <3>. QED
      BY <1>1, <2>2, <3>1 DEF EchoOK
  <2>. QED
    BY <1>1, <2>1, <2>2
<1>2. SUFFICES ASSUME NEW c \in Clients, NEW k \in Conns, cConn'[c] = k, ~stale'[k]
               PROVE  EchoOK(c, k)'
  BY <1>0, TypeStep DEF EchoesOK, SampleTypeOK
<1>3. cConn[c] = k => EchoOK(c, k)
  <2>1. ~stale[k]
    BY <1>0, <1>2, StaleStays
  <2>. QED
    BY <1>0, <2>1 DEF EchoesOK
<1>4. /\ up[k] \in Seq(Packets) /\ Len(up[k]) \in Nat
      /\ down[k] \in Seq(Packets)
  BY <1>0, LenProperties
<1>5. ASSUME NEW s \in Slots, ChatMsg(s) PROVE EchoOK(c, k)'
  <2>1. PICK l \in Conns, p \in Packets :
            /\ up[l] # <<>> /\ p.id = "ans_chat_msg" /\ p.no = Head(up[l]).no
            /\ up' = [up EXCEPT ![l] = Tail(up[l])]
            /\ PostSend(l, p) /\ UNCHANGED clientVars
    BY <1>5, ChatMsgEffect
  <2>2. EchoOK(c, k) /\ cNo' = cNo
    BY <1>2, <1>3, <2>1 DEF clientVars
  <2>3. CASE l # k
    <3>1. down'[k] = down[k] /\ up'[k] = up[k]
      BY <1>0, <2>1, <2>3, PostSendEffect
    <3>. QED
      BY <1>1, <2>2, <3>1
  <2>4. CASE l = k
    <3>1. Len(up[k]) = 1 /\ up[k][1] = Head(up[k]) /\ 1 \in DOMAIN up[k]
      <4>1. Len(up[k]) > 0 /\ up[k][1] = Head(up[k]) /\ DOMAIN up[k] = 1 .. Len(up[k])
        BY <1>4, <2>1, <2>4, Taken
      <4>2. Len(up[k]) <= 1
        BY <2>2 DEF EchoOK
      <4>3. \A m \in Nat : m > 0 /\ m <= 1 => m = 1 /\ 1 \in 1 .. m
        OBVIOUS
      <4>4. Len(up[k]) = 1 /\ 1 \in 1 .. Len(up[k])
        BY <1>4, <4>1, <4>2, <4>3
      <4>. QED
        BY <4>1, <4>4
    <3>2. up'[k] = <<>>
      <4>1. Tail(up[k]) \in Seq(Packets) /\ Len(Tail(up[k])) = Len(up[k]) - 1
        BY <1>4, <2>1, <2>4, HeadTailProperties
      <4>2. Tail(up[k]) = <<>>
        <5>1. Len(Tail(up[k])) = 0
          BY <3>1, <4>1
        <5>2. \A q \in Seq(Packets) : q # <<>> => Len(q) # 0
          BY EmptySeq
        <5>. QED
          BY <4>1, <5>1, <5>2
      <4>. QED
        BY <1>0, <2>1, <2>4, <4>2
    <3>3. p.no = cNo[c]
      BY <2>1, <2>2, <2>4, <3>1 DEF EchoOK
    <3>4. \A i \in DOMAIN down[k] : down[k][i].id # "ans_chat_msg"
      BY <2>1, <2>2, <2>4 DEF EchoOK
    <3>5. CASE down'[k] = down[k]
      BY <1>1, <2>2, <3>2, <3>5
    <3>6. CASE down'[k] = Append(down[k], p)
      <4>1. /\ DOMAIN down'[k] = 1 .. Len(down[k]) + 1 /\ DOMAIN down[k] = 1 .. Len(down[k])
            /\ \A i \in 1 .. Len(down[k]) : down'[k][i] = down[k][i]
            /\ down'[k][Len(down[k]) + 1] = p
            /\ Len(down[k]) \in Nat
        BY <1>4, <3>6, Appended
      <4>2. \A i \in DOMAIN down'[k] : down'[k][i].id = "ans_chat_msg" => i = Len(down[k]) + 1
        BY <3>4, <4>1
      <4>3. Len(up'[k]) <= 1 /\ DOMAIN up'[k] = {}
        BY <3>2
      <4>. QED
        BY <2>2, <3>2, <3>3, <4>1, <4>2, <4>3 DEF EchoOK
    <3>. QED
      BY <1>0, <2>1, <2>4, <3>5, <3>6, PostSendEffect
  <2>. QED
    BY <2>3, <2>4
<1>6. ASSUME BroadcastNext PROVE EchoOK(c, k)'
  <2>1. PICK l \in Conns, p \in Packets :
            /\ p.id = "ans_chat_msg1" /\ PostSend(l, p) /\ UNCHANGED <<up, clientVars>>
    BY <1>6, BroadcastNextEffect
  <2>2. EchoOK(c, k) /\ cNo' = cNo /\ up' = up
    BY <1>2, <1>3, <2>1 DEF clientVars
  <2>3. CASE down'[k] = down[k]
    BY <1>1, <2>2, <2>3
  <2>4. CASE down'[k] = Append(down[k], p)
    <3>1. /\ DOMAIN down'[k] = 1 .. Len(down[k]) + 1 /\ DOMAIN down[k] = 1 .. Len(down[k])
          /\ \A i \in 1 .. Len(down[k]) : down'[k][i] = down[k][i]
          /\ down'[k][Len(down[k]) + 1] = p
          /\ Len(down[k]) \in Nat
      BY <1>4, <2>4, Appended
    <3>2. \A i \in DOMAIN down'[k] : down'[k][i].id = "ans_chat_msg" =>
              i \in DOMAIN down[k] /\ down'[k][i] = down[k][i]
      BY <2>1, <3>1
    <3>. QED
      BY <2>2, <3>2 DEF EchoOK
  <2>. QED
    BY <1>0, <2>1, <2>3, <2>4, PostSendEffect
<1>7. ASSUME NEW s \in Slots, OnClose(s) PROVE EchoOK(c, k)'
  <2>1. /\ UNCHANGED <<down, clientVars>> /\ up' = [up EXCEPT ![conn[s]] = <<>>]
    BY <1>7 DEF OnClose
  <2>2. EchoOK(c, k) /\ cNo' = cNo
    BY <1>2, <1>3, <2>1 DEF clientVars
  <2>3. up'[k] = up[k] \/ up'[k] = <<>>
    BY <1>0, <2>1
  <2>. QED
    BY <1>1, <2>1, <2>2, <2>3
<1>8. ASSUME OnConnect PROVE EchoOK(c, k)'
  <2>1. PICK d \in Clients, l \in Conns :
            /\ \A e \in Clients : cConn[e] # l
            /\ cConn' = [cConn EXCEPT ![d] = l]
            /\ cNo[d] + 1 \in 0 .. MaxChat /\ cNo' = [cNo EXCEPT ![d] = cNo[d] + 1]
            /\ down[l] = <<>> /\ down' = down
            /\ up' = [up EXCEPT ![l] = <<Ask(cNo[d] + 1)>>]
    BY <1>8, OnConnectEffect
  <2>2. CASE c = d
    <3>1. k = l /\ cNo'[c] = cNo[c] + 1
      BY <1>0, <1>2, <2>1, <2>2
    <3>2. PICK p \in Packets : p = Ask(cNo[c] + 1) /\ p.no = cNo[c] + 1
      <4>1. cNo[c] + 1 \in 0 .. MaxSeq + MaxChat
        BY <2>1, <2>2, SampleAssumption
      <4>. QED
        BY <4>1, PacketsTyped DEF Ask
    <3>3. up'[k] = <<p>> /\ DOMAIN down'[k] = {}
      BY <1>0, <2>1, <2>2, <3>1, <3>2
    <3>4. Len(<<p>>) = 1 /\ DOMAIN <<p>> = {1} /\ <<p>>[1] = p
      OBVIOUS
    <3>. QED
      BY <3>1, <3>2, <3>3, <3>4 DEF EchoOK
  <2>3. CASE c # d
    <3>1. cConn[c] = k /\ k # l /\ cNo'[c] = cNo[c]
      BY <1>0, <1>2, <2>1, <2>3
    <3>. QED
      BY <1>0, <1>1, <1>3, <2>1, <3>1
  <2>. QED
    BY <2>2, <2>3
<1>9. ASSUME NEW d \in Clients, ClientWorker(d) PROVE EchoOK(c, k)'
  <2>1. PICK l \in Conns :
            /\ l = cConn[d] /\ down[l] # <<>> /\ Head(down[l]) = down[l][1] /\ 1 \in DOMAIN down[l]
            /\ down' = [down EXCEPT ![l] = Tail(down[l])]
            /\ \A e \in Clients : cConn[e] = l => e = d
            /\ cConn' = cConn
            /\ \/ /\ Head(down[l]).id = "ans_chat_msg"
                  /\ cNo' = [cNo EXCEPT ![d] = cNo[d] + 1]
                  /\ up' = [up EXCEPT ![l] = IF state[l] = "open" /\ Len(up[l]) < Room
                                             THEN Append(up[l], Ask(cNo[d] + 1)) ELSE up[l]]
               \/ Head(down[l]).id = "ans_chat_msg1" /\ cNo' = cNo /\ up' = up
    BY <1>9, WorkerEffect
  <2>2. EchoOK(c, k)
    BY <1>2, <1>3, <2>1
  <2>3. CASE c # d
    <3>1. k # l
      BY <1>2, <2>1, <2>3
    <3>2. down'[k] = down[k] /\ up'[k] = up[k] /\ cNo'[c] = cNo[c]
      BY <1>0, <2>1, <2>3, <3>1
    <3>. QED
      BY <1>1, <2>2, <3>2
  <2>4. CASE c = d
    <3>1. /\ k = l /\ down'[k] = Tail(down[k])
          /\ Len(down[k]) \in Nat /\ DOMAIN down[k] = 1 .. Len(down[k])
          /\ DOMAIN Tail(down[k]) = 1 .. Len(down[k]) - 1
          /\ \A i \in 1 .. Len(down[k]) - 1 : Tail(down[k])[i] = down[k][i + 1]
      <4>1. k = l /\ down'[k] = Tail(down[k]) /\ down[k] # <<>>
        BY <1>0, <1>2, <2>1, <2>4
      <4>. QED
        BY <1>4, <4>1, Taken
    <3>2. \A i \in DOMAIN down'[k] : i + 1 \in DOMAIN down[k] /\ i + 1 # 1
                                     /\ down'[k][i] = down[k][i + 1]
      BY <3>1
    <3>3. CASE Head(down[k]).id = "ans_chat_msg"
      <4>1. up[k] = <<>> /\ \A j \in DOMAIN down[k] : down[k][j].id = "ans_chat_msg" => j = 1
        BY <2>1, <2>2, <3>1, <3>3 DEF EchoOK
      <4>2. \A i \in DOMAIN down'[k] : down'[k][i].id # "ans_chat_msg"
        BY <3>2, <4>1
      <4>3. cNo'[c] = cNo[c] + 1
        BY <1>0, <2>1, <2>4, <3>1, <3>3
      <4>4. PICK p : p = Ask(cNo[c] + 1) /\ p.no = cNo[c] + 1
        <5>1. Ask(cNo[c] + 1).no = cNo[c] + 1
          BY DEF Ask
        <5>. QED
          BY <5>1
      <4>5. up'[k] = <<>> \/ up'[k] = <<p>>
        <5>1. Append(<<>>, p) = <<p>>
          OBVIOUS
        <5>. QED
          BY <1>0, <2>1, <2>4, <3>1, <3>3, <4>1, <4>4, <5>1
      <4>6. /\ Len(<<p>>) = 1 /\ DOMAIN <<p>> = {1} /\ <<p>>[1] = p
            /\ Len(<<>>) = 0 /\ DOMAIN <<>> = {}
        OBVIOUS
      <4>7. Len(up'[k]) <= 1 /\ \A i \in DOMAIN up'[k] : up'[k][i].no = cNo'[c]
        <5>1. CASE up'[k] = <<>>
          BY <4>6, <5>1
        <5>2. CASE up'[k] = <<p>>
          BY <4>3, <4>4, <4>6, <5>2
        <5>. QED
          BY <4>5, <5>1, <5>2
      <4>. QED
        BY <4>2, <4>7 DEF EchoOK
    <3>4. CASE Head(down[k]).id # "ans_chat_msg"
      <4>1. cNo' = cNo /\ up' = up
        BY <2>1, <3>1, <3>4
      <4>2. ASSUME NEW i \in DOMAIN down'[k], down'[k][i].id = "ans_chat_msg"
            PROVE  /\ down'[k][i].no = cNo[c] /\ up[k] = <<>>
                   /\ \A j \in DOMAIN down'[k] : down'[k][j].id = "ans_chat_msg" => j = i
        <5>1. PICK a \in DOMAIN down[k] : a = i + 1 /\ down'[k][i] = down[k][a]
          BY <3>2
        <5>2. /\ down[k][a].no = cNo[c] /\ up[k] = <<>>
              /\ \A b \in DOMAIN down[k] : down[k][b].id = "ans_chat_msg" => b = a
          BY <2>2, <4>2, <5>1 DEF EchoOK
        <5>3. ASSUME NEW j \in DOMAIN down'[k], down'[k][j].id = "ans_chat_msg" PROVE j = i
          <6>1. PICK b \in DOMAIN down[k] : b = j + 1 /\ down'[k][j] = down[k][b]
            BY <3>2
          <6>2. b = a
            BY <5>2, <5>3, <6>1
          <6>. QED
            BY <3>1, <5>1, <6>1, <6>2
        <5>. QED
          BY <5>1, <5>2, <5>3
      <4>. QED
        BY <2>2, <4>1, <4>2 DEF EchoOK
    <3>. QED
      BY <3>3, <3>4
  <2>. QED
    BY <2>3, <2>4
<1>10. ASSUME NEW d \in Clients, ClientOnClose(d) PROVE EchoOK(c, k)'
  <2>1. /\ cConn[d] # None /\ cConn' = [cConn EXCEPT ![d] = None]
        /\ down' = [down EXCEPT ![cConn[d]] = <<>>] /\ UNCHANGED <<up, cNo>>
    BY <1>10 DEF ClientOnClose
  <2>2. c # d /\ cConn[c] = k
    BY <1>0, <1>2, <2>1
  <2>3. cConn[d] # k
    BY <1>0, <2>1, <2>2 DEF ClientsOK
  <2>. QED
    BY <1>0, <1>1, <1>3, <2>1, <2>2, <2>3
<1>11. ASSUME UNCHANGED <<up, down, cConn, cNo>> PROVE EchoOK(c, k)'
  BY <1>1, <1>2, <1>3, <1>11
<1>12. ASSUME NEW s \in Slots, OnAccept(s) \/ AddNet(s) \/ PostRecv(s) \/ RemoveNet(s)
       PROVE  EchoOK(c, k)'
  <2>1. UNCHANGED <<up, down, cConn, cNo>>
    BY <1>12 DEF OnAccept, AddNet, PostRecv, RemoveNet, connVars, clientVars
  <2>. QED
    BY <1>11, <2>1
<1>13. ASSUME \/ \E l \in Conns : Accept(l) \/ Shut(l)
              \/ Broadcast \/ UNCHANGED vars
       PROVE  EchoOK(c, k)'
  BY <1>11, <1>13 DEF Accept, Shut, Broadcast, vars, connVars, clientVars
<1>14. ASSUME NEW d \in Clients, StaleSend(d) PROVE EchoOK(c, k)'
  <2>1. PICK l \in Conns :
            /\ stale' = [stale EXCEPT ![l] = TRUE] /\ UNCHANGED clientVars
            /\ \A m \in Conns : m # l => up'[m] = up[m] /\ down'[m] = down[m]
    BY <1>0, <1>14, StaleSendEffect
  <2>2. k # l
    BY <1>0, <1>2, <2>1 DEF SampleTypeOK
  <2>. QED
    BY <1>1, <1>2, <1>3, <2>1, <2>2 DEF clientVars
<1>. QED
  BY <1>5, <1>6, <1>7, <1>8, <1>9, <1>10, <1>12, <1>13, <1>14 DEF Next, Acceptor, Closing


------------------------------------------------------------------------------
(* Broadcasts                                                              *)

\* The types that the steps on broadcasts need.
LEMMA Numbers ==
    ASSUME IInv
    PROVE  /\ SampleTypeOK /\ ConnsOK /\ SlotsOK /\ NumbersOK /\ ClientsOK
           /\ stage \in [Slots -> {"free", "accepting", "registered", "receiving", "removed"}]
           /\ conn \in [Slots -> Conns \cup {None}]
           /\ state \in [Conns -> {"new", "pending", "open", "shut"}]
           /\ down \in [Conns -> Seq(Packets)] /\ refused \in [Conns -> BOOLEAN]
           /\ cConn \in [Clients -> Conns \cup {None}] /\ None \notin Conns
           /\ cSeq \in [Clients -> Nat] /\ seq \in Nat
           /\ \A s \in Slots : Expected(s) \in Nat
<1>1. SampleTypeOK /\ ConnsOK /\ SlotsOK /\ NumbersOK /\ ClientsOK
  BY DEF IInv
<1>2. None \notin Conns /\ 0 .. MaxSeq \subseteq Nat
  BY SampleAssumption DEF Conns, None
<1>3. cSeq \in [Clients -> Nat] /\ seq \in Nat
  BY <1>1, <1>2 DEF SampleTypeOK
<1>4. ASSUME NEW s \in Slots PROVE Expected(s) \in Nat
  <2>1. sNo[s] \in todo => seq > 0
    BY <1>1 DEF NumbersOK
  <2>2. \A m \in Nat : m > 0 => m - 1 \in Nat
    OBVIOUS
  <2>. QED
    BY <1>3, <2>1, <2>2 DEF Expected
<1>. QED
  BY <1>1, <1>2, <1>3, <1>4 DEF SampleTypeOK

\* Nothing has been broadcast to a client that AddNet has not registered.
LEMMA QuietStep ==
    ASSUME IInv, [Next]_vars
    PROVE  QuietUntilAdded' /\ Unsent'
<1>0. /\ SampleTypeOK /\ ConnsOK /\ SlotsOK /\ ClientsOK /\ QuietUntilAdded /\ Unsent
      /\ stage \in [Slots -> {"free", "accepting", "registered", "receiving", "removed"}]
      /\ conn \in [Slots -> Conns \cup {None}]
      /\ state \in [Conns -> {"new", "pending", "open", "shut"}]
      /\ down \in [Conns -> Seq(Packets)]
      /\ cConn \in [Clients -> Conns \cup {None}] /\ None \notin Conns
      /\ cSeq \in [Clients -> Nat]
  BY Numbers DEF IInv
<1>1. ASSUME \A k \in Conns : state'[k] = "pending" => state[k] = "pending",
             \A s \in Slots : stage'[s] = "accepting" =>
                 /\ stage[s] = "accepting" /\ conn'[s] = conn[s]
                 /\ conn[s] \in Conns /\ down'[conn[s]] = down[conn[s]],
             \A c \in Clients : cConn'[c] # None =>
                 /\ cConn[c] = cConn'[c]
                 /\ cSeq'[c] = cSeq[c] \/ down[cConn[c]] # <<>>
      PROVE  QuietUntilAdded' /\ Unsent'
  <2>1. Unsent'
    BY <1>0, <1>1 DEF Unsent
  <2>2. ASSUME NEW c \in Clients, cConn'[c] # None
        PROVE  /\ state'[cConn'[c]] = "pending" => cSeq'[c] = 0
               /\ \A s \in Slots : stage'[s] = "accepting" /\ conn'[s] = cConn'[c] => cSeq'[c] = 0
    <3>1. PICK k \in Conns : k = cConn[c] /\ k = cConn'[c]
      BY <1>0, <1>1, <2>2
    <3>2. CASE cSeq'[c] = cSeq[c]
      BY <1>0, <1>1, <2>2, <3>1, <3>2 DEF QuietUntilAdded
    <3>3. CASE down[k] # <<>>
      <4>1. state'[k] # "pending"
        BY <1>0, <1>1, <3>3 DEF ConnsOK
      <4>2. \A s \in Slots : stage'[s] = "accepting" => conn'[s] # k
        BY <1>0, <1>1, <3>3 DEF Unsent
      <4>. QED
        BY <3>1, <4>1, <4>2
    <3>. QED
      BY <1>1, <2>2, <3>1, <3>2, <3>3
  <2>. QED
    BY <2>1, <2>2 DEF QuietUntilAdded
<1>2. \A s \in Slots : stage[s] = "accepting" =>
          /\ conn[s] \in Conns /\ down[conn[s]] = <<>>
          /\ \A u \in Slots : InMap(u) => conn[u] # conn[s]
  BY <1>0 DEF SlotsOK, Accepted, Unsent, InMap
<1>3. ASSUME UNCHANGED <<state, stage, conn, down, cConn, cSeq>>
      PROVE  QuietUntilAdded' /\ Unsent'
  BY <1>3, <1>1, <1>2
<1>4. ASSUME NEW k \in Conns, Accept(k) PROVE QuietUntilAdded' /\ Unsent'
  <2>1. /\ state[k] = "pending" /\ UNCHANGED <<down, cConn, cSeq>>
        /\ \A l \in Conns : state'[l] = "pending" => state[l] = "pending"
    BY <1>0, <1>4 DEF Accept, clientVars
  <2>2. CASE free = <<>>
    <3>1. UNCHANGED <<stage, conn>>
      BY <1>4, <2>2 DEF Accept
    <3>. QED
      BY <1>1, <1>2, <2>1, <3>1
  <2>3. CASE free # <<>>
    <3>1. PICK h \in Slots : /\ stage' = [stage EXCEPT ![h] = "accepting"]
                             /\ conn' = [conn EXCEPT ![h] = k]
                             /\ \A s \in Slots : stage[s] # "accepting"
      <4>1. Head(free) \in Slots
        BY <1>0, <2>3, HeadTailProperties DEF SampleTypeOK
      <4>. QED
        BY <1>4, <2>3, <4>1 DEF Accept
    <3>2. \A s \in Slots : stage'[s] = "accepting" => s = h /\ conn'[s] = k
      BY <1>0, <3>1
    <3>3. Unsent'
      BY <1>0, <2>1, <3>2 DEF Unsent, ConnsOK
    <3>4. QuietUntilAdded'
      BY <1>0, <2>1, <3>2 DEF QuietUntilAdded
    <3>. QED
      BY <3>3, <3>4
  <2>. QED
    BY <2>2, <2>3
<1>5. ASSUME NEW s \in Slots, AddNet(s) \/ PostRecv(s) \/ RemoveNet(s) \/ OnClose(s)
      PROVE  QuietUntilAdded' /\ Unsent'
  <2>1. UNCHANGED <<state, down, cConn, cSeq>>
    BY <1>5 DEF AddNet, PostRecv, RemoveNet, OnClose, connVars, clientVars
  <2>2. \A u \in Slots : stage'[u] = "accepting" => stage[u] = "accepting" /\ conn'[u] = conn[u]
    <3>1. CASE AddNet(s)
      BY <1>0, <3>1 DEF AddNet
    <3>2. CASE PostRecv(s)
      BY <1>0, <3>2 DEF PostRecv
    <3>3. CASE RemoveNet(s)
      BY <1>0, <3>3 DEF RemoveNet
    <3>4. CASE OnClose(s)
      BY <1>0, <3>4 DEF OnClose
    <3>. QED
      BY <1>5, <3>1, <3>2, <3>3, <3>4
  <2>. QED
    BY <1>1, <1>2, <2>1, <2>2
<1>6. ASSUME NEW t \in Slots, InMap(t), NEW p \in Packets, PostSend(conn[t], p),
             UNCHANGED <<state, stage, conn, cConn, cSeq>>
      PROVE  QuietUntilAdded' /\ Unsent'
  <2>1. PICK k \in Conns : k = conn[t]
    BY <1>0, <1>6 DEF InMap, SlotsOK, Accepted
  <2>2. \A l \in Conns : l # k => down'[l] = down[l]
    BY <1>0, <1>6, <2>1, PostSendEffect
  <2>. QED
    BY <1>1, <1>2, <1>6, <2>1, <2>2
<1>7. ASSUME NEW s \in Slots, ChatMsg(s) PROVE QuietUntilAdded' /\ Unsent'
  <2>1. PICK k \in Conns, p \in Packets :
            /\ k = conn[s] /\ PostSend(k, p) /\ InMap(s)
            /\ UNCHANGED <<made, state, slotVars, mapVars, clientVars>>
    BY <1>7, ChatMsgEffect
  <2>. QED
    BY <1>6, <2>1 DEF slotVars, clientVars
<1>8. ASSUME BroadcastNext PROVE QuietUntilAdded' /\ Unsent'
  <2>1. PICK s \in Slots, k \in Conns, p \in Packets :
            /\ InMap(s) /\ k = conn[s] /\ PostSend(k, p)
            /\ UNCHANGED <<made, state, up, slotVars, maxNo, netMap, seq, clientVars>>
    BY <1>8, BroadcastNextEffect
  <2>. QED
    BY <1>6, <2>1 DEF slotVars, clientVars
<1>9. ASSUME OnConnect PROVE QuietUntilAdded' /\ Unsent'
  <2>1. PICK d \in Clients, k \in Conns :
            /\ cConn' = [cConn EXCEPT ![d] = k] /\ cSeq' = [cSeq EXCEPT ![d] = 0]
            /\ \A e \in Clients : cConn[e] # k
            /\ state' = [state EXCEPT ![k] = "pending"]
            /\ down' = down /\ UNCHANGED slotVars
    BY <1>9, OnConnectEffect
  <2>2. UNCHANGED <<stage, conn>>
    BY <2>1 DEF slotVars
  <2>3. Unsent'
    BY <1>0, <2>1, <2>2 DEF Unsent
  <2>4. ASSUME NEW c \in Clients, cConn'[c] # None
        PROVE  /\ state'[cConn'[c]] = "pending" => cSeq'[c] = 0
               /\ \A s \in Slots : stage'[s] = "accepting" /\ conn'[s] = cConn'[c] => cSeq'[c] = 0
    <3>1. CASE c = d
      BY <1>0, <2>1, <3>1
    <3>2. CASE c # d
      <4>1. cConn'[c] = cConn[c] /\ cConn[c] # k /\ cSeq'[c] = cSeq[c] /\ cConn[c] \in Conns
        BY <1>0, <2>1, <2>4, <3>2
      <4>2. state'[cConn[c]] = state[cConn[c]]
        BY <1>0, <2>1, <4>1
      <4>. QED
        BY <1>0, <2>2, <2>4, <4>1, <4>2 DEF QuietUntilAdded
    <3>. QED
      BY <3>1, <3>2
  <2>. QED
    BY <2>3, <2>4 DEF QuietUntilAdded
<1>10. ASSUME NEW d \in Clients, ClientWorker(d) PROVE QuietUntilAdded' /\ Unsent'
  <2>1. PICK k \in Conns :
            /\ k = cConn[d] /\ down[k] # <<>> /\ down' = [down EXCEPT ![k] = Tail(down[k])]
            /\ UNCHANGED <<state, slotVars, cConn>>
            /\ cSeq' = cSeq \/ cSeq' = [cSeq EXCEPT ![d] = Head(down[k]).no]
    BY <1>10, WorkerEffect
  <2>2. UNCHANGED <<stage, conn>>
    BY <2>1 DEF slotVars
  <2>3. \A s \in Slots : stage[s] = "accepting" => down'[conn[s]] = down[conn[s]]
    BY <1>0, <1>2, <2>1
  <2>4. \A c \in Clients : cSeq'[c] = cSeq[c] \/ down[cConn[c]] # <<>>
    BY <1>0, <2>1
  <2>. QED
    BY <1>1, <1>2, <2>1, <2>2, <2>3, <2>4
<1>11. ASSUME NEW d \in Clients, ClientOnClose(d) PROVE QuietUntilAdded' /\ Unsent'
  <2>1. /\ UNCHANGED <<state, slotVars, cSeq>> /\ cConn[d] # None
        /\ cConn' = [cConn EXCEPT ![d] = None] /\ down' = [down EXCEPT ![cConn[d]] = <<>>]
    BY <1>11 DEF ClientOnClose
  <2>2. UNCHANGED <<stage, conn>>
    BY <2>1 DEF slotVars
  <2>3. \A s \in Slots : stage[s] = "accepting" => down'[conn[s]] = down[conn[s]]
    BY <1>0, <1>2, <2>1
  <2>4. \A c \in Clients : cConn'[c] # None => cConn[c] = cConn'[c]
    BY <1>0, <2>1
  <2>. QED
    BY <1>1, <1>2, <2>1, <2>2, <2>3, <2>4
<1>12. ASSUME NEW k \in Conns, Shut(k) PROVE QuietUntilAdded' /\ Unsent'
  <2>1. /\ UNCHANGED <<stage, conn, down, cConn, cSeq>>
        /\ \A l \in Conns : state'[l] = "pending" => state[l] = "pending"
    BY <1>0, <1>12 DEF Shut, slotVars, clientVars
  <2>. QED
    BY <1>1, <1>2, <2>1
<1>13. ASSUME Broadcast \/ UNCHANGED vars \/ \E s \in Slots : OnAccept(s)
       PROVE  QuietUntilAdded' /\ Unsent'
  BY <1>3, <1>13 DEF Broadcast, OnAccept, vars, connVars, slotVars, clientVars
<1>14. ASSUME NEW d \in Clients, StaleSend(d) PROVE QuietUntilAdded' /\ Unsent'
  <2>1. PICK k \in Conns :
            /\ \A l \in Conns : l # k => down'[l] = down[l]
            /\ down' = down \/ \E s \in Slots : InMap(s) /\ conn[s] = k
            /\ UNCHANGED <<state, slotVars, clientVars>>
    BY <1>0, <1>14, StaleSendEffect
  <2>2. UNCHANGED <<stage, conn, cConn, cSeq>>
    BY <2>1 DEF slotVars, clientVars
  <2>3. \A s \in Slots : stage[s] = "accepting" => down'[conn[s]] = down[conn[s]]
    BY <1>0, <1>2, <2>1 DEF SlotsOK, InMap
  <2>. QED
    BY <1>1, <1>2, <2>1, <2>2, <2>3
<1>. QED
  BY <1>4, <1>5, <1>7, <1>8, <1>9, <1>10, <1>11, <1>12, <1>13, <1>14 DEF Next, Acceptor, Closing


\* Broadcasts under way have numbers that main has used.
LEMMA MainStep ==
    ASSUME IInv, [Next]_vars
    PROVE  NumbersOfMain'
<1>0. /\ SampleTypeOK /\ NumbersOfMain /\ seq \in Nat
      /\ down \in [Conns -> Seq(Packets)]
      /\ cConn \in [Clients -> Conns \cup {None}] /\ None \notin Conns
  BY Numbers DEF IInv
<1>1. ASSUME NEW k \in Conns, down'[k] = down[k], seq' = seq
      PROVE  \A i \in BroadcastsIn(down'[k]) : down'[k][i].no < seq'
  BY <1>0, <1>1 DEF NumbersOfMain
<1>2. CASE UNCHANGED <<down, seq>>
  BY <1>1, <1>2 DEF NumbersOfMain
<1>3. ASSUME NEW l \in Conns, NEW p \in Packets, PostSend(l, p), seq' = seq,
             p.id = "ans_chat_msg1" => p.no < seq
      PROVE  NumbersOfMain'
  <2>1. ASSUME NEW k \in Conns, NEW i \in BroadcastsIn(down'[k]) PROVE down'[k][i].no < seq'
    <3>1. CASE down'[k] = down[k]
      BY <1>1, <1>3, <2>1, <3>1
    <3>2. CASE down'[k] = Append(down[k], p)
      <4>1. /\ DOMAIN down'[k] = 1 .. Len(down[k]) + 1 /\ DOMAIN down[k] = 1 .. Len(down[k])
            /\ \A j \in 1 .. Len(down[k]) : down'[k][j] = down[k][j]
            /\ down'[k][Len(down[k]) + 1] = p
            /\ Len(down[k]) \in Nat
        BY <1>0, <3>2, Appended
      <4>2. i \in DOMAIN down'[k] /\ down'[k][i].id = "ans_chat_msg1"
        BY <2>1 DEF BroadcastsIn
      <4>3. CASE i = Len(down[k]) + 1
        BY <1>3, <4>1, <4>2, <4>3
      <4>4. CASE i # Len(down[k]) + 1
        <5>1. i \in 1 .. Len(down[k])
          BY <4>1, <4>2, <4>4
        <5>2. i \in BroadcastsIn(down[k]) /\ down'[k][i] = down[k][i]
          BY <4>1, <4>2, <5>1 DEF BroadcastsIn
        <5>. QED
          BY <1>0, <1>3, <5>2 DEF NumbersOfMain
      <4>. QED
        BY <4>3, <4>4
    <3>. QED
      BY <1>0, <1>3, <3>1, <3>2, PostSendEffect
  <2>. QED
    BY <2>1 DEF NumbersOfMain
<1>4. ASSUME NEW s \in Slots, ChatMsg(s) PROVE NumbersOfMain'
  <2>1. PICK k \in Conns, p \in Packets :
            p.id = "ans_chat_msg" /\ PostSend(k, p) /\ UNCHANGED mapVars
    BY <1>4, ChatMsgEffect
  <2>. QED
    BY <1>3, <2>1 DEF mapVars
<1>5. ASSUME BroadcastNext PROVE NumbersOfMain'
  <2>1. PICK k \in Conns, p \in Packets : p.no = seq - 1 /\ PostSend(k, p) /\ seq' = seq
    BY <1>5, BroadcastNextEffect
  <2>2. p.no < seq
    BY <1>0, <2>1
  <2>. QED
    BY <1>3, <2>1, <2>2
<1>6. ASSUME Broadcast PROVE NumbersOfMain'
  <2>1. seq' = seq + 1 /\ down' = down
    BY <1>6 DEF Broadcast, connVars
  <2>2. ASSUME NEW k \in Conns, NEW i \in BroadcastsIn(down[k]) PROVE down[k][i].no < seq + 1
    <3>1. down[k][i] \in Packets
      BY <1>0, <2>2, ElementOfSeq, LenProperties DEF BroadcastsIn
    <3>2. down[k][i].no \in Int
      BY <3>1, SampleAssumption DEF Packets
    <3>3. down[k][i].no < seq
      BY <1>0 DEF NumbersOfMain
    <3>. QED
      BY <1>0, <3>2, <3>3
  <2>. QED
    BY <2>1, <2>2 DEF NumbersOfMain
<1>7. ASSUME NEW c \in Clients, ClientWorker(c) PROVE NumbersOfMain'
  <2>1. PICK l \in Conns :
            /\ down[l] # <<>> /\ down' = [down EXCEPT ![l] = Tail(down[l])]
            /\ UNCHANGED mapVars
    BY <1>7, WorkerEffect
  <2>2. seq' = seq
    BY <2>1 DEF mapVars
  <2>3. ASSUME NEW k \in Conns, NEW i \in BroadcastsIn(down'[k]) PROVE down'[k][i].no < seq'
    <3>1. CASE k # l
      BY <1>0, <1>1, <2>1, <2>2, <2>3, <3>1
    <3>2. CASE k = l
      <4>1. /\ down'[k] = Tail(down[k]) /\ Len(down[k]) \in Nat
            /\ DOMAIN down[k] = 1 .. Len(down[k]) /\ DOMAIN Tail(down[k]) = 1 .. Len(down[k]) - 1
            /\ \A j \in 1 .. Len(down[k]) - 1 : Tail(down[k])[j] = down[k][j + 1]
        BY <1>0, <2>1, <3>2, Taken
      <4>2. i \in 1 .. Len(down[k]) - 1 /\ down'[k][i].id = "ans_chat_msg1"
        BY <2>3, <4>1 DEF BroadcastsIn
      <4>3. i + 1 \in BroadcastsIn(down[k]) /\ down'[k][i] = down[k][i + 1]
        <5>1. i + 1 \in 1 .. Len(down[k])
          BY <4>1, <4>2
        <5>. QED
          BY <4>1, <4>2, <5>1 DEF BroadcastsIn
      <4>. QED
        BY <1>0, <2>2, <4>3 DEF NumbersOfMain
    <3>. QED
      BY <3>1, <3>2
  <2>. QED
    BY <2>3 DEF NumbersOfMain
<1>8. ASSUME NEW c \in Clients, ClientOnClose(c) PROVE NumbersOfMain'
  <2>1. down' = [down EXCEPT ![cConn[c]] = <<>>] /\ seq' = seq /\ cConn[c] # None
    BY <1>8 DEF ClientOnClose, mapVars
  <2>2. BroadcastsIn(<<>>) = {}
    BY DEF BroadcastsIn
  <2>3. ASSUME NEW k \in Conns PROVE \A i \in BroadcastsIn(down'[k]) : down'[k][i].no < seq'
    BY <1>0, <1>1, <2>1, <2>2
  <2>. QED
    BY <2>3 DEF NumbersOfMain
<1>9. ASSUME NEW s \in Slots, OnAccept(s) \/ AddNet(s) \/ PostRecv(s) \/ Closing(s)
      PROVE  NumbersOfMain'
  <2>1. UNCHANGED <<down, seq>>
    BY <1>9 DEF OnAccept, AddNet, PostRecv, Closing, RemoveNet, OnClose, connVars, mapVars
  <2>. QED
    BY <1>2, <2>1
<1>10. ASSUME OnConnect \/ UNCHANGED vars \/ \E k \in Conns : Accept(k) \/ Shut(k)
       PROVE  NumbersOfMain'
  BY <1>2, <1>10 DEF OnConnect, Accept, Shut, vars, connVars, mapVars
<1>11. ASSUME NEW c \in Clients, StaleSend(c) PROVE NumbersOfMain'
  <2>1. PICK l \in Conns :
            /\ \A k \in Conns : k # l => down'[k] = down[k]
            /\ \A i \in BroadcastsIn(down'[l]) :
                   \/ down'[l][i].no < seq
                   \/ i \in BroadcastsIn(down[l]) /\ down'[l][i] = down[l][i]
            /\ UNCHANGED mapVars
    BY <1>0, <1>11, StaleSendEffect
  <2>2. seq' = seq
    BY <2>1 DEF mapVars
  <2>3. ASSUME NEW k \in Conns PROVE \A i \in BroadcastsIn(down'[k]) : down'[k][i].no < seq'
    BY <1>0, <1>1, <2>1, <2>2 DEF NumbersOfMain
  <2>. QED
    BY <2>3 DEF NumbersOfMain
<1>. QED
  BY <1>4, <1>5, <1>6, <1>7, <1>8, <1>9, <1>10, <1>11 DEF Next, Acceptor

\* What a client gets next follows what it has got, and what the server sends
\* next follows what is under way.
LEMMA FollowStep ==
    ASSUME IInv, [Next]_vars
    PROVE  BroadcastsFollow' /\ NextIsAwaited'
<1>0. /\ SampleTypeOK /\ ConnsOK /\ SlotsOK /\ NumbersOK /\ ClientsOK
      /\ QuietUntilAdded /\ Unsent /\ BroadcastsFollow /\ NextIsAwaited
      /\ stage \in [Slots -> {"free", "accepting", "registered", "receiving", "removed"}]
      /\ conn \in [Slots -> Conns \cup {None}]
      /\ state \in [Conns -> {"new", "pending", "open", "shut"}]
      /\ down \in [Conns -> Seq(Packets)] /\ refused \in [Conns -> BOOLEAN]
      /\ cConn \in [Clients -> Conns \cup {None}] /\ None \notin Conns
      /\ cSeq \in [Clients -> Nat] /\ seq \in Nat
      /\ \A s \in Slots : Expected(s) \in Nat
  BY Numbers DEF IInv
<1>1. SUFFICES ASSUME NEW c \in Clients, NEW k \in Conns, cConn'[c] = k, ~refused'[k], ~stale'[k]
               PROVE  /\ Follow(down'[k], cSeq'[c])
                      /\ \A s \in Slots : InMap(s)' /\ conn'[s] = k /\ state'[k] = "open" =>
                             Awaits(down'[k], cSeq'[c], Expected(s)')
  <2>1. cConn' \in [Clients -> Conns \cup {None}]
    BY TypeStep DEF SampleTypeOK
  <2>. QED
    BY <1>1, <2>1 DEF BroadcastsFollow, NextIsAwaited
<1>. DEFINE Goal == /\ Follow(down'[k], cSeq'[c])
                    /\ \A s \in Slots : InMap(s)' /\ conn'[s] = k /\ state'[k] = "open" =>
                           Awaits(down'[k], cSeq'[c], Expected(s)')
<1>2. ASSUME cConn[c] = k, ~refused[k]
      PROVE  /\ Follow(down[k], cSeq[c])
             /\ \A s \in Slots : InMap(s) /\ conn[s] = k /\ state[k] = "open" =>
                    Awaits(down[k], cSeq[c], Expected(s))
  <2>1. ~stale[k]
    BY <1>0, <1>1, StaleStays
  <2>. QED
    BY <1>0, <1>2, <2>1 DEF BroadcastsFollow, NextIsAwaited
<1>3. ASSUME cConn[c] = k, ~refused[k], down'[k] = down[k], cSeq'[c] = cSeq[c],
             \A s \in Slots : InMap(s)' /\ conn'[s] = k /\ state'[k] = "open" =>
                 InMap(s) /\ conn[s] = k /\ state[k] = "open" /\ Expected(s)' = Expected(s)
      PROVE  Goal
  BY <1>2, <1>3
<1>4. Follow(<<>>, 0) /\ \A n \in Nat : Awaits(<<>>, 0, n)
  <2>1. BroadcastsIn(<<>>) = {}
    BY DEF BroadcastsIn
  <2>. QED
    BY <2>1 DEF Follow, Awaits
<1>5. down[k] \in Seq(Packets) /\ cSeq[c] \in Nat /\ k # None
  BY <1>0
<1>6. ASSUME UNCHANGED <<state, stage, conn, sNo, todo, seq>>
      PROVE  \A s \in Slots : (InMap(s)' <=> InMap(s)) /\ Expected(s)' = Expected(s)
  BY <1>6 DEF InMap, Expected
<1>7. ASSUME NEW l \in Conns, Accept(l) PROVE Goal
  <2>1. /\ state[l] = "pending" /\ UNCHANGED <<down, refused, sNo, todo, seq, cConn, cSeq>>
        /\ \A m \in Conns : m # l => state'[m] = state[m]
    BY <1>0, <1>7 DEF Accept, mapVars, clientVars
  <2>2. CASE free = <<>>
    <3>1. UNCHANGED <<stage, conn>> /\ state'[l] = "shut"
      BY <1>0, <1>7, <2>2 DEF Accept
    <3>2. \A s \in Slots : (InMap(s)' <=> InMap(s)) /\ Expected(s)' = Expected(s)
      BY <2>1, <3>1 DEF InMap, Expected
    <3>. QED
      BY <1>1, <1>3, <2>1, <3>1, <3>2
  <2>3. CASE free # <<>>
    <3>1. PICK h \in Slots : /\ stage' = [stage EXCEPT ![h] = "accepting"]
                             /\ conn' = [conn EXCEPT ![h] = l]
      <4>1. Head(free) \in Slots
        BY <1>0, <2>3, HeadTailProperties DEF SampleTypeOK
      <4>. QED
        BY <1>7, <2>3, <4>1 DEF Accept
    <3>2. \A s \in Slots : InMap(s)' => InMap(s) /\ conn'[s] = conn[s]
      BY <1>0, <3>1 DEF InMap
    <3>3. \A s \in Slots : Expected(s)' = Expected(s)
      BY <2>1 DEF Expected
    <3>4. \A s \in Slots : InMap(s) => conn[s] # l
      BY <1>0, <2>1 DEF SlotsOK, Accepted, InMap
    <3>. QED
      BY <1>1, <1>3, <2>1, <3>2, <3>3, <3>4
  <2>. QED
    BY <2>2, <2>3
<1>8. ASSUME NEW s \in Slots, OnAccept(s) \/ PostRecv(s) PROVE Goal
  <2>1. UNCHANGED <<state, down, refused, conn, sNo, todo, seq, cConn, cSeq>>
    BY <1>8 DEF OnAccept, PostRecv, connVars, mapVars, clientVars
  <2>2. \A u \in Slots : InMap(u)' <=> InMap(u)
    <3>1. CASE OnAccept(s)
      BY <3>1 DEF OnAccept, InMap
    <3>2. CASE PostRecv(s)
      BY <1>0, <3>2 DEF PostRecv, InMap
    <3>. QED
      BY <1>8, <3>1, <3>2
  <2>3. \A u \in Slots : Expected(u)' = Expected(u)
    BY <2>1 DEF Expected
  <2>. QED
    BY <1>1, <1>3, <2>1, <2>2, <2>3
<1>9. ASSUME NEW t \in Slots, AddNet(t) PROVE Goal
  <2>1. /\ stage[t] = "accepting" /\ todo = {}
        /\ stage' = [stage EXCEPT ![t] = "registered"]
        /\ UNCHANGED <<state, down, refused, conn, todo, seq, cConn, cSeq>>
    BY <1>9 DEF AddNet, Unlocked, connVars, clientVars
  <2>2. \A u \in Slots : Expected(u)' = seq /\ Expected(u) = seq
    BY <2>1 DEF Expected
  <2>3. \A u \in Slots : InMap(u)' => u = t \/ InMap(u)
    BY <1>0, <2>1 DEF InMap
  <2>4. cConn[c] = k /\ ~refused[k]
    BY <1>1, <2>1
  <2>5. conn[t] = k => down[k] = <<>> /\ cSeq[c] = 0
    BY <1>0, <2>1, <2>4 DEF QuietUntilAdded, Unsent
  <2>6. ASSUME NEW s \in Slots, InMap(s)', conn'[s] = k, state'[k] = "open"
        PROVE  Awaits(down'[k], cSeq'[c], Expected(s)')
    <3>1. CASE s = t
      BY <1>0, <1>4, <2>1, <2>2, <2>5, <2>6, <3>1
    <3>2. CASE s # t
      BY <1>2, <2>1, <2>2, <2>3, <2>4, <2>6, <3>2
    <3>. QED
      BY <3>1, <3>2
  <2>. QED
    BY <1>2, <2>1, <2>4, <2>6
<1>10. ASSUME NEW t \in Slots, RemoveNet(t) \/ OnClose(t) PROVE Goal
  <2>1. UNCHANGED <<state, down, refused, sNo, todo, seq, cConn, cSeq>>
    BY <1>10 DEF RemoveNet, OnClose, connVars, mapVars, clientVars
  <2>2. \A u \in Slots : InMap(u)' => InMap(u) /\ conn'[u] = conn[u]
    <3>1. CASE RemoveNet(t)
      BY <1>0, <3>1 DEF RemoveNet, InMap
    <3>2. CASE OnClose(t)
      BY <1>0, <3>2 DEF OnClose, InMap
    <3>. QED
      BY <1>10, <3>1, <3>2
  <2>3. \A u \in Slots : Expected(u)' = Expected(u)
    BY <2>1 DEF Expected
  <2>. QED
    BY <1>1, <1>3, <2>1, <2>2, <2>3
<1>11. ASSUME NEW t \in Slots, ChatMsg(t) PROVE Goal
  <2>1. PICK l \in Conns, p \in Packets :
            /\ p.id = "ans_chat_msg" /\ PostSend(l, p)
            /\ UNCHANGED <<made, state, slotVars, mapVars, clientVars>>
    BY <1>11, ChatMsgEffect
  <2>2. UNCHANGED <<state, stage, conn, sNo, todo, seq, cConn, cSeq>>
    BY <2>1 DEF slotVars, mapVars, clientVars
  <2>3. \A s \in Slots : (InMap(s)' <=> InMap(s)) /\ Expected(s)' = Expected(s)
    BY <1>6, <2>2
  <2>4. cConn[c] = k /\ ~refused[k]
    BY <1>0, <1>1, <2>1, <2>2, PostSendEffect
  <2>5. CASE down'[k] = down[k]
    BY <1>3, <2>2, <2>3, <2>4, <2>5
  <2>6. CASE down'[k] = Append(down[k], p)
    <3>1. /\ Follow(Append(down[k], p), cSeq[c]) <=> Follow(down[k], cSeq[c])
          /\ \A n \in Nat : Awaits(Append(down[k], p), cSeq[c], n) <=> Awaits(down[k], cSeq[c], n)
      BY <1>5, <2>1, EchoAppended
    <3>. QED
      BY <1>0, <1>2, <2>2, <2>3, <2>4, <2>6, <3>1
  <2>. QED
    BY <1>0, <2>1, <2>5, <2>6, PostSendEffect
<1>12. ASSUME Broadcast PROVE Goal
  <2>1. /\ todo = {} /\ seq' = seq + 1 /\ todo' = {e[1] : e \in netMap}
        /\ UNCHANGED <<state, down, refused, stage, conn, sNo, cConn, cSeq>>
    BY <1>12 DEF Broadcast, Unlocked, connVars, slotVars, clientVars
  <2>2. \A s \in Slots : InMap(s)' <=> InMap(s)
    BY <2>1 DEF InMap
  <2>3. ASSUME NEW s \in Slots, InMap(s) PROVE Expected(s)' = Expected(s)
    <3>1. <<sNo[s], s>> \in netMap /\ <<sNo[s], s>>[1] = sNo[s]
      BY <1>0, <2>3 DEF NumbersOK
    <3>2. sNo[s] \in todo'
      BY <2>1, <3>1
    <3>3. Expected(s) = seq /\ Expected(s)' = seq' - 1
      BY <2>1, <3>2 DEF Expected
    <3>. QED
      BY <1>0, <2>1, <3>3
  <2>. QED
    BY <1>1, <1>3, <2>1, <2>2, <2>3
<1>13. ASSUME BroadcastNext PROVE Goal
  <2>1. PICK t \in Slots, l \in Conns, p \in Packets :
            /\ InMap(t) /\ l = conn[t] /\ sNo[t] \in todo /\ todo' = todo \ {sNo[t]}
            /\ p.id = "ans_chat_msg1" /\ p.no = seq - 1 /\ seq - 1 \in Nat
            /\ PostSend(l, p)
            /\ UNCHANGED <<made, state, up, slotVars, maxNo, netMap, seq, clientVars>>
    BY <1>13, BroadcastNextEffect
  <2>2. UNCHANGED <<state, stage, conn, sNo, seq, cConn, cSeq>>
    BY <2>1 DEF slotVars, clientVars
  <2>3. cConn[c] = k /\ ~refused[k]
    BY <1>0, <1>1, <2>1, <2>2, PostSendEffect
  <2>4. \A s \in Slots : InMap(s)' <=> InMap(s)
    BY <2>2 DEF InMap
  <2>5. ASSUME NEW s \in Slots, InMap(s), s # t
        PROVE  Expected(s)' = Expected(s) /\ conn[s] # l
    <3>1. sNo[s] # sNo[t]
      BY <1>0, <2>1, <2>5 DEF NumbersOK
    <3>2. conn[s] # conn[t]
      BY <1>0, <2>1, <2>5 DEF SlotsOK, InMap
    <3>. QED
      BY <2>1, <2>2, <3>1, <3>2 DEF Expected
  <2>6. CASE k # l
    <3>1. down'[k] = down[k]
      BY <1>0, <2>1, <2>6, PostSendEffect
    <3>. QED
      BY <1>3, <2>1, <2>2, <2>3, <2>4, <2>5, <2>6, <3>1
  <2>7. CASE k = l /\ state[k] # "open"
    <3>1. down'[k] = down[k]
      BY <1>0, <2>1, <2>7, PostSendEffect
    <3>. QED
      BY <1>3, <2>2, <2>3, <2>7, <3>1
  <2>8. CASE k = l /\ state[k] = "open"
    <3>1. down'[k] = Append(down[k], p)
      BY <1>0, <1>1, <2>1, <2>8, PostSendEffect
    <3>2. Expected(t) = seq - 1 /\ Expected(t)' = seq /\ (seq - 1) + 1 = seq
      BY <1>0, <2>1, <2>2 DEF Expected
    <3>3. Follow(down[k], cSeq[c]) /\ Awaits(down[k], cSeq[c], seq - 1)
      BY <1>2, <2>1, <2>3, <2>8, <3>2
    <3>4. /\ Follow(Append(down[k], p), cSeq[c])
          /\ Awaits(Append(down[k], p), cSeq[c], (seq - 1) + 1)
      BY <1>5, <2>1, <3>3, BroadcastAppended
    <3>5. \A s \in Slots : InMap(s)' /\ conn'[s] = k => s = t
      BY <2>2, <2>4, <2>5, <2>8
    <3>. QED
      BY <2>2, <3>1, <3>2, <3>4, <3>5
  <2>. QED
    BY <2>6, <2>7, <2>8
<1>14. ASSUME OnConnect PROVE Goal
  <2>1. PICK d \in Clients, l \in Conns :
            /\ cConn' = [cConn EXCEPT ![d] = l] /\ cSeq' = [cSeq EXCEPT ![d] = 0]
            /\ \A e \in Clients : cConn[e] # l
            /\ state' = [state EXCEPT ![l] = "pending"]
            /\ down[l] = <<>> /\ down' = down /\ refused' = refused
            /\ UNCHANGED <<slotVars, mapVars>>
    BY <1>14, OnConnectEffect
  <2>2. UNCHANGED <<stage, conn, sNo, todo, seq>>
    BY <2>1 DEF slotVars, mapVars
  <2>3. CASE c = d
    <3>1. k = l /\ down'[k] = <<>> /\ cSeq'[c] = 0 /\ state'[k] = "pending"
      BY <1>0, <1>1, <2>1, <2>3
    <3>. QED
      BY <1>4, <3>1
  <2>4. CASE c # d
    <3>1. cConn[c] = k /\ k # l /\ cSeq'[c] = cSeq[c] /\ state'[k] = state[k]
      BY <1>0, <1>1, <2>1, <2>4
    <3>2. \A s \in Slots : (InMap(s)' <=> InMap(s)) /\ Expected(s)' = Expected(s)
      BY <2>2 DEF InMap, Expected
    <3>. QED
      BY <1>1, <1>3, <2>1, <2>2, <3>1, <3>2
  <2>. QED
    BY <2>3, <2>4
<1>15. ASSUME NEW d \in Clients, ClientWorker(d) PROVE Goal
  <2>1. PICK l \in Conns :
            /\ l = cConn[d] /\ down[l] # <<>> /\ Head(down[l]) \in Packets
            /\ down' = [down EXCEPT ![l] = Tail(down[l])]
            /\ \A e \in Clients : cConn[e] = l => e = d
            /\ UNCHANGED <<made, state, refused, slotVars, mapVars, cFree, cConn>>
            /\ \/ Head(down[l]).id = "ans_chat_msg" /\ cSeq' = cSeq
               \/ Head(down[l]).id = "ans_chat_msg1" /\ cSeq' = [cSeq EXCEPT ![d] = Head(down[l]).no]
    BY <1>15, WorkerEffect
  <2>2. UNCHANGED <<state, refused, stage, conn, sNo, todo, seq, cConn>>
    BY <2>1 DEF slotVars, mapVars
  <2>3. \A s \in Slots : (InMap(s)' <=> InMap(s)) /\ Expected(s)' = Expected(s)
    BY <1>6, <2>2
  <2>4. cConn[c] = k /\ ~refused[k]
    BY <1>1, <2>2
  <2>5. CASE c # d
    <3>1. k # l
      BY <2>1, <2>4, <2>5
    <3>2. down'[k] = down[k] /\ cSeq'[c] = cSeq[c]
      BY <1>0, <2>1, <2>5, <3>1
    <3>. QED
      BY <1>3, <2>2, <2>3, <2>4, <3>2
  <2>6. CASE c = d
    <3>1. k = l /\ down'[k] = Tail(down[k]) /\ down[k] # <<>>
      BY <1>0, <2>1, <2>4, <2>6
    <3>2. /\ Follow(down[k], cSeq[c])
          /\ \A s \in Slots : InMap(s) /\ conn[s] = k /\ state[k] = "open" =>
                 Awaits(down[k], cSeq[c], Expected(s)) /\ Expected(s) \in Nat
      BY <1>0, <1>2, <2>4
    <3>3. CASE Head(down[k]).id = "ans_chat_msg"
      <4>1. cSeq'[c] = cSeq[c]
        BY <2>1, <3>1, <3>3
      <4>2. /\ Follow(Tail(down[k]), cSeq[c])
            /\ \A n \in Nat : Awaits(down[k], cSeq[c], n) => Awaits(Tail(down[k]), cSeq[c], n)
        BY <1>5, <3>1, <3>2, <3>3, EchoTaken
      <4>. QED
        BY <2>2, <2>3, <3>1, <3>2, <4>1, <4>2
    <3>4. CASE Head(down[k]).id = "ans_chat_msg1"
      <4>1. cSeq'[c] = Head(down[k]).no
        BY <1>0, <2>1, <2>6, <3>1, <3>4
      <4>2. /\ Follow(Tail(down[k]), Head(down[k]).no)
            /\ \A n \in Nat :
                   Awaits(down[k], cSeq[c], n) => Awaits(Tail(down[k]), Head(down[k]).no, n)
        BY <1>5, <3>1, <3>2, <3>4, BroadcastTaken
      <4>. QED
        BY <2>2, <2>3, <3>1, <3>2, <4>1, <4>2
    <3>. QED
      BY <2>1, <3>1, <3>3, <3>4
  <2>. QED
    BY <2>5, <2>6
<1>16. ASSUME NEW d \in Clients, ClientOnClose(d) PROVE Goal
  <2>1. /\ UNCHANGED <<state, refused, slotVars, mapVars, cSeq>> /\ cConn[d] # None
        /\ cConn' = [cConn EXCEPT ![d] = None] /\ down' = [down EXCEPT ![cConn[d]] = <<>>]
    BY <1>16 DEF ClientOnClose
  <2>2. UNCHANGED <<stage, conn, sNo, todo, seq>>
    BY <2>1 DEF slotVars, mapVars
  <2>3. c # d /\ cConn[c] = k
    BY <1>0, <1>1, <1>5, <2>1
  <2>4. cConn[d] # k
    BY <1>0, <1>5, <2>3 DEF ClientsOK
  <2>5. down'[k] = down[k]
    BY <1>0, <2>1, <2>4
  <2>6. \A s \in Slots : (InMap(s)' <=> InMap(s)) /\ Expected(s)' = Expected(s)
    BY <1>6, <2>1, <2>2
  <2>. QED
    BY <1>1, <1>3, <2>1, <2>2, <2>3, <2>5, <2>6
<1>17. ASSUME NEW l \in Conns, Shut(l) PROVE Goal
  <2>1. /\ UNCHANGED <<down, refused, stage, conn, sNo, todo, seq, cConn, cSeq>>
        /\ \A m \in Conns : state'[m] = "open" => state[m] = "open"
    BY <1>0, <1>17 DEF Shut, slotVars, mapVars, clientVars
  <2>2. \A s \in Slots : (InMap(s)' <=> InMap(s)) /\ Expected(s)' = Expected(s)
    BY <2>1 DEF InMap, Expected
  <2>. QED
    BY <1>1, <1>3, <2>1, <2>2
<1>18. ASSUME UNCHANGED vars PROVE Goal
  <2>1. UNCHANGED <<state, down, refused, stage, conn, sNo, todo, seq, cConn, cSeq>>
    BY <1>18 DEF vars, connVars, slotVars, mapVars, clientVars
  <2>. QED
    BY <1>1, <1>3, <1>6, <2>1
<1>19. ASSUME NEW d \in Clients, StaleSend(d) PROVE Goal
  <2>1. PICK l \in Conns :
            /\ stale' = [stale EXCEPT ![l] = TRUE]
            /\ \A m \in Conns : m # l => down'[m] = down[m]
            /\ UNCHANGED <<made, state, refused, slotVars, mapVars, clientVars>>
    BY <1>0, <1>19, StaleSendEffect
  <2>2. UNCHANGED <<state, refused, stage, conn, sNo, todo, seq, cConn, cSeq>>
    BY <2>1 DEF slotVars, mapVars, clientVars
  <2>3. k # l
    BY <1>0, <1>1, <2>1 DEF SampleTypeOK
  <2>. QED
    BY <1>1, <1>3, <1>6, <2>1, <2>2, <2>3
<1>. HIDE DEF Goal
<1>20. Goal
  BY <1>7, <1>8, <1>9, <1>10, <1>11, <1>12, <1>13, <1>14, <1>15, <1>16, <1>17, <1>18, <1>19
  DEF Next, Acceptor, Closing
<1>. QED
  BY <1>20 DEF Goal

------------------------------------------------------------------------------
(* The theorems                                                            *)

\* The invariant holds before anything is connected.
LEMMA IInvInit == Init => IInv
<1>. SUFFICES ASSUME Init PROVE IInv
  OBVIOUS
<1>1. /\ MaxConns \in Nat /\ MaxSeq \in Nat /\ MaxChat \in Nat /\ SlotCount \in Nat
      /\ ClientCount \in Nat
      /\ Conns \subseteq Nat /\ None \notin Conns /\ None = 0 /\ \A k \in Conns : k > 0
      /\ Cardinality(Conns) \in Nat
  BY SampleAssumption, ConnsFinite DEF Conns, None
<1>2. /\ DOMAIN free = Slots /\ \A i \in Slots : free[i] = i
      /\ DOMAIN cFree = Clients /\ \A i \in Clients : cFree[i] = i
  BY DEF Init
<1>3. /\ free \in Seq(Slots) /\ cFree \in Seq(Clients)
  <2>1. \A n \in Nat : [i \in 1 .. n |-> i] \in Seq(1 .. n)
    BY IsASeq
  <2>. QED
    BY <1>1, <2>1 DEF Init, Slots, Clients
<1>4. SampleTypeOK
  <2>1. <<>> \in Seq(Packets)
    BY EmptySeq
  <2>2. 0 \in 0 .. MaxConns /\ 0 \in 0 .. MaxSeq /\ 0 \in 0 .. MaxChat /\ 0 \in Nat
        /\ 0 \in 0 .. Cardinality(Conns)
    BY <1>1
  <2>. QED
    BY <1>3, <2>1, <2>2 DEF Init, SampleTypeOK
<1>5. \A s \in Slots : stage[s] = "free" /\ ~InMap(s)
  BY DEF Init, InMap
<1>6. ConnsOK /\ SlotsOK
  BY <1>1, <1>2, <1>5 DEF Init, ConnsOK, SlotsOK
<1>7. NumbersOK
  <2>1. netMap = {} /\ todo = {}
    BY DEF Init
  <2>. QED
    BY <1>5, <2>1 DEF NumbersOK
<1>8. CountOK
  <2>1. maxNo = 0 /\ ~\E s \in Slots : stage[s] = "accepting"
    BY <1>5 DEF Init
  <2>2. Cardinality(Accepted) \in Nat
    BY ConnsFinite
  <2>. QED
    BY <2>1, <2>2 DEF CountOK
<1>9. \A c \in Clients : cConn[c] = None
  BY DEF Init
<1>10. ClientsOK
  BY <1>1, <1>2, <1>9 DEF Init, ClientsOK
<1>11. EchoesOK /\ QuietUntilAdded /\ BroadcastsFollow /\ NextIsAwaited /\ Unsent
  BY <1>5, <1>9 DEF EchoesOK, QuietUntilAdded, BroadcastsFollow, NextIsAwaited, Unsent
<1>12. NumbersOfMain
  BY DEF Init, NumbersOfMain, BroadcastsIn
<1>. QED
  BY <1>4, <1>6, <1>7, <1>8, <1>10, <1>11, <1>12 DEF IInv

\* Every step keeps the invariant.
LEMMA IInvNext == IInv /\ [Next]_vars => IInv'
BY TypeStep, ConnsStep, SlotsStep, NumbersStep, CountStep, ClientsStep, EchoesStep, QuietStep,
   MainStep, FollowStep
DEF IInv

\* The invariant from which the theorems follow.
THEOREM SampleInvariant == Spec => []IInv
BY IInvInit, IInvNext, PTL DEF Spec

\* Type correctness: no more numbers are given than connections are made.
THEOREM SampleTyped == Spec => []SampleTypeOK
<1>1. IInv => SampleTypeOK
  BY DEF IInv
<1>. QED
  BY <1>1, SampleInvariant, PTL

\* The map is exact, for any number of slots, however often they are reused.
THEOREM MapIsExact == Spec => []MapExact
<1>1. IInv => MapExact
  <2>. SUFFICES ASSUME IInv PROVE MapExact
    OBVIOUS
  <2>1. NumbersOK /\ SampleTypeOK
    BY DEF IInv
  <2>2. \A e \in netMap : /\ e = <<e[1], e[2]>> /\ e[2] \in Slots /\ InMap(e[2])
                          /\ e[1] = sNo[e[2]] /\ e[1] # 0 /\ ready[e[2]]
    <3>1. ASSUME NEW e \in netMap
          PROVE  /\ e = <<e[1], e[2]>> /\ e[2] \in Slots /\ InMap(e[2])
                 /\ e[1] = sNo[e[2]] /\ sNo[e[2]] \in 1 .. maxNo /\ ready[e[2]]
      BY <2>1 DEF NumbersOK
    <3>2. \A n \in 1 .. maxNo : n # 0
      <4>1. maxNo \in Int
        BY <2>1, ConnsFinite, SampleAssumption DEF SampleTypeOK
      <4>. QED
        BY <4>1
    <3>. QED
      BY <3>1, <3>2
  <2>3. \A e, f \in netMap : e[1] = f[1] => e = f
    BY <2>1, <2>2 DEF NumbersOK
  <2>4. netMap = {<<sNo[s], s>> : s \in {t \in Slots : stage[t] \in {"registered", "receiving"}}}
    BY <2>1 DEF NumbersOK, InMap
  <2>. QED
    BY <2>2, <2>3, <2>4 DEF MapExact
<1>. QED
  BY <1>1, SampleInvariant, PTL

\* The assertion on echoes holds as long as neither side has posted a stale
\* range, for any number of clients and reuses.
THEOREM EchoesMatch == Spec => []EchoMatches
<1>1. IInv => EchoMatches
  BY DEF IInv, EchoesOK, EchoOK, EchoMatches
<1>. QED
  BY <1>1, SampleInvariant, PTL

\* The assertion on broadcasts holds where nothing is refused and no stale range
\* posted, for any number of sessions on either side and any capacity of the
\* connections.
THEOREM BroadcastsAreFollowed == Spec => []BroadcastsFollow
<1>1. IInv => BroadcastsFollow
  BY DEF IInv
<1>. QED
  BY <1>1, SampleInvariant, PTL


==============================================================================
