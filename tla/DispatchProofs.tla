---------------------------- MODULE DispatchProofs ----------------------------
(***************************************************************************)
(* What the reference count and the shape of the stacks are for: packets   *)
(* are dispatched by one thread at a time and no packet, no receive and no *)
(* bytes to send are forgotten; the network implements the life of every   *)
(* session, and the pool agrees with its counters.                         *)
(***************************************************************************)
EXTENDS NetworkProofs

------------------------------------------------------------------------------
(***************************************************************************)
(* Packets are dispatched by one thread at a time and none is forgotten:   *)
(* who may dispatch the packets of a session (its turn), who is going to   *)
(* look at its receive buffer, and who is going to post its next receive.  *)
(***************************************************************************)

(* The inductive invariant                                                 *)

\* The handlers that run with m_ProcPending locked by their own thread.
Turns == {"PostProcessLocked", "ProcessCompletion", "UnlockProc"}
HasTurn(t, s) == \E i \in DOMAIN stack[t] : stack[t][i].on = s /\ stack[t][i].op \in Turns

\* m_ProcPending is locked exactly while one entry of the process queue or one
\* thread has the turn.
OneTurn ==
    \A s \in Sessions :
        /\ procQ[s] = 0 \/ procQ[s] = 1
        /\ procQ[s] = 1 => procPending[s]
        /\ procPending[s] => procQ[s] = 1 \/ \E t \in Threads : HasTurn(t, s)
        /\ \A t \in Threads : HasTurn(t, s) => procPending[s] /\ procQ[s] = 0
        /\ \A t, u \in Threads : HasTurn(t, s) /\ HasTurn(u, s) => t = u

\* OnDispatch runs in the turn of its thread.
InTurn == \A t \in Threads : \A i \in DOMAIN stack[t] :
              stack[t][i].op = "OnDispatch" => HasTurn(t, stack[t][i].on)

TurnInv == OneTurn /\ InTurn

\* Who is going to look at the receive buffer, and to post or end the receive
\* for which m_RecvPending is locked.
Watchers == {"PostProcess", "TryProc", "PostProcessLocked", "ProcessCompletion", "Disconnect"}
Receivers == {"PostRecvLocked", "CompletedRecv", "Disconnect"}
Armers == {"PostRecv", "PostRecvLocked", "Disconnect"}

RecvInv == \A s \in Sessions : connected[s] /\ recvPending[s] =>
               recvIO[s] > 0 \/ Busy(s, Receivers)

DInv == HInv /\ (OwnMode => TurnInv) /\ PacketsWatched /\ RecvInv /\ RecvArmed

------------------------------------------------------------------------------
(* Frames that stay and frames that come                                   *)

\* What a replaced stack keeps and gains.
LEMMA BusyReplaced ==
    ASSUME StackType, StackType', NEW t \in Threads, NEW k \in Seq(Frames), NEW n,
           Replaced(t, n, k)
    PROVE  \A r, W :
              /\ Busy(r, W) /\ ~(Len(stack[t]) = n /\ stack[t][n].on = r /\ stack[t][n].op \in W)
                    => Busy(r, W)'
              /\ (\E j \in 1..Len(k) : k[j].on = r /\ k[j].op \in W) => Busy(r, W)'
<1> SUFFICES ASSUME NEW r, NEW W
    PROVE  /\ Busy(r, W) /\ ~(Len(stack[t]) = n /\ stack[t][n].on = r /\ stack[t][n].op \in W)
                    => Busy(r, W)'
           /\ (\E j \in 1..Len(k) : k[j].on = r /\ k[j].op \in W) => Busy(r, W)'
  OBVIOUS
<1>1. \A u \in Threads : /\ DOMAIN stack[u] = 1..Len(stack[u]) /\ Len(stack[u]) \in Nat
                         /\ DOMAIN stack'[u] = 1..Len(stack'[u])
  BY LenProperties DEF StackType
<1>2. /\ n \in Nat /\ n > 0 /\ Len(k) \in Nat /\ Len(stack'[t]) = n - 1 + Len(k)
      /\ \A u \in Threads \ {t} : stack'[u] = stack[u]
      /\ \A i \in 1..(n - 1) : stack'[t][i] = stack[t][i]
      /\ \A i \in 1..Len(k) : stack'[t][n - 1 + i] = k[i]
      /\ Len(stack[t]) = n - 1 \/ Len(stack[t]) = n
  BY LenProperties DEF Replaced
<1>3. ASSUME Busy(r, W), ~(Len(stack[t]) = n /\ stack[t][n].on = r /\ stack[t][n].op \in W)
      PROVE  Busy(r, W)'
  <2>1. PICK u \in Threads : \E i \in DOMAIN stack[u] : stack[u][i].on = r /\ stack[u][i].op \in W
    BY <1>3 DEF Busy
  <2>2. PICK i \in DOMAIN stack[u] : stack[u][i].on = r /\ stack[u][i].op \in W
    BY <2>1
  <2>3. i \in DOMAIN stack'[u] /\ stack'[u][i] = stack[u][i]
    <3>1. CASE u # t
      BY <1>2, <2>2, <3>1
    <3>2. CASE u = t
      <4>1. i \in 1..(n - 1)
        BY <1>1, <1>2, <1>3, <2>2, <3>2
      <4>2. i \in 1..(n - 1 + Len(k))
        BY <1>2, <4>1
      <4>. QED  BY <1>1, <1>2, <3>2, <4>1, <4>2
    <3>. QED  BY <3>1, <3>2
  <2>. QED  BY <2>2, <2>3 DEF Busy
<1>4. ASSUME NEW j \in 1..Len(k), k[j].on = r, k[j].op \in W
      PROVE  Busy(r, W)'
  <2> DEFINE i == n - 1 + j
  <2>1. i \in 1..(n - 1 + Len(k)) /\ stack'[t][i] = k[j]
    BY <1>2
  <2>2. i \in DOMAIN stack'[t]
    BY <1>1, <1>2, <2>1
  <2>. HIDE DEF i
  <2>. QED  BY <1>4, <2>1, <2>2 DEF Busy
<1>. QED  BY <1>3, <1>4

\* A thread that goes on from its top frame.
LEMMA GoesOn ==
    ASSUME StackType, NEW t \in Threads, NEW op, NEW s, At(t, op, s),
           NEW k \in Seq(Frames), Continue(t, k)
    PROVE  \A r, W : /\ Busy(r, W) /\ ~(op \in W /\ r = s) => Busy(r, W)'
                     /\ (\E j \in 1..Len(k) : k[j].on = r /\ k[j].op \in W) => Busy(r, W)'
<1>1. stack[t] # <<>> /\ stack[t][Len(stack[t])].op = op /\ stack[t][Len(stack[t])].on = s
  BY FrameFields DEF At, Top
<1>2. StackType' /\ Replaced(t, Len(stack[t]), k)
  BY <1>1, ContinueReplaces DEF StackType
<1>3. \A r, W :
         /\ Busy(r, W) /\ ~(/\ Len(stack[t]) = Len(stack[t])
                            /\ stack[t][Len(stack[t])].on = r /\ stack[t][Len(stack[t])].op \in W)
               => Busy(r, W)'
         /\ (\E j \in 1..Len(k) : k[j].on = r /\ k[j].op \in W) => Busy(r, W)'
  BY <1>2, BusyReplaced
<1>. QED  BY <1>1, <1>3

\* A frame below another one outlives a step of the top.
LEMMA BelowStays ==
    ASSUME StackType, NEW t \in Threads, NEW op, NEW s, At(t, op, s),
           NEW k \in Seq(Frames), Continue(t, k),
           NEW u \in Threads, NEW i \in DOMAIN stack[u], NEW b, Below(stack[u], i, b),
           NEW r, stack[u][i].on = r
    PROVE  Busy(r, {b})'
<1>1. PICK j \in 1..(i - 1) : stack[u][j] = Frame(b, r)
  BY DEF Below
<1>2. StackType' /\ Replaced(t, Len(stack[t]), k)
  BY ContinueReplaces DEF StackType, At
<1>3. /\ DOMAIN stack[u] = 1..Len(stack[u]) /\ Len(stack[u]) \in Nat
      /\ DOMAIN stack'[u] = 1..Len(stack'[u]) /\ Len(k) \in Nat
  BY <1>2, LenProperties DEF StackType
<1>4. j \in DOMAIN stack'[u] /\ stack'[u][j] = stack[u][j]
  <2>1. CASE u # t
    BY <1>1, <1>2, <1>3, <2>1 DEF Replaced
  <2>2. CASE u = t
    <3>1. j \in 1..(Len(stack[t]) - 1) /\ j \in 1..(Len(stack[t]) - 1 + Len(k))
      BY <1>1, <1>3, <2>2
    <3>. QED  BY <1>2, <1>3, <2>2, <3>1 DEF Replaced
  <2>. QED  BY <2>1, <2>2
<1>. QED  BY <1>1, <1>4, FrameFields DEF Busy

\* A thread that begins.
LEMMA Begins ==
    ASSUME StackType, NEW t \in Threads, NEW k \in Seq(Frames), Begin(t, k)
    PROVE  \A r, W : /\ Busy(r, W) => Busy(r, W)'
                     /\ (\E j \in 1..Len(k) : k[j].on = r /\ k[j].op \in W) => Busy(r, W)'
<1>1. StackType' /\ Replaced(t, 1, k)
  BY BeginReplaces DEF StackType
<1>2. Len(stack[t]) # 1
  BY DEF Begin, Idle
<1>3. \A r, W :
         /\ Busy(r, W) /\ ~(/\ Len(stack[t]) = 1
                            /\ stack[t][1].on = r /\ stack[t][1].op \in W)
               => Busy(r, W)'
         /\ (\E j \in 1..Len(k) : k[j].on = r /\ k[j].op \in W) => Busy(r, W)'
  BY <1>1, BusyReplaced
<1>. QED  BY <1>2, <1>3

\* A worker with a completed receive is going to handle it, to look at the
\* buffer and to post the next one.
LEMMA OnRecvHas ==
    ASSUME NEW s \in Sessions
    PROVE  /\ \E j \in 1..Len(OnRecv(s)) : OnRecv(s)[j] = Frame("CompletedRecv", s)
           /\ \E j \in 1..Len(OnRecv(s)) : OnRecv(s)[j] = Frame("PostRecv", s)
           /\ \A j \in 1..Len(OnRecv(s)) : OnRecv(s)[j].op \notin {"OnDispatch"} \cup Turns
<1> DEFINE c == Frame("CompletedRecv", s)
           p == Frame("PostRecv", s)
           e == Frame("ReleaseRef", s)
           m == IF OwnMode THEN <<Frame("PostProcess", s)>> ELSE <<>>
<1>1. /\ c \in Frames /\ p \in Frames /\ e \in Frames /\ m \in Seq(Frames)
      /\ c.op = "CompletedRecv" /\ p.op = "PostRecv" /\ e.op = "ReleaseRef"
      /\ \A i \in 1..Len(m) : m[i].op = "PostProcess"
  <2>1. /\ \A op \in Ops : Frame(op, s) \in Frames /\ Frame(op, s).op = op
        /\ {"CompletedRecv", "PostRecv", "ReleaseRef", "PostProcess"} \subseteq Ops
    BY FrameFields DEF Ops
  <2>2. c \in Frames /\ p \in Frames /\ e \in Frames
        /\ c.op = "CompletedRecv" /\ p.op = "PostRecv" /\ e.op = "ReleaseRef"
    BY <2>1
  <2>3. CASE OwnMode
    <3>1. m = <<Frame("PostProcess", s)>>
      BY <2>3
    <3>. HIDE DEF m
    <3>. QED  BY <2>1, <2>2, <3>1
  <2>4. CASE ~OwnMode
    <3>1. m = <<>>
      BY <2>4
    <3>. HIDE DEF m
    <3>. QED  BY <2>2, <3>1
  <2>. QED  BY <2>3, <2>4
<1>2. OnRecv(s) = <<e, p>> \o m \o <<c>>
  BY Zenon DEF OnRecv
<1>. HIDE DEF c, p, e, m
<1> DEFINE a == <<e, p>>
           b == a \o m
           d == b \o <<c>>
<1>3. a \in Seq(Frames) /\ Len(a) = 2 /\ a[1] = e /\ a[2] = p
  BY <1>1
<1>. HIDE DEF a
<1>4. /\ b \in Seq(Frames) /\ Len(b) = 2 + Len(m) /\ Len(m) \in Nat
      /\ \A i \in 1..(2 + Len(m)) : b[i] = IF i <= 2 THEN a[i] ELSE m[i - 2]
  <2>1. /\ b \in Seq(Frames) /\ Len(b) = Len(a) + Len(m) /\ Len(m) \in Nat
        /\ \A i \in 1..(Len(a) + Len(m)) : b[i] = IF i <= Len(a) THEN a[i] ELSE m[i - Len(a)]
    BY <1>1, <1>3, ConcatProperties, LenProperties
  <2>. HIDE DEF b
  <2>. QED  BY <1>3, <2>1
<1>. HIDE DEF b
<1>5. /\ d = Append(b, c) /\ Len(d) = Len(b) + 1 /\ d[Len(b) + 1] = c
      /\ \A i \in 1..Len(b) : d[i] = b[i]
  BY <1>1, <1>4, AppendIsConcat, AppendProperties
<1>6. OnRecv(s) = d
  BY <1>2 DEF a, b
<1>. HIDE DEF d
<1>7. d[2] = p /\ 2 \in 1..Len(d) /\ Len(d) \in 1..Len(d) /\ d[Len(d)] = c
  BY <1>3, <1>4, <1>5
<1>8. ASSUME NEW j \in 1..Len(d) PROVE d[j].op \notin {"OnDispatch"} \cup Turns
  <2>1. j = 1 \/ j = 2 \/ j = Len(b) + 1 \/ (j - 2 \in 1..Len(m) /\ d[j] = m[j - 2])
    BY <1>4, <1>5
  <2>2. d[1] = e
    BY <1>3, <1>4, <1>5
  <2>. QED  BY <1>1, <1>5, <1>7, <2>1, <2>2 DEF Turns
<1>. QED  BY <1>6, <1>7, <1>8 DEF c, p

\* What holds of the stacks in a state of the invariant.
LEMMA StackFacts ==
    ASSUME HInv
    PROVE  StackType /\ Shaped /\ TypeOK /\ IInv /\ SocketInv
BY DEF HInv, IInv, TypeOK, StackType

------------------------------------------------------------------------------
(* Receiving                                                               *)

\* The handlers that neither post nor end a receive.
LEMMA OtherThanRecv ==
    ASSUME TypeOK, NEW t \in Threads, NEW s \in Sessions,
           (SessionStep(t, s) /\ UNCHANGED networkVars) \/ AddClosing(t, s) \/ ReleaseSession(t, s),
           ~PostRecv(t, s), ~PostRecvLocked(t, s), ~CompletedRecv(t, s), ~Disconnect(t, s)
    PROVE  /\ \E op : At(t, op, s) /\ op \notin Receivers \cup Armers
           /\ UNCHANGED <<connected, recvIO>>
           /\ \A r \in Sessions : recvPending'[r] => recvPending[r]
<1>0. recvPending \in [Sessions -> BOOLEAN]
  BY DEF TypeOK
<1>1. CASE AddClosing(t, s) \/ ReleaseSession(t, s)
  BY <1>0, <1>1 DEF AddClosing, ReleaseSession, Receivers, Armers, connVars, flagVars, ioVars
<1>2. CASE ReleaseRef(t, s) \/ Close(t, s)
  BY <1>0, <1>2 DEF ReleaseRef, Close, Receivers, Armers, connVars, flagVars, ioVars
<1>6. CASE Callback(t, s)
  BY <1>0, <1>6 DEF Callback, Receivers, Armers, connVars, flagVars, ioVars
<1>3. CASE UnlockRecv(t, s)
  BY <1>0, <1>3 DEF UnlockRecv, Receivers, Armers, connVars, ioVars
<1>4. CASE PostProcess(t, s) \/ TryProc(t, s) \/ PostProcessLocked(t, s) \/ UnlockProc(t, s)
  BY <1>0, <1>4 DEF PostProcess, TryProc, PostProcessLocked, UnlockProc,
     Receivers, Armers, connVars, flagVars, ioVars
<1>7. CASE ProcessCompletion(t, s)
  <2>1. /\ At(t, "ProcessCompletion", s) /\ UNCHANGED <<connVars, flagVars, ioVars>>
    BY <1>7, Zenon DEF ProcessCompletion
  <2>. QED  BY <1>0, <2>1 DEF Receivers, Armers, connVars, flagVars, ioVars
<1>8. CASE ProcessPacket(t, s)
  <2>1. /\ At(t, "ProcessPacket", s) /\ UNCHANGED <<connVars, flagVars, ioVars>>
    BY <1>8, Zenon DEF ProcessPacket
  <2>. QED  BY <1>0, <2>1 DEF Receivers, Armers, connVars, flagVars, ioVars
<1>5. CASE \/ Send(t, s) \/ SendBuffered(t, s) \/ Flush(t, s) \/ TrySend(t, s)
           \/ SendLocked(t, s) \/ UnlockSend(t, s) \/ CompletedSend(t, s)
  BY <1>0, <1>5 DEF Send, SendBuffered, Flush, TrySend, SendLocked, UnlockSend, CompletedSend,
     Receivers, Armers, connVars, flagVars, ioVars
<1>. QED  BY <1>1, <1>2, <1>3, <1>4, <1>5, <1>6, <1>7, <1>8 DEF SessionStep

\* The two statements about receives, without the literals.
LEMMA RecvParts ==
    /\ RecvArmed <=> \A s \in Sessions : connected[s] => recvIO[s] > 0 \/ Busy(s, Armers)
    /\ RecvArmed' <=> \A s \in Sessions : connected'[s] => recvIO'[s] > 0 \/ Busy(s, Armers)'
    /\ RecvInv' <=> \A s \in Sessions : connected'[s] /\ recvPending'[s] =>
                       recvIO'[s] > 0 \/ Busy(s, Receivers)'
BY DEF RecvArmed, RecvInv, Armers

\* A step that posts and ends no receive.
LEMMA RecvKept ==
    ASSUME RecvInv, RecvArmed,
           \A r \in Sessions : /\ connected'[r] => connected[r]
                               /\ recvPending'[r] => recvPending[r]
                               /\ recvIO'[r] = recvIO[r],
           \A r \in Sessions : \A W : connected'[r] /\ Busy(r, W) /\ W \in {Receivers, Armers}
                                      => Busy(r, W)'
    PROVE  RecvInv' /\ RecvArmed'
BY RecvParts DEF RecvInv

\* PostRecv finds m_RecvPending free, or a receive that is posted or handled.
LEMMA PostRecvArms ==
    ASSUME DInv, NEW t \in Threads, NEW s \in Sessions, PostRecv(t, s)
    PROVE  RecvInv' /\ RecvArmed'
<1>0. HInv /\ StackType /\ TypeOK /\ RecvInv /\ RecvArmed
  BY StackFacts DEF DInv
<1>1. /\ At(t, "PostRecv", s) /\ connected' = connected /\ recvIO' = recvIO
      /\ \A r \in Sessions : recvPending'[r] => recvPending[r] \/ r = s
  BY <1>0 DEF PostRecv, connVars, ioVars, TypeOK
<1>2. PICK k \in Seq(Frames) : /\ Continue(t, k)
                               /\ recvPending[s] \/ (Len(k) = 1 /\ k[1] = Frame("PostRecvLocked", s))
  <2>1. <<Frame("PostRecvLocked", s)>> \in Seq(Frames) /\ <<>> \in Seq(Frames)
    BY DullContinuations, UnmarkedOps DEF Dull
  <2>. QED  BY <2>1 DEF PostRecv, Return
<1>3. \A r, W : /\ Busy(r, W) /\ ~("PostRecv" \in W /\ r = s) => Busy(r, W)'
                /\ (\E j \in 1..Len(k) : k[j].on = r /\ k[j].op \in W) => Busy(r, W)'
  BY <1>0, <1>1, <1>2, GoesOn
<1>4. \A r \in Sessions : Busy(r, Receivers) => Busy(r, Receivers)'
  BY <1>3 DEF Receivers
<1>5. \A r \in Sessions \ {s} : Busy(r, Armers) => Busy(r, Armers)'
  BY <1>3
<1>6. CASE recvPending[s]
  <2>1. connected[s] => recvIO[s] > 0 \/ Busy(s, Receivers)
    BY <1>0, <1>6 DEF RecvInv
  <2>2. ASSUME Busy(s, Receivers) PROVE Busy(s, Armers)'
    <3>1. CASE Busy(s, {"PostRecvLocked", "Disconnect"})
      <4>1. Busy(s, {"PostRecvLocked", "Disconnect"})'
        BY <1>3, <3>1
      <4>. QED  BY <4>1 DEF Armers, Busy
    <3>2. CASE Busy(s, {"CompletedRecv"})
      <4>1. PICK u \in Threads : \E i \in DOMAIN stack[u] :
               stack[u][i].on = s /\ stack[u][i].op \in {"CompletedRecv"}
        BY <3>2 DEF Busy
      <4>2. PICK i \in DOMAIN stack[u] : stack[u][i].on = s /\ stack[u][i].op = "CompletedRecv"
        BY <4>1
      <4>3. DOMAIN stack[u] = 1..Len(stack[u])
        BY <1>0, LenProperties DEF StackType
      <4>4. Below(stack[u], i, "PostRecv")
        BY <1>0, <4>2, <4>3, StackFacts DEF Shaped, Shape, Looks
      <4>5. Busy(s, {"PostRecv"})'
        BY <1>0, <1>1, <1>2, <4>2, <4>4, BelowStays
      <4>. QED  BY <4>5 DEF Busy, Armers
    <3>3. Busy(s, {"PostRecvLocked", "Disconnect"}) \/ Busy(s, {"CompletedRecv"})
      BY <2>2 DEF Busy, Receivers
    <3>. QED  BY <3>1, <3>2, <3>3
  <2>3. RecvInv'
    BY <1>0, <1>1, <1>4, <1>6, RecvParts DEF RecvInv
  <2>. QED  BY <1>0, <1>1, <1>5, <2>1, <2>2, <2>3, RecvParts
<1>7. CASE ~recvPending[s]
  <2>1. 1 \in 1..Len(k) /\ k[1].on = s /\ k[1].op = "PostRecvLocked"
    BY <1>2, <1>7, FrameFields
  <2>2. Busy(s, Receivers)' /\ Busy(s, Armers)'
    BY <1>3, <2>1 DEF Receivers, Armers
  <2>. QED  BY <1>0, <1>1, <1>4, <1>5, <2>2, RecvParts DEF RecvInv
<1>. QED  BY <1>6, <1>7

\* PostRecv under the lock posts a receive, or is going to disconnect.
LEMMA PostRecvLockedArms ==
    ASSUME DInv, NEW t \in Threads, NEW s \in Sessions, PostRecvLocked(t, s)
    PROVE  RecvInv' /\ RecvArmed'
<1>0. StackType /\ TypeOK /\ RecvInv /\ RecvArmed
  BY StackFacts DEF DInv
<1>1. /\ At(t, "PostRecvLocked", s) /\ connected' = connected /\ recvPending' = recvPending
      /\ \A r \in Sessions \ {s} : recvIO'[r] = recvIO[r]
      /\ recvIO[s] \in Nat
  BY <1>0 DEF PostRecvLocked, connVars, flagVars, TypeOK
<1>2. PICK k \in Seq(Frames) :
         /\ Continue(t, k)
         /\ connected[s] => recvIO'[s] > 0 \/ \E j \in 1..Len(k) : k[j] = Frame("Disconnect", s)
  <2>1. /\ <<Frame("UnlockRecv", s)>> \in Seq(Frames) /\ <<>> \in Seq(Frames)
        /\ GiveUp(s, "UnlockRecv") \in Seq(Frames)
    BY DullContinuations, UnmarkedOps DEF Dull, GiveUp
  <2>2. \E j \in 1..Len(GiveUp(s, "UnlockRecv")) :
           GiveUp(s, "UnlockRecv")[j] = Frame("Disconnect", s)
    BY DEF GiveUp
  <2>3. CASE ~connected[s] /\ Continue(t, <<Frame("UnlockRecv", s)>>)
    BY <2>1, <2>3
  <2>4. CASE recvIO' = [recvIO EXCEPT ![s] = @ + 1] /\ Return(t)
    <3>1. recvIO'[s] > 0
      BY <1>0, <1>1, <2>4 DEF TypeOK
    <3>. QED  BY <2>1, <2>4, <3>1 DEF Return
  <2>5. CASE Continue(t, GiveUp(s, "UnlockRecv"))
    BY <2>1, <2>2, <2>5
  <2>. QED  BY <2>3, <2>4, <2>5 DEF PostRecvLocked
<1>3. \A r, W : /\ Busy(r, W) /\ ~("PostRecvLocked" \in W /\ r = s) => Busy(r, W)'
                /\ (\E j \in 1..Len(k) : k[j].on = r /\ k[j].op \in W) => Busy(r, W)'
  BY <1>0, <1>1, <1>2, GoesOn
<1>4. \A r \in Sessions \ {s} : /\ Busy(r, Armers) => Busy(r, Armers)'
                                /\ Busy(r, Receivers) => Busy(r, Receivers)'
  BY <1>3
<1>5. connected[s] => recvIO'[s] > 0 \/ (Busy(s, Armers)' /\ Busy(s, Receivers)')
  <2>1. SUFFICES ASSUME NEW j \in 1..Len(k), k[j] = Frame("Disconnect", s)
                 PROVE  Busy(s, Armers)' /\ Busy(s, Receivers)'
    BY <1>2
  <2>2. k[j].on = s /\ k[j].op = "Disconnect"
    BY <2>1, FrameFields
  <2>. QED  BY <1>3, <2>2 DEF Armers, Receivers
<1>. QED  BY <1>0, <1>1, <1>4, <1>5, RecvParts DEF RecvInv

\* CompletedRecv unlocks m_RecvPending, or is going to disconnect.
LEMMA CompletedRecvArms ==
    ASSUME DInv, NEW t \in Threads, NEW s \in Sessions, CompletedRecv(t, s)
    PROVE  RecvInv' /\ RecvArmed'
<1>0. StackType /\ TypeOK /\ RecvInv /\ RecvArmed
  BY StackFacts DEF DInv
<1>1. /\ At(t, "CompletedRecv", s) /\ connected' = connected /\ recvIO' = recvIO
      /\ \A r \in Sessions : recvPending'[r] => recvPending[r]
  BY <1>0 DEF CompletedRecv, connVars, ioVars, TypeOK
<1>2. PICK k \in Seq(Frames) :
         Continue(t, k) /\ (recvPending'[s] => \E j \in 1..Len(k) : k[j] = Frame("Disconnect", s))
  <2>1. /\ <<Frame("UnlockRecv", s), Frame("Disconnect", s)>> \in Seq(Frames) /\ <<>> \in Seq(Frames)
        /\ <<Frame("Disconnect", s)>> \in Seq(Frames)
    BY DullContinuations, UnmarkedOps DEF Dull
  <2>2. \E j \in 1..Len(<<Frame("UnlockRecv", s), Frame("Disconnect", s)>>) :
           <<Frame("UnlockRecv", s), Frame("Disconnect", s)>>[j] = Frame("Disconnect", s)
    OBVIOUS
  <2>3. CASE recvPending' = [recvPending EXCEPT ![s] = FALSE]
    <3>1. ~recvPending'[s]
      BY <1>0, <2>3 DEF TypeOK
    <3>. QED  BY <2>1, <3>1 DEF CompletedRecv, Return
  <2>4. CASE Continue(t, <<Frame("UnlockRecv", s), Frame("Disconnect", s)>>)
    BY <2>1, <2>2, <2>4
  <2>. QED  BY <2>3, <2>4 DEF CompletedRecv
<1>3. \A r, W : /\ Busy(r, W) /\ ~("CompletedRecv" \in W /\ r = s) => Busy(r, W)'
                /\ (\E j \in 1..Len(k) : k[j].on = r /\ k[j].op \in W) => Busy(r, W)'
  BY <1>0, <1>1, <1>2, GoesOn
<1>4. /\ \A r \in Sessions \ {s} : Busy(r, Receivers) => Busy(r, Receivers)'
      /\ \A r \in Sessions : Busy(r, Armers) => Busy(r, Armers)'
  BY <1>3 DEF Armers
<1>5. recvPending'[s] => Busy(s, Receivers)'
  <2>1. SUFFICES ASSUME NEW j \in 1..Len(k), k[j] = Frame("Disconnect", s)
                 PROVE  Busy(s, Receivers)'
    BY <1>2
  <2>2. k[j].on = s /\ k[j].op = "Disconnect"
    BY <2>1, FrameFields
  <2>. QED  BY <1>3, <2>2 DEF Receivers
<1>. QED  BY <1>0, <1>1, <1>4, <1>5, RecvParts DEF RecvInv

\* After Disconnect nothing needs to be received.
LEMMA DisconnectArms ==
    ASSUME DInv, NEW t \in Threads, NEW s \in Sessions, Disconnect(t, s)
    PROVE  RecvInv' /\ RecvArmed'
<1>0. StackType /\ TypeOK /\ RecvInv /\ RecvArmed
  BY StackFacts DEF DInv
<1>1. /\ At(t, "Disconnect", s) /\ ~connected'[s]
      /\ UNCHANGED <<recvPending, recvIO>>
      /\ \A r \in Sessions : connected'[r] => connected[r]
  BY <1>0 DEF Disconnect, connVars, flagVars, ioVars, TypeOK
<1>2. PICK k \in Seq(Frames) : Continue(t, k)
  BY DullContinuations, UnmarkedOps DEF Disconnect, Return, Dull
<1>3. \A r, W : Busy(r, W) /\ ~("Disconnect" \in W /\ r = s) => Busy(r, W)'
  BY <1>0, <1>1, <1>2, GoesOn
<1>. QED  BY <1>0, <1>1, <1>3, RecvKept

\* A session step, or one of the closing thread.
LEMMA RunArms ==
    ASSUME DInv, NEW t \in Threads, NEW s \in Sessions, Run(t, s)
    PROVE  RecvInv' /\ RecvArmed'
<1>0. StackType /\ TypeOK /\ RecvInv /\ RecvArmed
  BY StackFacts DEF DInv
<1>1. CASE PostRecv(t, s) \/ PostRecvLocked(t, s) \/ CompletedRecv(t, s) \/ Disconnect(t, s)
  BY <1>1, PostRecvArms, PostRecvLockedArms, CompletedRecvArms, DisconnectArms
<1>2. CASE ~(PostRecv(t, s) \/ PostRecvLocked(t, s) \/ CompletedRecv(t, s) \/ Disconnect(t, s))
  <2>1. /\ \E op : At(t, op, s) /\ op \notin Receivers \cup Armers
        /\ UNCHANGED <<connected, recvIO>>
        /\ \A r \in Sessions : recvPending'[r] => recvPending[r]
    BY <1>0, <1>2, OtherThanRecv DEF Run
  <2>2. PICK op : At(t, op, s) /\ op \notin Receivers \cup Armers
    BY <2>1
  <2>3. PICK k \in Seq(Frames) : Continue(t, k)
    BY StepFits DEF Run
  <2>4. \A r, W : Busy(r, W) /\ ~(op \in W /\ r = s) => Busy(r, W)'
    BY <1>0, <2>2, <2>3, GoesOn
  <2>. QED  BY <1>0, <2>1, <2>2, <2>4, RecvKept
<1>. QED  BY <1>1, <1>2

\* A worker that takes a completed receive is going to post the next one.
LEMMA WorkersArm ==
    ASSUME DInv, NEW t \in Threads, NEW s \in Sessions,
           IoDequeue(t, s) \/ DequeueProcess(t, s) \/ AppCall(t, s)
    PROVE  RecvInv' /\ RecvArmed'
<1>0. StackType /\ TypeOK /\ RecvInv /\ RecvArmed
  BY StackFacts DEF DInv
<1>1. UNCHANGED <<connected, recvPending>> /\ \A r \in Sessions \ {s} : recvIO'[r] = recvIO[r]
  BY <1>0 DEF IoDequeue, DequeueRecv, DequeueSend, DequeueFailed, DequeueProcess, AppCall,
     connVars, flagVars, ioVars, TypeOK
<1>2. PICK k \in Seq(Frames) :
         /\ Begin(t, k)
         /\ recvIO'[s] = recvIO[s] \/ (\E j \in 1..Len(k) : k[j].on = s /\ k[j].op \in Receivers)
         /\ recvIO'[s] = recvIO[s] \/ (\E j \in 1..Len(k) : k[j].on = s /\ k[j].op \in Armers)
  <2>1. CASE DequeueRecv(t, s)
    <3>1. OnRecv(s) \in Seq(Frames) /\ Begin(t, OnRecv(s))
      BY <2>1, StartShapes DEF DequeueRecv
    <3>2. /\ \E j \in 1..Len(OnRecv(s)) : OnRecv(s)[j] = Frame("CompletedRecv", s)
          /\ \E j \in 1..Len(OnRecv(s)) : OnRecv(s)[j] = Frame("PostRecv", s)
      BY OnRecvHas
    <3>. QED  BY <3>1, <3>2, FrameFields DEF Receivers, Armers
  <2>2. CASE DequeueSend(t, s) \/ DequeueProcess(t, s)
    <3>1. recvIO' = recvIO
      BY <2>2 DEF DequeueSend, DequeueProcess
    <3>. QED  BY <2>2, <3>1, StartShapes DEF DequeueSend, DequeueProcess
  <2>3. CASE DequeueFailed(t, s)
    <3> DEFINE k == <<Frame("ReleaseRef", s), Frame("Disconnect", s)>>
    <3>1. k \in Seq(Frames)
      BY DullContinuations, UnmarkedOps DEF Dull
    <3>2. Len(k) = 2 /\ k[2].on = s /\ k[2].op = "Disconnect"
      BY FrameFields
    <3>3. Begin(t, k)
      BY <2>3 DEF DequeueFailed
    <3>. HIDE DEF k
    <3>. QED  BY <3>1, <3>2, <3>3 DEF Receivers, Armers
  <2>4. CASE AppCall(t, s)
    <3>1. PICK call \in AppCalls : Begin(t, <<Frame(call, s)>>)
      BY <2>4 DEF AppCall
    <3>2. <<Frame(call, s)>> \in Seq(Frames)
      BY DullContinuations, UnmarkedOps, NetworkAssumption DEF Dull
    <3>3. recvIO' = recvIO
      BY <2>4 DEF AppCall, ioVars
    <3>. QED  BY <3>1, <3>2, <3>3
  <2>. QED  BY <2>1, <2>2, <2>3, <2>4 DEF IoDequeue
<1>3. \A r, W : /\ Busy(r, W) => Busy(r, W)'
                /\ (\E j \in 1..Len(k) : k[j].on = r /\ k[j].op \in W) => Busy(r, W)'
  BY <1>0, <1>2, Begins
<1>4. /\ recvIO'[s] = recvIO[s] \/ Busy(s, Receivers)'
      /\ recvIO'[s] = recvIO[s] \/ Busy(s, Armers)'
  BY <1>2, <1>3
<1>. QED  BY <1>0, <1>1, <1>3, <1>4, RecvParts DEF RecvInv

\* A new connection starts with m_RecvPending free and a PostRecv to run.
LEMMA AllocateArms ==
    ASSUME DInv, NEW t \in Allocators, NEW s \in Sessions, AllocateSession(t, s)
    PROVE  RecvInv' /\ RecvArmed'
<1> DEFINE k == <<Frame("PostRecv", s), Frame("OnAccept", s)>>
<1>0. StackType /\ TypeOK /\ RecvInv /\ RecvArmed /\ t \in Threads
  BY StackFacts, NetworkAssumption DEF DInv
<1>1. /\ Begin(t, k) /\ k \in Seq(Frames) /\ recvIO' = recvIO
      /\ Len(k) = 2 /\ k[1].on = s /\ k[1].op = "PostRecv"
  BY DullContinuations, UnmarkedOps, FrameFields DEF AllocateSession, Dull, ioVars
<1>. HIDE DEF k
<1>2. \A r, W : /\ Busy(r, W) => Busy(r, W)'
                /\ (\E j \in 1..Len(k) : k[j].on = r /\ k[j].op \in W) => Busy(r, W)'
  BY <1>0, <1>1, Begins
<1>3. Busy(s, Armers)'
  BY <1>1, <1>2 DEF Armers
<1>4. \A r \in Sessions \ {s} : connected'[r] = connected[r] /\ recvPending'[r] = recvPending[r]
  BY <1>0 DEF AllocateSession, Attach, flagVars, TypeOK
<1>5. connected'[s] /\ recvPending'[s] => connected[s] /\ recvPending[s]
  BY <1>0 DEF AllocateSession, Attach, flagVars, TypeOK
<1>. QED  BY <1>0, <1>1, <1>2, <1>3, <1>4, <1>5, RecvParts DEF RecvInv

------------------------------------------------------------------------------
(* Taking turns                                                            *)

\* Thread t has the turn for r below position n of its stack.
TurnBelow(t, n, r) == \E i \in 1..(n - 1) : stack[t][i].on = r /\ stack[t][i].op \in Turns

\* What a replaced stack does to the turns.
LEMMA TurnReplaced ==
    ASSUME StackType, StackType', NEW t \in Threads, NEW k \in Seq(Frames), NEW n,
           Replaced(t, n, k), NEW r
    PROVE  /\ \A u \in Threads \ {t} : HasTurn(u, r)' <=> HasTurn(u, r)
           /\ HasTurn(t, r)' <=>
                 TurnBelow(t, n, r) \/ \E j \in 1..Len(k) : k[j].on = r /\ k[j].op \in Turns
           /\ HasTurn(t, r) <=>
                 \/ TurnBelow(t, n, r)
                 \/ Len(stack[t]) = n /\ stack[t][n].on = r /\ stack[t][n].op \in Turns
<1>1. \A u \in Threads : /\ DOMAIN stack[u] = 1..Len(stack[u]) /\ Len(stack[u]) \in Nat
                         /\ DOMAIN stack'[u] = 1..Len(stack'[u])
  BY LenProperties DEF StackType
<1>2. /\ n \in Nat /\ n > 0 /\ Len(k) \in Nat /\ Len(stack'[t]) = n - 1 + Len(k)
      /\ \A u \in Threads \ {t} : stack'[u] = stack[u]
      /\ \A i \in 1..(n - 1) : stack'[t][i] = stack[t][i]
      /\ \A i \in 1..Len(k) : stack'[t][n - 1 + i] = k[i]
      /\ Len(stack[t]) = n - 1 \/ Len(stack[t]) = n
  BY LenProperties DEF Replaced
<1>3. \A u \in Threads \ {t} : HasTurn(u, r)' <=> HasTurn(u, r)
  BY <1>2 DEF HasTurn
<1>4. HasTurn(t, r) <=>
         \/ TurnBelow(t, n, r)
         \/ Len(stack[t]) = n /\ stack[t][n].on = r /\ stack[t][n].op \in Turns
  <2>1. \A i \in 1..Len(stack[t]) : i \in 1..(n - 1) \/ (i = n /\ Len(stack[t]) = n)
    BY <1>1, <1>2
  <2>2. \A i \in 1..(n - 1) : i \in 1..Len(stack[t])
    BY <1>1, <1>2
  <2>3. Len(stack[t]) = n => n \in 1..Len(stack[t])
    BY <1>2
  <2>. QED  BY <1>1, <2>1, <2>2, <2>3 DEF HasTurn, TurnBelow
<1>5. HasTurn(t, r)' <=>
         TurnBelow(t, n, r) \/ \E j \in 1..Len(k) : k[j].on = r /\ k[j].op \in Turns
  <2>a. ASSUME NEW i \in 1..Len(stack'[t]), i \notin 1..(n - 1)
        PROVE  \E j \in 1..Len(k) : stack'[t][i] = k[j]
    <3>1. i - (n - 1) \in 1..Len(k) /\ i = n - 1 + (i - (n - 1))
      BY <1>2, <2>a
    <3>. QED  BY <1>2, <3>1
  <2>1. \A i \in DOMAIN stack'[t] :
           \/ i \in 1..(n - 1) /\ stack'[t][i] = stack[t][i]
           \/ \E j \in 1..Len(k) : stack'[t][i] = k[j]
    BY <1>1, <1>2, <2>a
  <2>2. \A i \in 1..(n - 1) : i \in DOMAIN stack'[t] /\ stack'[t][i] = stack[t][i]
    BY <1>1, <1>2
  <2>3. ASSUME NEW j \in 1..Len(k)
        PROVE  \E i \in DOMAIN stack'[t] : stack'[t][i] = k[j]
    <3>1. n - 1 + j \in 1..(n - 1 + Len(k))
      BY <1>2
    <3>. QED  BY <1>1, <1>2, <3>1
  <2>. QED  BY <2>1, <2>2, <2>3 DEF HasTurn, TurnBelow
<1>. QED  BY <1>3, <1>4, <1>5

\* Callbacks that stay run in a turn that stays.
LEMMA InTurnKept ==
    ASSUME StackType, StackType', InTurn, NEW t \in Threads, NEW k \in Seq(Frames), NEW n,
           Replaced(t, n, k),
           \A r : HasTurn(t, r) => HasTurn(t, r)',
           \A j \in 1..Len(k) : k[j].op = "OnDispatch" => HasTurn(t, k[j].on)'
    PROVE  InTurn'
<1>1. \A u \in Threads \ {t} : \A r : HasTurn(u, r)' <=> HasTurn(u, r)
  BY TurnReplaced
<1>2. ASSUME NEW u \in Threads, NEW i \in DOMAIN stack'[u], stack'[u][i].op = "OnDispatch",
             NEW r, r = stack'[u][i].on
      PROVE  HasTurn(u, r)'
  <2>1. CASE u # t
    <3>1. stack'[u] = stack[u]
      BY <2>1 DEF Replaced
    <3>. QED  BY <1>1, <1>2, <2>1, <3>1 DEF InTurn
  <2>2. CASE u = t
    <3>1. DOMAIN stack'[t] = 1..Len(stack'[t]) /\ DOMAIN stack[t] = 1..Len(stack[t])
          /\ Len(stack[t]) \in Nat
      BY LenProperties DEF StackType
    <3>2. CASE i \in 1..(n - 1) /\ stack'[t][i] = stack[t][i]
      <4>1. i \in DOMAIN stack[t]
        BY <3>1, <3>2 DEF Replaced
      <4>. QED  BY <1>2, <2>2, <3>2, <4>1 DEF InTurn
    <3>3. CASE \E j \in 1..Len(k) : i = n - 1 + j /\ stack'[t][i] = k[j]
      <4>1. PICK j \in 1..Len(k) : i = n - 1 + j /\ stack'[t][i] = k[j]
        BY <3>3
      <4>2. k[j].op = "OnDispatch" /\ k[j].on = r
        BY <1>2, <2>2, <4>1
      <4>. QED  BY <2>2, <4>2
    <3>. QED  BY <1>2, <2>2, <3>1, <3>2, <3>3, ReplacedFrames
  <2>. QED  BY <2>1, <2>2
<1>. QED  BY <1>2 DEF InTurn

\* A step after which the turns are what they were.
LEMMA TurnsKept ==
    ASSUME OneTurn, \A r \in Sessions : procPending'[r] = procPending[r] /\ procQ'[r] = procQ[r],
           \A r \in Sessions : \A u \in Threads : HasTurn(u, r)' <=> HasTurn(u, r)
    PROVE  OneTurn'
BY DEF OneTurn

\* Continuations that take no turn.
Turnless == {k \in Seq(Frames) : \A j \in 1..Len(k) : k[j].op \notin Turns \cup {"OnDispatch"}}

\* A step without turns, from a handler that has none.
LEMMA TurnlessStep ==
    ASSUME StackType, StackType', TurnInv, NEW t \in Threads, NEW k \in Turnless, NEW n,
           Replaced(t, n, k), Len(stack[t]) = n => stack[t][n].op \notin Turns,
           \A r \in Sessions : procPending'[r] = procPending[r] /\ procQ'[r] = procQ[r]
    PROVE  TurnInv'
<1>1. k \in Seq(Frames) /\ \A j \in 1..Len(k) : k[j].op \notin Turns /\ k[j].op # "OnDispatch"
  BY DEF Turnless
<1>2. \A r : \A u \in Threads : HasTurn(u, r)' <=> HasTurn(u, r)
  <2>1. ASSUME NEW r
        PROVE  /\ \A u \in Threads \ {t} : HasTurn(u, r)' <=> HasTurn(u, r)
               /\ HasTurn(t, r)' <=>
                     TurnBelow(t, n, r) \/ \E j \in 1..Len(k) : k[j].on = r /\ k[j].op \in Turns
               /\ HasTurn(t, r) <=>
                     \/ TurnBelow(t, n, r)
                     \/ Len(stack[t]) = n /\ stack[t][n].on = r /\ stack[t][n].op \in Turns
    BY <1>1, TurnReplaced
  <2>2. ASSUME NEW r PROVE HasTurn(t, r)' <=> HasTurn(t, r)
    BY <1>1, <2>1
  <2>. QED  BY <2>1, <2>2
<1>3. OneTurn'
  BY <1>2, TurnsKept DEF TurnInv
<1>4. InTurn'
  BY <1>1, <1>2, InTurnKept DEF TurnInv
<1>. QED  BY <1>3, <1>4 DEF TurnInv

\* Dull continuations take no turn.
LEMMA DullTurnless ==
    ASSUME OwnMode
    PROVE  Dull \subseteq Turnless
BY DEF Dull, Turnless, Turns, Marked, Guarded

\* The handlers that neither take nor end a turn.
LEMMA OtherThanTurns ==
    ASSUME OwnMode, NEW t \in Threads, NEW s \in Sessions,
           SessionStep(t, s) \/ AddClosing(t, s) \/ ReleaseSession(t, s),
           ~TryProc(t, s), ~PostProcessLocked(t, s), ~ProcessCompletion(t, s), ~UnlockProc(t, s)
    PROVE  /\ \E op : At(t, op, s) /\ op \notin Turns
           /\ UNCHANGED <<procPending, procQ>>
           /\ \E k \in Turnless : Continue(t, k)
<1>1. CASE AddClosing(t, s) \/ ReleaseSession(t, s)
  <2>1. \E k \in Dull : Continue(t, k)
    BY <1>1, DullSteps
  <2>2. /\ \E op : At(t, op, s) /\ op \notin Turns
        /\ UNCHANGED <<procPending, procQ>>
    BY <1>1 DEF AddClosing, ReleaseSession, Turns, flagVars, ioVars
  <2>. QED  BY <2>1, <2>2, DullTurnless
<1>2. CASE ReleaseRef(t, s)
  <2>1. PICK k \in Seq(Frames) : Continue(t, k) /\ \A j \in 1..Len(k) : k[j] = AddFrame(s)
    BY <1>2, ReleaseRefFits
  <2>2. AddFrame(s).op = "AddClosing"
    BY FrameFields DEF AddFrame
  <2>3. k \in Turnless
    BY <2>1, <2>2 DEF Turnless, Turns
  <2>4. At(t, "ReleaseRef", s) /\ UNCHANGED <<procPending, procQ>>
    BY <1>2 DEF ReleaseRef, flagVars, ioVars
  <2>. QED  BY <2>1, <2>3, <2>4 DEF Turns
<1>3. CASE PostProcess(t, s)
  <2>1. <<>> \in Turnless
    BY DEF Turnless
  <2>2. <<Frame("TryProc", s)>> \in Turnless
    <3>1. Frame("TryProc", s) \in Frames /\ Frame("TryProc", s).op = "TryProc"
      BY FrameFields DEF Ops
    <3>. QED  BY <3>1 DEF Turnless, Turns
  <2>3. At(t, "PostProcess", s) /\ UNCHANGED <<procPending, procQ>>
    BY <1>3 DEF PostProcess, flagVars, ioVars
  <2>. QED  BY <1>3, <2>1, <2>2, <2>3 DEF PostProcess, Return, Turns
<1>4. CASE ProcessPacket(t, s)
  <2>1. <<>> \in Turnless
    BY DEF Turnless
  <2>2. At(t, "ProcessPacket", s) /\ UNCHANGED <<procPending, procQ>> /\ Continue(t, <<>>)
    BY <1>4 DEF ProcessPacket, flagVars, ioVars, Return
  <2>. QED  BY <2>1, <2>2 DEF Turns
<1>5. CASE \/ Disconnect(t, s) \/ Close(t, s) \/ Callback(t, s) \/ PostRecv(t, s)
           \/ PostRecvLocked(t, s) \/ UnlockRecv(t, s) \/ CompletedRecv(t, s)
           \/ Send(t, s) \/ SendBuffered(t, s) \/ Flush(t, s) \/ TrySend(t, s)
           \/ SendLocked(t, s) \/ UnlockSend(t, s) \/ CompletedSend(t, s)
  <2>1. \E k \in Dull : Continue(t, k)
    BY <1>5, DullSteps
  <2>2. CASE Disconnect(t, s) \/ Close(t, s) \/ PostRecv(t, s)
             \/ PostRecvLocked(t, s) \/ UnlockRecv(t, s) \/ CompletedRecv(t, s)
    BY <2>1, <2>2, DullTurnless DEF Disconnect, Close, PostRecv, PostRecvLocked, UnlockRecv,
       CompletedRecv, Turns, flagVars, ioVars
  <2>3. CASE Send(t, s) \/ SendBuffered(t, s) \/ Flush(t, s) \/ TrySend(t, s)
             \/ SendLocked(t, s) \/ UnlockSend(t, s) \/ CompletedSend(t, s)
    BY <2>1, <2>3, DullTurnless DEF Send, SendBuffered, Flush, TrySend, SendLocked, UnlockSend,
       CompletedSend, Turns, flagVars, ioVars
  <2>4. CASE Callback(t, s)
    BY <2>1, <2>4, DullTurnless DEF Callback, Turns, flagVars, ioVars
  <2>. QED  BY <1>5, <2>2, <2>3, <2>4
<1>. QED  BY <1>1, <1>2, <1>3, <1>4, <1>5 DEF SessionStep

\* Above its turn a thread has no other, and no callback.
LEMMA TopTurn ==
    ASSUME StackType, Shaped, NEW t \in Threads, NEW s, NEW op \in Turns, At(t, op, s)
    PROVE  /\ \A r : ~TurnBelow(t, Len(stack[t]), r)
           /\ \A r : HasTurn(t, r) <=> r = s
           /\ \A i \in DOMAIN stack[t] : stack[t][i].op # "OnDispatch"
<1> DEFINE q == stack[t]
           n == Len(stack[t])
<1>1. /\ n \in Nat /\ n > 0 /\ DOMAIN q = 1..n /\ q[n].op = op /\ q[n].on = s
  BY LenProperties, EmptySeq, FrameFields DEF StackType, At, Top
<1>2. \A i \in 1..n : OnTop(q, i)
  BY DEF Shaped, Shape
<1>3. Loops(q)
  BY DEF Shaped, Shape
<1>4. Len(q) = n
  OBVIOUS
<1>5. /\ \A i \in DOMAIN stack[t] : stack[t][i] = q[i]
      /\ HasTurn(t, s) <=> \E i \in DOMAIN q : q[i].on = s /\ q[i].op \in Turns
      /\ \A r : HasTurn(t, r) <=> \E i \in DOMAIN q : q[i].on = r /\ q[i].op \in Turns
      /\ \A r : TurnBelow(t, n, r) <=> \E i \in 1..(n - 1) : q[i].on = r /\ q[i].op \in Turns
  BY DEF HasTurn, TurnBelow
<1>. HIDE DEF q, n
<1>6. ASSUME NEW i \in 1..(n - 1), q[i].op \in Turns PROVE FALSE
  <2>1. i \in 1..n /\ n \in 1..n /\ i # n /\ i <= n
    BY <1>1
  <2>2. q[i].op \in Looping /\ q[n].op \in ProcOps
    BY <1>1, <1>2, <1>4, <1>6, <2>1 DEF OnTop, Turns, Looping, ProcOps
  <2>. QED  BY <1>3, <1>4, <2>1, <2>2 DEF Loops
<1>7. \A i \in 1..n : q[i].op \in Turns => i = n
  BY <1>1, <1>6
<1>8. \A i \in 1..n : q[i].op # "OnDispatch"
  BY <1>1, <1>2, <1>4 DEF OnTop, Turns
<1>9. n \in 1..n
  BY <1>1
<1>10. \A r : HasTurn(t, r) <=> r = s
  BY <1>1, <1>5, <1>7, <1>9
<1>. QED  BY <1>1, <1>5, <1>6, <1>8, <1>10 DEF n, q

\* What going on from the top frame does to the turns.
LEMMA TurnsGoOn ==
    ASSUME StackType, NEW t \in Threads, NEW op, NEW s, At(t, op, s),
           NEW k \in Seq(Frames), Continue(t, k)
    PROVE  /\ StackType' /\ Replaced(t, Len(stack[t]), k)
           /\ stack[t][Len(stack[t])].op = op /\ stack[t][Len(stack[t])].on = s
           /\ \A r : \A u \in Threads \ {t} : HasTurn(u, r)' <=> HasTurn(u, r)
           /\ \A r : HasTurn(t, r)' <=>
                 TurnBelow(t, Len(stack[t]), r) \/ \E j \in 1..Len(k) : k[j].on = r /\ k[j].op \in Turns
           /\ \A r : HasTurn(t, r) <=> TurnBelow(t, Len(stack[t]), r) \/ (s = r /\ op \in Turns)
<1>1. stack[t] # <<>> /\ stack[t][Len(stack[t])].op = op /\ stack[t][Len(stack[t])].on = s
  BY FrameFields DEF At, Top
<1>2. StackType' /\ Replaced(t, Len(stack[t]), k)
  BY <1>1, ContinueReplaces DEF StackType
<1>3. ASSUME NEW r
      PROVE  /\ \A u \in Threads \ {t} : HasTurn(u, r)' <=> HasTurn(u, r)
             /\ HasTurn(t, r)' <=>
                   TurnBelow(t, Len(stack[t]), r) \/ \E j \in 1..Len(k) : k[j].on = r /\ k[j].op \in Turns
             /\ HasTurn(t, r) <=>
                   \/ TurnBelow(t, Len(stack[t]), r)
                   \/ Len(stack[t]) = Len(stack[t]) /\ stack[t][Len(stack[t])].on = r /\ stack[t][Len(stack[t])].op \in Turns
  BY <1>2, TurnReplaced
<1>4. ASSUME NEW r PROVE HasTurn(t, r) <=> TurnBelow(t, Len(stack[t]), r) \/ (s = r /\ op \in Turns)
  BY <1>1, <1>3
<1>. QED  BY <1>1, <1>2, <1>3, <1>4

\* A thread without callbacks that begins none.
LEMMA NoCallback ==
    ASSUME StackType, StackType', InTurn, NEW t \in Threads, NEW k \in Seq(Frames), NEW n,
           Replaced(t, n, k),
           \A i \in DOMAIN stack[t] : stack[t][i].op # "OnDispatch",
           \A j \in 1..Len(k) : k[j].op # "OnDispatch"
    PROVE  InTurn'
<1>1. \A r : \A u \in Threads \ {t} : HasTurn(u, r)' <=> HasTurn(u, r)
  BY TurnReplaced
<1>2. ASSUME NEW i \in DOMAIN stack'[t] PROVE stack'[t][i].op # "OnDispatch"
  <2>1. DOMAIN stack'[t] = 1..Len(stack'[t]) /\ DOMAIN stack[t] = 1..Len(stack[t])
        /\ Len(stack[t]) \in Nat
    BY LenProperties DEF StackType
  <2>2. CASE i \in 1..(n - 1) /\ stack'[t][i] = stack[t][i]
    <3>1. i \in DOMAIN stack[t]
      BY <2>1, <2>2 DEF Replaced
    <3>. QED  BY <2>2, <3>1
  <2>3. CASE \E j \in 1..Len(k) : i = n - 1 + j /\ stack'[t][i] = k[j]
    BY <2>3
  <2>. QED  BY <1>2, <2>1, <2>2, <2>3, ReplacedFrames
<1>3. ASSUME NEW u \in Threads, NEW i \in DOMAIN stack'[u], stack'[u][i].op = "OnDispatch",
             NEW r, r = stack'[u][i].on
      PROVE  HasTurn(u, r)'
  <2>1. u # t
    BY <1>2, <1>3
  <2>2. stack'[u] = stack[u]
    BY <2>1 DEF Replaced
  <2>. QED  BY <1>1, <1>3, <2>1, <2>2 DEF InTurn
<1>. QED  BY <1>3 DEF InTurn

\* TryProc takes the turn when nobody has it.
LEMMA TryProcTurns ==
    ASSUME DInv, OwnMode, NEW t \in Threads, NEW s \in Sessions, TryProc(t, s)
    PROVE  TurnInv'
<1>0. StackType /\ TypeOK /\ TurnInv
  BY StackFacts DEF DInv
<1>1. /\ At(t, "TryProc", s) /\ procQ' = procQ /\ procPending'[s]
      /\ \A r \in Sessions \ {s} : procPending'[r] = procPending[r]
  BY <1>0 DEF TryProc, ioVars, TypeOK
<1>2. stack[t] # <<>> /\ stack[t][Len(stack[t])].op = "TryProc"
  BY <1>1, FrameFields DEF At, Top
<1>3. CASE procPending[s]
  <2>1. <<>> \in Turnless /\ Continue(t, <<>>)
    BY <1>3 DEF Turnless, TryProc, Return
  <2>2. StackType' /\ Replaced(t, Len(stack[t]), <<>>)
    BY <1>0, <1>2, <2>1, ContinueReplaces DEF StackType, Turnless
  <2>3. \A r \in Sessions : procPending'[r] = procPending[r] /\ procQ'[r] = procQ[r]
    BY <1>0, <1>1, <1>3 DEF TypeOK
  <2>. QED  BY <1>0, <1>2, <2>1, <2>2, <2>3, TurnlessStep DEF Turns
<1>4. CASE ~procPending[s]
  <2> DEFINE k == <<Frame("PostProcessLocked", s)>>
  <2>1. /\ k \in Seq(Frames) /\ Len(k) = 1 /\ k[1].op = "PostProcessLocked" /\ k[1].on = s
        /\ Continue(t, k)
    <3>1. /\ Frame("PostProcessLocked", s) \in Frames
          /\ Frame("PostProcessLocked", s).op = "PostProcessLocked"
          /\ Frame("PostProcessLocked", s).on = s
      BY FrameFields DEF Ops
    <3>2. Continue(t, k)
      BY <1>4, Zenon DEF TryProc
    <3>. QED  BY <3>1, <3>2
  <2>. HIDE DEF k
  <2>2. /\ StackType' /\ Replaced(t, Len(stack[t]), k)
        /\ \A r : \A u \in Threads \ {t} : HasTurn(u, r)' <=> HasTurn(u, r)
        /\ \A r : HasTurn(t, r)' <=>
              TurnBelow(t, Len(stack[t]), r) \/ \E j \in 1..Len(k) : k[j].on = r /\ k[j].op \in Turns
        /\ \A r : HasTurn(t, r) <=>
              TurnBelow(t, Len(stack[t]), r) \/ (s = r /\ "TryProc" \in Turns)
    BY <1>0, <1>1, <2>1, TurnsGoOn
  <2>3. \A r : HasTurn(t, r)' <=> HasTurn(t, r) \/ r = s
    BY <2>1, <2>2 DEF Turns
  <2>4. procQ[s] = 0 /\ \A u \in Threads : ~HasTurn(u, s)
    BY <1>0, <1>4 DEF TurnInv, OneTurn
  <2>5. OneTurn'
    BY <1>0, <1>1, <2>2, <2>3, <2>4 DEF TurnInv, OneTurn
  <2>6. InTurn'
    BY <1>0, <2>1, <2>2, <2>3, InTurnKept DEF TurnInv
  <2>. QED  BY <2>5, <2>6 DEF TurnInv
<1>. QED  BY <1>3, <1>4

\* Who gives its turn up has no other and leaves no callback behind.
LEMMA TurnEnds ==
    ASSUME StackType, Shaped, TurnInv, NEW t \in Threads, NEW s \in Sessions,
           NEW op \in Turns, At(t, op, s), Continue(t, <<>>)
    PROVE  /\ \A r \in Sessions \ {s} : \A u \in Threads : HasTurn(u, r)' <=> HasTurn(u, r)
           /\ \A u \in Threads : ~HasTurn(u, s)'
           /\ procPending[s] /\ procQ[s] = 0
           /\ InTurn'
<1>0. <<>> \in Seq(Frames) /\ Len(<<>>) = 0
  OBVIOUS
<1>1. /\ StackType' /\ Replaced(t, Len(stack[t]), <<>>)
      /\ \A r : \A u \in Threads \ {t} : HasTurn(u, r)' <=> HasTurn(u, r)
      /\ \A r : HasTurn(t, r)' <=> TurnBelow(t, Len(stack[t]), r)
  <2> DEFINE k == <<>>
  <2>1. k \in Seq(Frames) /\ 1..Len(k) = {} /\ Continue(t, k)
    BY <1>0
  <2>. HIDE DEF k
  <2>2. /\ StackType' /\ Replaced(t, Len(stack[t]), k)
        /\ \A r : \A u \in Threads \ {t} : HasTurn(u, r)' <=> HasTurn(u, r)
        /\ \A r : HasTurn(t, r)' <=>
              TurnBelow(t, Len(stack[t]), r) \/ \E j \in 1..Len(k) : k[j].on = r /\ k[j].op \in Turns
    BY <2>1, TurnsGoOn
  <2>3. \A r : HasTurn(t, r)' <=> TurnBelow(t, Len(stack[t]), r)
    BY <2>1, <2>2
  <2>. QED  BY <2>2, <2>3 DEF k
<1>2. /\ \A r : ~TurnBelow(t, Len(stack[t]), r)
      /\ \A r : HasTurn(t, r) <=> r = s
      /\ \A i \in DOMAIN stack[t] : stack[t][i].op # "OnDispatch"
  BY TopTurn
<1>3. \A u \in Threads \ {t} : ~HasTurn(u, s)
  BY <1>2 DEF TurnInv, OneTurn
<1>4. procPending[s] /\ procQ[s] = 0
  BY <1>2 DEF TurnInv, OneTurn
<1>5. InTurn'
  <2> DEFINE k == <<>>
  <2>1. k \in Seq(Frames) /\ \A j \in 1..Len(k) : k[j].op # "OnDispatch"
    BY <1>0
  <2>2. Replaced(t, Len(stack[t]), k)
    BY <1>1
  <2>. HIDE DEF k
  <2>. QED  BY <1>1, <1>2, <2>1, <2>2, NoCallback DEF TurnInv
<1>. QED  BY <1>1, <1>2, <1>3, <1>4, <1>5

\* PostProcessLocked hands its turn to the queue or gives it up.
LEMMA PostProcessLockedTurns ==
    ASSUME DInv, OwnMode, NEW t \in Threads, NEW s \in Sessions, PostProcessLocked(t, s)
    PROVE  TurnInv'
<1>0. StackType /\ Shaped /\ TypeOK /\ TurnInv
  BY StackFacts DEF DInv
<1>1. At(t, "PostProcessLocked", s) /\ Continue(t, <<>>) /\ "PostProcessLocked" \in Turns
  BY DEF PostProcessLocked, Return, Turns
<1>2. /\ \A r \in Sessions \ {s} : procPending'[r] = procPending[r] /\ procQ'[r] = procQ[r]
      /\ \/ ~procPending'[s] /\ procQ'[s] = procQ[s]
         \/ (procPending[s] => procPending'[s]) /\ procQ'[s] = procQ[s] + 1
  BY <1>0 DEF PostProcessLocked, TypeOK
<1>3. /\ \A r \in Sessions \ {s} : \A u \in Threads : HasTurn(u, r)' <=> HasTurn(u, r)
      /\ \A u \in Threads : ~HasTurn(u, s)'
      /\ procPending[s] /\ procQ[s] = 0
      /\ InTurn'
  BY <1>0, <1>1, TurnEnds
<1>4. procQ'[s] = 0 \/ (procQ'[s] = 1 /\ procPending'[s])
  BY <1>2, <1>3
<1>5. procPending'[s] => procQ'[s] = 1
  BY <1>2, <1>3
<1>6. OneTurn'
  BY <1>0, <1>2, <1>3, <1>4, <1>5 DEF TurnInv, OneTurn
<1>. QED  BY <1>3, <1>6 DEF TurnInv

\* UnlockProc gives the turn up.
LEMMA UnlockProcTurns ==
    ASSUME DInv, OwnMode, NEW t \in Threads, NEW s \in Sessions, UnlockProc(t, s)
    PROVE  TurnInv'
<1>0. StackType /\ Shaped /\ TypeOK /\ TurnInv
  BY StackFacts DEF DInv
<1>1. At(t, "UnlockProc", s) /\ Continue(t, <<>>) /\ "UnlockProc" \in Turns
  BY DEF UnlockProc, Return, Turns
<1>2. /\ \A r \in Sessions \ {s} : procPending'[r] = procPending[r]
      /\ procQ' = procQ /\ ~procPending'[s]
  BY <1>0 DEF UnlockProc, TypeOK, ioVars
<1>3. /\ \A r \in Sessions \ {s} : \A u \in Threads : HasTurn(u, r)' <=> HasTurn(u, r)
      /\ \A u \in Threads : ~HasTurn(u, s)'
      /\ procPending[s] /\ procQ[s] = 0
      /\ InTurn'
  BY <1>0, <1>1, TurnEnds
<1>4. OneTurn'
  BY <1>0, <1>2, <1>3 DEF TurnInv, OneTurn
<1>. QED  BY <1>3, <1>4 DEF TurnInv

\* The loop of ProcessCompletion goes on in its turn and with another look.
LEMMA CompletionShapes ==
    ASSUME NEW t \in Threads, NEW s \in Sessions, ProcessCompletion(t, s)
    PROVE  \E k \in Seq(Frames) :
              /\ Continue(t, k) /\ \A j \in 1..Len(k) : k[j].on = s
              /\ \E j \in 1..Len(k) : k[j].op \in Turns
              /\ \E j \in 1..Len(k) : k[j].op \in {"PostProcess", "ProcessCompletion"}
<1> DEFINE a == <<Frame("PostProcess", s), Frame("UnlockProc", s)>>
           b == <<Frame("ProcessCompletion", s), Frame("OnDispatch", s)>>
           c == <<Frame("PostProcess", s), Frame("Disconnect", s),
                  Frame("UnlockProc", s), Frame("OnDispatch", s)>>
           Good(k) == /\ k \in Seq(Frames) /\ \A j \in 1..Len(k) : k[j].on = s
                      /\ \E j \in 1..Len(k) : k[j].op \in Turns
                      /\ \E j \in 1..Len(k) : k[j].op \in {"PostProcess", "ProcessCompletion"}
<1>1. /\ \A op \in Ops : Frame(op, s) \in Frames /\ Frame(op, s).op = op /\ Frame(op, s).on = s
      /\ {"PostProcess", "UnlockProc", "ProcessCompletion", "OnDispatch", "Disconnect"} \subseteq Ops
  BY FrameFields DEF Ops, ApiCalls
<1>2. Good(a)
  <2>1. /\ a \in Seq(Frames) /\ Len(a) = 2 /\ a[1].op = "PostProcess" /\ a[2].op = "UnlockProc"
        /\ a[1].on = s /\ a[2].on = s
    BY <1>1
  <2>. HIDE DEF a
  <2>2. 1 \in 1..Len(a) /\ 2 \in 1..Len(a) /\ \A j \in 1..Len(a) : j = 1 \/ j = 2
    BY <2>1
  <2>. QED  BY <2>1, <2>2 DEF Turns
<1>3. Good(b)
  <2>1. /\ b \in Seq(Frames) /\ Len(b) = 2 /\ b[1].op = "ProcessCompletion"
        /\ b[1].on = s /\ b[2].on = s
    BY <1>1
  <2>. HIDE DEF b
  <2>2. 1 \in 1..Len(b) /\ \A j \in 1..Len(b) : j = 1 \/ j = 2
    BY <2>1
  <2>. QED  BY <2>1, <2>2 DEF Turns
<1>4. Good(c)
  <2>1. /\ c \in Seq(Frames) /\ Len(c) = 4 /\ c[1].op = "PostProcess" /\ c[3].op = "UnlockProc"
        /\ c[1].on = s /\ c[2].on = s /\ c[3].on = s /\ c[4].on = s
    BY <1>1
  <2>. HIDE DEF c
  <2>2. 1 \in 1..Len(c) /\ 3 \in 1..Len(c) /\ \A j \in 1..Len(c) : j \in {1, 2, 3, 4}
    BY <2>1
  <2>. QED  BY <2>1, <2>2 DEF Turns
<1>5. Continue(t, a) \/ Continue(t, b) \/ Continue(t, c)
  BY CompletionContinues
<1>. HIDE DEF a, b, c
<1>. QED  BY <1>2, <1>3, <1>4, <1>5

\* ProcessCompletion keeps the turn of its thread through callbacks.
LEMMA ProcessCompletionTurns ==
    ASSUME DInv, OwnMode, NEW t \in Threads, NEW s \in Sessions, ProcessCompletion(t, s)
    PROVE  TurnInv'
<1>0. StackType /\ Shaped /\ TypeOK /\ TurnInv
  BY StackFacts DEF DInv
<1>1. At(t, "ProcessCompletion", s) /\ UNCHANGED <<procPending, procQ>>
  <2>1. At(t, "ProcessCompletion", s) /\ UNCHANGED <<flagVars, ioVars>>
    BY Zenon DEF ProcessCompletion
  <2>. QED  BY <2>1 DEF flagVars, ioVars
<1>2. PICK k \in Seq(Frames) :
         /\ Continue(t, k) /\ \A j \in 1..Len(k) : k[j].on = s
         /\ \E j \in 1..Len(k) : k[j].op \in Turns
  BY CompletionShapes
<1>3. /\ StackType' /\ Replaced(t, Len(stack[t]), k)
      /\ \A r : \A u \in Threads \ {t} : HasTurn(u, r)' <=> HasTurn(u, r)
      /\ \A r : HasTurn(t, r)' <=>
            TurnBelow(t, Len(stack[t]), r) \/ \E j \in 1..Len(k) : k[j].on = r /\ k[j].op \in Turns
  BY <1>0, <1>1, <1>2, TurnsGoOn
<1>4. /\ \A r : ~TurnBelow(t, Len(stack[t]), r)
      /\ \A r : HasTurn(t, r) <=> r = s
  BY <1>0, <1>1, TopTurn DEF Turns
<1>5. \A r : HasTurn(t, r)' <=> r = s
  BY <1>2, <1>3, <1>4
<1>6. OneTurn'
  BY <1>0, <1>1, <1>3, <1>4, <1>5, TurnsKept DEF TurnInv
<1>7. InTurn'
  BY <1>0, <1>2, <1>3, <1>4, <1>5, InTurnKept DEF TurnInv
<1>. QED  BY <1>6, <1>7 DEF TurnInv

\* Every step of a handler, and of the closing thread, respects the turns.
LEMMA RunTurns ==
    ASSUME DInv, OwnMode, NEW t \in Threads, NEW s \in Sessions, Run(t, s)
    PROVE  TurnInv'
<1>0. StackType /\ TypeOK /\ TurnInv
  BY StackFacts DEF DInv
<1>1. CASE TryProc(t, s) \/ PostProcessLocked(t, s) \/ ProcessCompletion(t, s) \/ UnlockProc(t, s)
  BY <1>1, TryProcTurns, PostProcessLockedTurns, ProcessCompletionTurns, UnlockProcTurns
<1>2. CASE ~TryProc(t, s) /\ ~PostProcessLocked(t, s) /\ ~ProcessCompletion(t, s)
           /\ ~UnlockProc(t, s)
  <2>1. /\ \E op : At(t, op, s) /\ op \notin Turns
        /\ UNCHANGED <<procPending, procQ>>
        /\ \E k \in Turnless : Continue(t, k)
    BY <1>2, OtherThanTurns DEF Run
  <2>2. PICK op : At(t, op, s) /\ op \notin Turns
    BY <2>1
  <2>3. PICK k \in Turnless : Continue(t, k)
    BY <2>1
  <2>4. k \in Seq(Frames) /\ stack[t] # <<>> /\ stack[t][Len(stack[t])].op = op
    BY <2>2, <2>3, FrameFields DEF Turnless, At, Top
  <2>5. StackType' /\ Replaced(t, Len(stack[t]), k)
    BY <1>0, <2>3, <2>4, ContinueReplaces DEF StackType
  <2>. QED  BY <1>0, <2>1, <2>2, <2>4, <2>5, TurnlessStep
<1>. QED  BY <1>1, <1>2

\* A thread that begins without a turn.
LEMMA TurnlessBegin ==
    ASSUME StackType, TurnInv, NEW t \in Threads, NEW k \in Turnless, Begin(t, k),
           \A r \in Sessions : procPending'[r] = procPending[r] /\ procQ'[r] = procQ[r]
    PROVE  TurnInv'
<1>1. k \in Seq(Frames) /\ Len(stack[t]) # 1
  BY DEF Turnless, Begin, Idle
<1>2. StackType' /\ Replaced(t, 1, k)
  BY <1>1, BeginReplaces DEF StackType
<1>. QED  BY <1>1, <1>2, TurnlessStep

\* What a thread that begins k adds to the turns.
LEMMA BeginTurns ==
    ASSUME StackType, NEW t \in Threads, NEW k \in Seq(Frames), Begin(t, k)
    PROVE  /\ StackType' /\ Replaced(t, 1, k)
           /\ \A r : \A u \in Threads \ {t} : HasTurn(u, r)' <=> HasTurn(u, r)
           /\ \A r : HasTurn(t, r)' <=> \E j \in 1..Len(k) : k[j].on = r /\ k[j].op \in Turns
           /\ \A r : ~HasTurn(t, r)
<1>1. StackType' /\ Replaced(t, 1, k)
  BY BeginReplaces DEF StackType
<1>2. \A r : ~TurnBelow(t, 1, r)
  BY DEF TurnBelow
<1>3. ASSUME NEW r
      PROVE  /\ \A u \in Threads \ {t} : HasTurn(u, r)' <=> HasTurn(u, r)
             /\ HasTurn(t, r)' <=>
                   TurnBelow(t, 1, r) \/ \E j \in 1..Len(k) : k[j].on = r /\ k[j].op \in Turns
  BY <1>1, TurnReplaced
<1>4. \A r : ~HasTurn(t, r)
  BY DEF HasTurn, Begin, Idle
<1>. QED  BY <1>1, <1>2, <1>3, <1>4

\* A process thread takes the turn over from the queue.
LEMMA DequeueProcessTurns ==
    ASSUME DInv, OwnMode, NEW t \in Threads, NEW s \in Sessions, DequeueProcess(t, s)
    PROVE  TurnInv'
<1> DEFINE k == <<Frame("ReleaseRef", s), Frame("ProcessCompletion", s)>>
<1>0. StackType /\ TypeOK /\ TurnInv
  BY StackFacts DEF DInv
<1>1. /\ k \in Seq(Frames) /\ Begin(t, k) /\ Len(k) = 2
      /\ k[1].op = "ReleaseRef" /\ k[2].op = "ProcessCompletion" /\ k[2].on = s /\ k[1].on = s
  BY FrameFields DEF DequeueProcess, Ops
<1>2. /\ procPending' = procPending /\ procQ[s] > 0 /\ procQ'[s] = procQ[s] - 1
      /\ \A r \in Sessions \ {s} : procQ'[r] = procQ[r]
  BY <1>0 DEF DequeueProcess, TypeOK, flagVars
<1>. HIDE DEF k
<1>3. /\ StackType' /\ Replaced(t, 1, k)
      /\ \A r : \A u \in Threads \ {t} : HasTurn(u, r)' <=> HasTurn(u, r)
      /\ \A r : HasTurn(t, r)' <=> \E j \in 1..Len(k) : k[j].on = r /\ k[j].op \in Turns
      /\ \A r : ~HasTurn(t, r)
  BY <1>0, <1>1, BeginTurns
<1>4. \A j \in 1..Len(k) : (j = 1 \/ j = 2) /\ k[j].op # "OnDispatch"
  BY <1>1
<1>5. \A r : HasTurn(t, r)' <=> r = s
  <2>1. 2 \in 1..Len(k)
    BY <1>1
  <2>. QED  BY <1>1, <1>3, <1>4, <2>1 DEF Turns
<1>6. procQ[s] = 1 /\ procPending[s] /\ \A u \in Threads : ~HasTurn(u, s)
  BY <1>0, <1>2 DEF TurnInv, OneTurn
<1>7. OneTurn'
  BY <1>0, <1>2, <1>3, <1>5, <1>6 DEF TurnInv, OneTurn
<1>8. InTurn'
  BY <1>0, <1>1, <1>3, <1>4, <1>5, InTurnKept DEF TurnInv
<1>. QED  BY <1>7, <1>8 DEF TurnInv

\* The other beginnings take no turn.
LEMMA WorkersTurnless ==
    ASSUME DInv, OwnMode, NEW t \in Threads, NEW s \in Sessions, IoDequeue(t, s) \/ AppCall(t, s)
    PROVE  TurnInv'
<1>0. StackType /\ TypeOK /\ TurnInv
  BY StackFacts DEF DInv
<1>1. UNCHANGED <<procPending, procQ>>
  BY DEF IoDequeue, DequeueRecv, DequeueSend, DequeueFailed, AppCall, flagVars, ioVars
<1>2. CASE DequeueRecv(t, s)
  <2>1. OnRecv(s) \in Seq(Frames) /\ Begin(t, OnRecv(s))
    BY <1>2, StartShapes DEF DequeueRecv
  <2>2. \A j \in 1..Len(OnRecv(s)) : OnRecv(s)[j].op \notin {"OnDispatch"} \cup Turns
    BY OnRecvHas
  <2>3. OnRecv(s) \in Turnless
    BY <2>1, <2>2 DEF Turnless
  <2>. QED  BY <1>0, <1>1, <2>1, <2>3, TurnlessBegin
<1>3. CASE DequeueSend(t, s)
  <2> DEFINE k == <<Frame("ReleaseRef", s), Frame("CompletedSend", s)>>
  <2>0. Begin(t, k)
    BY <1>3 DEF DequeueSend
  <2>1. k \in Seq(Frames) /\ Begin(t, k) /\ Len(k) = 2
        /\ k[1].op = "ReleaseRef" /\ k[2].op = "CompletedSend"
    <3>1. "ReleaseRef" \in Ops /\ "CompletedSend" \in Ops
      BY DEF Ops
    <3>2. /\ Frame("ReleaseRef", s) \in Frames /\ Frame("ReleaseRef", s).op = "ReleaseRef"
          /\ Frame("CompletedSend", s) \in Frames /\ Frame("CompletedSend", s).op = "CompletedSend"
      BY <3>1, FrameFields
    <3>. QED  BY <2>0, <3>2
  <2>. HIDE DEF k
  <2>2. \A j \in 1..Len(k) : j = 1 \/ j = 2
    BY <2>1
  <2>3. k \in Turnless
    BY <2>1, <2>2 DEF Turnless, Turns
  <2>. QED  BY <1>0, <1>1, <2>1, <2>3, TurnlessBegin
<1>4. CASE DequeueFailed(t, s)
  <2>1. <<Frame("ReleaseRef", s), Frame("Disconnect", s)>> \in Turnless
    BY DullContinuations, UnmarkedOps, DullTurnless
  <2>. QED  BY <1>0, <1>1, <1>4, <2>1, TurnlessBegin DEF DequeueFailed
<1>5. CASE AppCall(t, s)
  <2>1. PICK call \in AppCalls : Begin(t, <<Frame(call, s)>>)
    BY <1>5 DEF AppCall
  <2>2. <<Frame(call, s)>> \in Turnless
    BY DullContinuations, UnmarkedOps, DullTurnless, NetworkAssumption
  <2>. QED  BY <1>0, <1>1, <2>1, <2>2, TurnlessBegin
<1>. QED  BY <1>2, <1>3, <1>4, <1>5 DEF IoDequeue

\* The closing thread begins without a turn.
LEMMA TakeClosingTurnless ==
    ASSUME DInv, OwnMode, NEW s \in Sessions, TakeClosing(s)
    PROVE  TurnInv'
<1> DEFINE k == <<Frame("ReleaseSession", s), Frame("Close", s), Frame("OnClose", s)>>
<1>0. StackType /\ TypeOK /\ TurnInv
  BY StackFacts DEF DInv
<1>1. UNCHANGED <<procPending, procQ>> /\ Begin(ClosingThread, k)
  BY DEF TakeClosing, flagVars, ioVars
<1>a. k \in Seq(Frames)
  BY StartShapes
<1>2. /\ k \in Seq(Frames) /\ Len(k) = 3 /\ k[1].op = "ReleaseSession" /\ k[2].op = "Close"
      /\ k[3].op = "OnClose"
  BY <1>a, FrameFields
<1>. HIDE DEF k
<1>3. \A j \in 1..Len(k) : j = 1 \/ j = 2 \/ j = 3
  BY <1>2
<1>4. k \in Turnless
  BY <1>2, <1>3 DEF Turnless, Turns
<1>. QED  BY <1>0, <1>1, <1>4, TurnlessBegin, NetworkAssumption

\* Nobody has the turn of a session that is free, and its entry of the queue is
\* gone, so the next incarnation may start with m_ProcPending free.
LEMMA FreeTurnless ==
    ASSUME HInv, NEW s \in Sessions, s \notin active
    PROVE  ~connected[s] /\ procQ[s] = 0 /\ \A u \in Threads : ~HasTurn(u, s)
<1>1. /\ refCount[s] = 0 /\ ~connected[s]
      /\ refCount[s] = Held(s) + Waiting(RefFrame(s)) /\ Held(s) \in Nat
      /\ Waiting(RefFrame(s)) \in Nat
  BY SessionFacts DEF HInv
<1>2. Held(s) = 0 /\ Waiting(RefFrame(s)) = 0
  BY <1>1
<1>3. recvIO[s] \in Nat /\ sendIO[s] \in Nat /\ procQ[s] \in Nat
  BY CountTypes DEF HInv, IInv
<1>4. recvIO[s] + sendIO[s] + procQ[s] = 0
  BY <1>1, <1>2, <1>3 DEF Held
<1>5. procQ[s] = 0
  BY <1>3, <1>4
<1>6. ~Busy(s, Guarded \cup {"ReleaseRef"})
  BY <1>2, WorkersHold
<1>7. \A u \in Threads : ~HasTurn(u, s)
  BY <1>6 DEF Busy, HasTurn, Turns, Guarded
<1>. QED  BY <1>1, <1>5, <1>7

\* A session that is allocated was free.
LEMMA AllocateTurnless ==
    ASSUME DInv, OwnMode, NEW t \in Allocators, NEW s \in Sessions, AllocateSession(t, s)
    PROVE  TurnInv'
<1> DEFINE k == <<Frame("PostRecv", s), Frame("OnAccept", s)>>
<1>0. HInv /\ IInv /\ StackType /\ TypeOK /\ TurnInv /\ t \in Threads
  BY StackFacts, NetworkAssumption DEF DInv
<1>1. s \notin active
  <2>1. /\ freeList \in Seq(Sessions) /\ freeList # <<>> /\ s = Head(freeList)
        /\ {freeList[i] : i \in DOMAIN freeList} = Sessions \ active
    BY <1>0 DEF AllocateSession, TypeOK, IInv, FreeListed
  <2>2. 1 \in DOMAIN freeList /\ freeList[1] = s
    BY <2>1, EmptySeq, LenProperties
  <2>. QED  BY <2>1, <2>2
<1>2. procQ[s] = 0 /\ \A u \in Threads : ~HasTurn(u, s)
  BY <1>0, <1>1, FreeTurnless
<1>3. /\ procQ' = procQ /\ Begin(t, k)
      /\ \A r \in Sessions \ {s} : procPending'[r] = procPending[r]
      /\ procPending'[s] => procPending[s]
  BY <1>0 DEF AllocateSession, Attach, ioVars, flagVars, TypeOK
<1>4. k \in Seq(Frames) /\ \A j \in 1..Len(k) : k[j].op \notin Turns \cup {"OnDispatch"}
  BY DullContinuations, UnmarkedOps, DullTurnless DEF Turnless
<1>. HIDE DEF k
<1>5. /\ StackType' /\ Replaced(t, 1, k)
      /\ \A r : \A u \in Threads \ {t} : HasTurn(u, r)' <=> HasTurn(u, r)
      /\ \A r : HasTurn(t, r)' <=> \E j \in 1..Len(k) : k[j].on = r /\ k[j].op \in Turns
      /\ \A r : ~HasTurn(t, r)
  BY <1>0, <1>3, <1>4, BeginTurns
<1>6. \A r : ~HasTurn(t, r)'
  BY <1>4, <1>5
<1>7. ~procPending[s]
  BY <1>0, <1>2 DEF TurnInv, OneTurn
<1>8. OneTurn'
  BY <1>0, <1>2, <1>3, <1>5, <1>6, <1>7 DEF TurnInv, OneTurn
<1>9. InTurn'
  BY <1>0, <1>4, <1>5, InTurnKept DEF TurnInv
<1>. QED  BY <1>8, <1>9 DEF TurnInv

------------------------------------------------------------------------------
(* Watching the receive buffer                                             *)

\* The statement about packets, without the literals.
LEMMA WatchParts ==
    /\ PacketsWatched <=> (OwnMode => \A s \in Sessions : connected[s] /\ packets[s] > 0 =>
                              procQ[s] > 0 \/ Busy(s, Watchers))
    /\ PacketsWatched' <=> (OwnMode => \A s \in Sessions : connected'[s] /\ packets'[s] > 0 =>
                              procQ'[s] > 0 \/ Busy(s, Watchers)')
BY DEF PacketsWatched, Watchers

\* A step that can leave packets unwatched in session s only, and does not.
LEMMA WatchKept ==
    ASSUME PacketsWatched, NEW s \in Sessions,
           OwnMode => \A r \in Sessions \ {s} :
              /\ connected'[r] /\ packets'[r] > 0 => connected[r] /\ packets[r] > 0
              /\ procQ[r] > 0 => procQ'[r] > 0
              /\ Busy(r, Watchers) => Busy(r, Watchers)',
           OwnMode /\ connected'[s] /\ packets'[s] > 0 => procQ'[s] > 0 \/ Busy(s, Watchers)'
    PROVE  PacketsWatched'
BY WatchParts

\* A step that brings no packet and takes no watcher away.
LEMMA WatchIdle ==
    ASSUME PacketsWatched,
           \A r \in Sessions :
              /\ connected'[r] /\ packets'[r] > 0 => connected[r] /\ packets[r] > 0
              /\ procQ[r] > 0 => procQ'[r] > 0
              /\ Busy(r, Watchers) => Busy(r, Watchers)'
    PROVE  PacketsWatched'
BY WatchParts

\* The handlers that neither look at the receive buffer nor fill it.
LEMMA OtherThanWatch ==
    ASSUME TypeOK, NEW t \in Threads, NEW s \in Sessions, Run(t, s),
           ~PostProcess(t, s), ~TryProc(t, s), ~PostProcessLocked(t, s),
           ~ProcessCompletion(t, s), ~CompletedRecv(t, s), ~Disconnect(t, s)
    PROVE  /\ \E op : At(t, op, s) /\ op \notin Watchers
           /\ UNCHANGED <<connected, procQ>>
           /\ \A r \in Sessions : packets'[r] > 0 => packets[r] > 0
<1>0. packets \in [Sessions -> 0..MaxPackets]
  BY DEF TypeOK
<1>1. CASE AddClosing(t, s) \/ ReleaseSession(t, s)
  BY <1>1 DEF AddClosing, ReleaseSession, Watchers, connVars, bufVars, ioVars
<1>2. CASE ReleaseRef(t, s) \/ Callback(t, s)
  <2>1. UNCHANGED <<connVars, ioVars, bufVars>>
    BY <1>2 DEF ReleaseRef, Callback
  <2>2. \E op : At(t, op, s) /\ op \notin Watchers
    BY <1>2 DEF ReleaseRef, Callback, Watchers
  <2>. QED  BY <2>1, <2>2 DEF connVars, ioVars, bufVars
<1>3. CASE Close(t, s)
  BY <1>0, <1>3 DEF Close, Watchers, connVars, ioVars
<1>4. CASE PostRecv(t, s) \/ PostRecvLocked(t, s) \/ UnlockRecv(t, s) \/ UnlockProc(t, s)
  BY <1>4 DEF PostRecv, PostRecvLocked, UnlockRecv, UnlockProc, Watchers, connVars, bufVars, ioVars
<1>5. CASE ProcessPacket(t, s)
  <2>1. /\ At(t, "ProcessPacket", s) /\ UNCHANGED <<connVars, ioVars>>
        /\ packets' = packets \/ packets' = [packets EXCEPT ![s] = @ - 1]
    BY <1>5 DEF ProcessPacket
  <2>2. \A r \in Sessions : packets'[r] > 0 => packets[r] > 0
    BY <1>0, <2>1, SessionAssumption
  <2>. QED  BY <2>1, <2>2 DEF Watchers, connVars, ioVars
<1>6. CASE \/ Send(t, s) \/ SendBuffered(t, s) \/ Flush(t, s) \/ TrySend(t, s)
           \/ SendLocked(t, s) \/ UnlockSend(t, s) \/ CompletedSend(t, s)
  BY <1>6 DEF Send, SendBuffered, Flush, TrySend, SendLocked, UnlockSend, CompletedSend,
     Watchers, connVars, bufVars, ioVars
<1>. QED  BY <1>1, <1>2, <1>3, <1>4, <1>5, <1>6 DEF Run, SessionStep

\* PostProcess goes on to try for the turn when it sees a packet.
LEMMA PostProcessWatches ==
    ASSUME DInv, NEW t \in Threads, NEW s \in Sessions, PostProcess(t, s)
    PROVE  PacketsWatched'
<1>0. StackType /\ TypeOK /\ PacketsWatched
  BY StackFacts DEF DInv
<1>1. At(t, "PostProcess", s) /\ UNCHANGED <<connected, procQ, packets>>
  BY DEF PostProcess, connVars, ioVars, bufVars
<1>2. PICK k \in Seq(Frames) : /\ Continue(t, k)
                               /\ packets[s] = 0 \/ (Len(k) = 1 /\ k[1] = Frame("TryProc", s))
  <2>a. Frame("TryProc", s) \in Frames
    BY FrameFields DEF Ops
  <2>1. <<Frame("TryProc", s)>> \in Seq(Frames) /\ <<>> \in Seq(Frames)
    BY <2>a
  <2>. QED  BY <2>1 DEF PostProcess, Return
<1>3. \A r, W : /\ Busy(r, W) /\ ~("PostProcess" \in W /\ r = s) => Busy(r, W)'
                /\ (\E j \in 1..Len(k) : k[j].on = r /\ k[j].op \in W) => Busy(r, W)'
  BY <1>0, <1>1, <1>2, GoesOn
<1>4. packets[s] = 0 \/ Busy(s, Watchers)'
  <2>1. SUFFICES ASSUME Len(k) = 1, k[1] = Frame("TryProc", s) PROVE Busy(s, Watchers)'
    BY <1>2
  <2>2. 1 \in 1..Len(k) /\ k[1].on = s /\ k[1].op = "TryProc"
    BY <2>1, FrameFields
  <2>. QED  BY <1>3, <2>2 DEF Watchers
<1>. QED  BY <1>0, <1>1, <1>3, <1>4, WatchKept

\* Who finds m_ProcPending locked may leave: the holder is going to look.
LEMMA TryProcWatches ==
    ASSUME DInv, NEW t \in Threads, NEW s \in Sessions, TryProc(t, s)
    PROVE  PacketsWatched'
<1>0. StackType /\ Shaped /\ TypeOK /\ PacketsWatched /\ (OwnMode => TurnInv)
  BY StackFacts DEF DInv
<1>1. At(t, "TryProc", s) /\ UNCHANGED <<connected, procQ, packets>>
  BY DEF TryProc, connVars, ioVars, bufVars
<1>2. PICK k \in Seq(Frames) :
         /\ Continue(t, k)
         /\ procPending[s] \/ (Len(k) = 1 /\ k[1] = Frame("PostProcessLocked", s))
  <2>1. <<Frame("PostProcessLocked", s)>> \in Seq(Frames) /\ <<>> \in Seq(Frames)
    BY FrameFields DEF Ops
  <2>. QED  BY <2>1 DEF TryProc, Return
<1>3. \A r, W : /\ Busy(r, W) /\ ~("TryProc" \in W /\ r = s) => Busy(r, W)'
                /\ (\E j \in 1..Len(k) : k[j].on = r /\ k[j].op \in W) => Busy(r, W)'
  BY <1>0, <1>1, <1>2, GoesOn
<1>4. CASE ~procPending[s]
  <2>1. 1 \in 1..Len(k) /\ k[1].on = s /\ k[1].op = "PostProcessLocked"
    BY <1>2, <1>4, FrameFields
  <2>2. Busy(s, Watchers)'
    BY <1>3, <2>1 DEF Watchers
  <2>. QED  BY <1>0, <1>1, <1>3, <2>2, WatchKept
<1>5. ASSUME procPending[s], OwnMode PROVE procQ[s] > 0 \/ Busy(s, Watchers)'
  <2>1. SUFFICES ASSUME NEW u \in Threads, HasTurn(u, s) PROVE Busy(s, Watchers)'
    BY <1>0, <1>5 DEF TurnInv, OneTurn
  <2>2. PICK i \in DOMAIN stack[u] : stack[u][i].on = s /\ stack[u][i].op \in Turns
    BY <2>1 DEF HasTurn
  <2>3. CASE stack[u][i].op = "UnlockProc"
    <3>1. DOMAIN stack[u] = 1..Len(stack[u])
      BY <1>0, LenProperties DEF StackType
    <3>2. Below(stack[u], i, "PostProcess")
      BY <1>0, <2>2, <2>3, <3>1 DEF Shaped, Shape, Looks
    <3>3. Busy(s, {"PostProcess"})'
      BY <1>0, <1>1, <1>2, <2>2, <3>2, BelowStays
    <3>. QED  BY <3>3 DEF Busy, Watchers
  <2>4. CASE stack[u][i].op \in {"PostProcessLocked", "ProcessCompletion"}
    <3>1. Busy(s, {"PostProcessLocked", "ProcessCompletion"})
      BY <2>2, <2>4 DEF Busy
    <3>2. Busy(s, {"PostProcessLocked", "ProcessCompletion"})'
      BY <1>3, <3>1
    <3>. QED  BY <3>2 DEF Busy, Watchers
  <2>. QED  BY <2>2, <2>3, <2>4 DEF Turns
<1>6. CASE procPending[s]
  BY <1>0, <1>1, <1>3, <1>5, <1>6, WatchKept
<1>. QED  BY <1>4, <1>6

\* PostProcessLocked queues a connected session.
LEMMA PostProcessLockedWatches ==
    ASSUME DInv, NEW t \in Threads, NEW s \in Sessions, PostProcessLocked(t, s)
    PROVE  PacketsWatched'
<1>0. StackType /\ TypeOK /\ PacketsWatched
  BY StackFacts DEF DInv
<1>1. /\ At(t, "PostProcessLocked", s) /\ UNCHANGED <<connected, packets>>
      /\ connected[s] => procQ'[s] > 0
      /\ \A r \in Sessions \ {s} : procQ'[r] = procQ[r]
  BY <1>0 DEF PostProcessLocked, connVars, bufVars, TypeOK
<1>2. PICK k \in Seq(Frames) : Continue(t, k)
  BY StepFits DEF SessionStep
<1>3. \A r, W : Busy(r, W) /\ ~("PostProcessLocked" \in W /\ r = s) => Busy(r, W)'
  BY <1>0, <1>1, <1>2, GoesOn
<1>. QED  BY <1>0, <1>1, <1>3, WatchKept

\* ProcessCompletion goes on with its loop or looks once more after it.
LEMMA ProcessCompletionWatches ==
    ASSUME DInv, NEW t \in Threads, NEW s \in Sessions, ProcessCompletion(t, s)
    PROVE  PacketsWatched'
<1>0. StackType /\ TypeOK /\ PacketsWatched
  BY StackFacts DEF DInv
<1>1. /\ At(t, "ProcessCompletion", s) /\ UNCHANGED <<connected, procQ>>
      /\ \A r \in Sessions \ {s} : packets'[r] = packets[r]
  <2>1. /\ At(t, "ProcessCompletion", s) /\ UNCHANGED <<connVars, ioVars>>
        /\ packets' = packets \/ packets' = [packets EXCEPT ![s] = @ - 1]
    BY Zenon DEF ProcessCompletion
  <2>2. \A r \in Sessions \ {s} : packets'[r] = packets[r]
    BY <1>0, <2>1 DEF TypeOK
  <2>. QED  BY <2>1, <2>2 DEF connVars, ioVars
<1>2. PICK k \in Seq(Frames) :
         /\ Continue(t, k) /\ \A j \in 1..Len(k) : k[j].on = s
         /\ \E j \in 1..Len(k) : k[j].op \in {"PostProcess", "ProcessCompletion"}
  BY CompletionShapes
<1>3. \A r, W : /\ Busy(r, W) /\ ~("ProcessCompletion" \in W /\ r = s) => Busy(r, W)'
                /\ (\E j \in 1..Len(k) : k[j].on = r /\ k[j].op \in W) => Busy(r, W)'
  BY <1>0, <1>1, <1>2, GoesOn
<1>4. Busy(s, Watchers)'
  BY <1>2, <1>3 DEF Watchers
<1>. QED  BY <1>0, <1>1, <1>3, <1>4, WatchKept

\* Whoever brings packets looks at the buffer afterwards.
LEMMA CompletedRecvWatches ==
    ASSUME DInv, NEW t \in Threads, NEW s \in Sessions, CompletedRecv(t, s)
    PROVE  PacketsWatched'
<1>0. StackType /\ Shaped /\ TypeOK /\ PacketsWatched
  BY StackFacts DEF DInv
<1>1. /\ At(t, "CompletedRecv", s) /\ UNCHANGED <<connected, procQ>>
      /\ \A r \in Sessions \ {s} : packets'[r] = packets[r]
  BY <1>0 DEF CompletedRecv, connVars, ioVars, TypeOK
<1>2. PICK k \in Seq(Frames) : Continue(t, k)
  BY StepFits DEF SessionStep
<1>3. \A r, W : Busy(r, W) /\ ~("CompletedRecv" \in W /\ r = s) => Busy(r, W)'
  BY <1>0, <1>1, <1>2, GoesOn
<1>4. ASSUME OwnMode PROVE Busy(s, Watchers)'
  <2> DEFINE i == Len(stack[t])
  <2>1. i \in 1..Len(stack[t]) /\ DOMAIN stack[t] = 1..Len(stack[t])
    BY <1>0, <1>1, LenProperties, EmptySeq DEF StackType, At
  <2>2. stack[t][i].op = "CompletedRecv" /\ stack[t][i].on = s
    BY <1>1, FrameFields DEF At, Top
  <2>. HIDE DEF i
  <2>3. Below(stack[t], i, "PostProcess")
    BY <1>0, <1>4, <2>1, <2>2 DEF Shaped, Shape, Looks
  <2>4. Busy(s, {"PostProcess"})'
    BY <1>0, <1>1, <1>2, <2>1, <2>2, <2>3, BelowStays
  <2>. QED  BY <2>4 DEF Busy, Watchers
<1>. QED  BY <1>0, <1>1, <1>3, <1>4, WatchKept DEF Watchers

\* Nobody needs to look at the buffer of a session that is disconnected.
LEMMA DisconnectWatches ==
    ASSUME DInv, NEW t \in Threads, NEW s \in Sessions, Disconnect(t, s)
    PROVE  PacketsWatched'
<1>0. StackType /\ TypeOK /\ PacketsWatched
  BY StackFacts DEF DInv
<1>1. /\ At(t, "Disconnect", s) /\ ~connected'[s] /\ UNCHANGED <<procQ, packets>>
      /\ \A r \in Sessions : connected'[r] => connected[r]
  BY <1>0 DEF Disconnect, connVars, bufVars, ioVars, TypeOK
<1>2. PICK k \in Seq(Frames) : Continue(t, k)
  BY StepFits DEF SessionStep
<1>3. \A r, W : Busy(r, W) /\ ~("Disconnect" \in W /\ r = s) => Busy(r, W)'
  BY <1>0, <1>1, <1>2, GoesOn
<1>. QED  BY <1>0, <1>1, <1>3, WatchKept

\* No handler leaves a packet unwatched.
LEMMA RunWatches ==
    ASSUME DInv, NEW t \in Threads, NEW s \in Sessions, Run(t, s)
    PROVE  PacketsWatched'
<1>0. StackType /\ TypeOK /\ PacketsWatched
  BY StackFacts DEF DInv
<1>1. CASE \/ PostProcess(t, s) \/ TryProc(t, s) \/ PostProcessLocked(t, s)
           \/ ProcessCompletion(t, s) \/ CompletedRecv(t, s) \/ Disconnect(t, s)
  BY <1>1, PostProcessWatches, TryProcWatches, PostProcessLockedWatches,
     ProcessCompletionWatches, CompletedRecvWatches, DisconnectWatches
<1>2. CASE /\ ~PostProcess(t, s) /\ ~TryProc(t, s) /\ ~PostProcessLocked(t, s)
           /\ ~ProcessCompletion(t, s) /\ ~CompletedRecv(t, s) /\ ~Disconnect(t, s)
  <2>1. /\ \E op : At(t, op, s) /\ op \notin Watchers
        /\ UNCHANGED <<connected, procQ>>
        /\ \A r \in Sessions : packets'[r] > 0 => packets[r] > 0
    BY <1>0, <1>2, OtherThanWatch
  <2>2. PICK op : At(t, op, s) /\ op \notin Watchers
    BY <2>1
  <2>3. PICK k \in Seq(Frames) : Continue(t, k)
    BY StepFits DEF Run
  <2>4. \A r, W : Busy(r, W) /\ ~(op \in W /\ r = s) => Busy(r, W)'
    BY <1>0, <2>2, <2>3, GoesOn
  <2>5. \A r \in Sessions : /\ connected'[r] /\ packets'[r] > 0 => connected[r] /\ packets[r] > 0
                            /\ procQ[r] > 0 => procQ'[r] > 0
                            /\ Busy(r, Watchers) => Busy(r, Watchers)'
    BY <2>1, <2>2, <2>4
  <2>. QED  BY <1>0, <2>5, WatchIdle
<1>. QED  BY <1>1, <1>2

\* A process thread that takes an entry of the queue is going to dispatch;
\* the other threads that begin take nothing away.
LEMMA WorkersWatch ==
    ASSUME DInv, NEW t \in Threads, NEW s \in Sessions,
           IoDequeue(t, s) \/ DequeueProcess(t, s) \/ AppCall(t, s)
    PROVE  PacketsWatched'
<1>0. StackType /\ TypeOK /\ PacketsWatched
  BY StackFacts DEF DInv
<1>1. UNCHANGED <<connected, packets>> /\ \A r \in Sessions \ {s} : procQ'[r] = procQ[r]
  BY <1>0 DEF IoDequeue, DequeueRecv, DequeueSend, DequeueFailed, DequeueProcess, AppCall,
     connVars, ioVars, bufVars, TypeOK
<1>2. PICK k \in Seq(Frames) :
         /\ Begin(t, k)
         /\ procQ'[s] = procQ[s] \/ (\E j \in 1..Len(k) : k[j].on = s /\ k[j].op \in Watchers)
  <2>1. CASE DequeueProcess(t, s)
    <3> DEFINE k == <<Frame("ReleaseRef", s), Frame("ProcessCompletion", s)>>
    <3>1. k \in Seq(Frames)
      BY StartShapes
    <3>2. Len(k) = 2 /\ k[2].on = s /\ k[2].op = "ProcessCompletion"
      BY FrameFields
    <3>3. Begin(t, k)
      BY <2>1 DEF DequeueProcess
    <3>. HIDE DEF k
    <3>4. 2 \in 1..Len(k)
      BY <3>2
    <3>. QED  BY <3>1, <3>2, <3>3, <3>4 DEF Watchers
  <2>2. CASE DequeueRecv(t, s)
    BY <2>2, StartShapes DEF DequeueRecv
  <2>3. CASE DequeueSend(t, s)
    BY <2>3, StartShapes DEF DequeueSend
  <2>4. CASE DequeueFailed(t, s)
    <3>1. <<Frame("ReleaseRef", s), Frame("Disconnect", s)>> \in Seq(Frames)
      BY DullContinuations, UnmarkedOps DEF Dull
    <3>. QED  BY <2>4, <3>1 DEF DequeueFailed
  <2>5. CASE AppCall(t, s)
    <3>1. PICK call \in AppCalls : Begin(t, <<Frame(call, s)>>)
      BY <2>5 DEF AppCall
    <3>2. <<Frame(call, s)>> \in Seq(Frames)
      BY DullContinuations, UnmarkedOps, NetworkAssumption DEF Dull
    <3>. QED  BY <2>5, <3>1, <3>2 DEF AppCall, ioVars
  <2>. QED  BY <2>1, <2>2, <2>3, <2>4, <2>5 DEF IoDequeue
<1>3. \A r, W : /\ Busy(r, W) => Busy(r, W)'
                /\ (\E j \in 1..Len(k) : k[j].on = r /\ k[j].op \in W) => Busy(r, W)'
  BY <1>0, <1>2, Begins
<1>4. procQ'[s] = procQ[s] \/ Busy(s, Watchers)'
  BY <1>2, <1>3
<1>5. OwnMode /\ connected[s] /\ packets[s] > 0 => procQ[s] > 0 \/ Busy(s, Watchers)
  BY <1>0, WatchParts
<1>. QED  BY <1>0, <1>1, <1>3, <1>4, <1>5, WatchKept

\* A new connection has received nothing yet.
LEMMA AllocateWatches ==
    ASSUME DInv, NEW t \in Allocators, NEW s \in Sessions, AllocateSession(t, s)
    PROVE  PacketsWatched'
<1>0. HInv /\ IInv /\ StackType /\ TypeOK /\ PacketsWatched /\ t \in Threads
  BY StackFacts, NetworkAssumption DEF DInv
<1>1. ~connected[s]
  <2>1. /\ freeList \in Seq(Sessions) /\ freeList # <<>> /\ s = Head(freeList)
        /\ {freeList[i] : i \in DOMAIN freeList} = Sessions \ active
    BY <1>0 DEF AllocateSession, TypeOK, IInv, FreeListed
  <2>2. 1 \in DOMAIN freeList /\ freeList[1] = s
    BY <2>1, EmptySeq, LenProperties
  <2>3. s \notin active
    BY <2>1, <2>2
  <2>. QED  BY <1>0, <2>3, FreeTurnless
<1>2. PICK k \in Seq(Frames) : Begin(t, k)
  BY DullContinuations, UnmarkedOps DEF AllocateSession, Dull
<1>3. \A r, W : Busy(r, W) => Busy(r, W)'
  BY <1>0, <1>2, Begins
<1>4. /\ procQ' = procQ
      /\ \A r \in Sessions \ {s} : connected'[r] = connected[r] /\ packets'[r] = packets[r]
      /\ connected'[s] => packets'[s] = 0
  BY <1>0, <1>1 DEF AllocateSession, Attach, ioVars, bufVars, TypeOK
<1>. QED  BY <1>0, <1>3, <1>4, WatchKept

\* The closing thread takes a session: nothing is received or looked at.
LEMMA TakeClosingWatches ==
    ASSUME DInv, NEW s \in Sessions, TakeClosing(s)
    PROVE  PacketsWatched' /\ RecvInv' /\ RecvArmed'
<1>0. StackType /\ PacketsWatched /\ RecvInv /\ RecvArmed
  BY StackFacts DEF DInv
<1>1. UNCHANGED <<connected, recvPending, recvIO, procQ, packets>>
  BY DEF TakeClosing, connVars, flagVars, ioVars, bufVars
<1>2. PICK k \in Seq(Frames) : Begin(ClosingThread, k)
  BY StartShapes DEF TakeClosing
<1>3. \A r, W : Busy(r, W) => Busy(r, W)'
  BY <1>0, <1>2, Begins, NetworkAssumption
<1>4. PacketsWatched'
  BY <1>0, <1>1, <1>3, WatchIdle
<1>5. RecvInv' /\ RecvArmed'
  BY <1>0, <1>1, <1>3, RecvKept
<1>. QED  BY <1>4, <1>5

------------------------------------------------------------------------------
(* The theorems                                                            *)

\* Initially nobody is connected and nobody has a turn.
LEMMA InitDInv == Init => DInv
<1> SUFFICES ASSUME Init PROVE DInv
  OBVIOUS
<1>1. HInv
  BY InitHInv
<1>2. /\ \A s \in Sessions : ~connected[s] /\ ~procPending[s] /\ procQ[s] = 0
      /\ \A t \in Threads : stack[t] = <<>>
  BY DEF Init, SessionInit
<1>3. \A t \in Threads : \A s : ~HasTurn(t, s)
  BY <1>2 DEF HasTurn
<1>4. OneTurn
  BY <1>2, <1>3 DEF OneTurn
<1>5. InTurn
  BY <1>2 DEF InTurn
<1>6. PacketsWatched /\ RecvInv /\ RecvArmed
  BY <1>2 DEF PacketsWatched, RecvInv, RecvArmed
<1>. QED  BY <1>1, <1>4, <1>5, <1>6 DEF DInv, TurnInv

\* Every step of every thread keeps the invariant.
LEMMA NextDInv == DInv /\ [Next]_vars => DInv'
<1> SUFFICES ASSUME DInv, [Next]_vars PROVE DInv'
  OBVIOUS
<1>1. HInv'
  BY NextHInv DEF DInv
<1> DEFINE Rest == (OwnMode => TurnInv) /\ PacketsWatched /\ RecvInv /\ RecvArmed
<1>2. ASSUME UNCHANGED sessionVars PROVE Rest'
  <2>1. UNCHANGED <<stack, connected, recvPending, procPending, recvIO, procQ, packets>>
    BY <1>2 DEF sessionVars, connVars, flagVars, ioVars, bufVars
  <2>2. \A r, W : Busy(r, W)' <=> Busy(r, W)
    BY <2>1 DEF Busy
  <2>3. \A t, r : HasTurn(t, r)' <=> HasTurn(t, r)
    BY <2>1 DEF HasTurn
  <2>4. (OwnMode => TurnInv)'
    BY <2>1, <2>3 DEF DInv, TurnInv, OneTurn, InTurn
  <2>5. PacketsWatched'
    BY <2>1, <2>2, WatchIdle DEF DInv
  <2>6. RecvInv' /\ RecvArmed'
    BY <2>1, <2>2, RecvKept DEF DInv
  <2>. QED  BY <2>4, <2>5, <2>6
<1>3. ASSUME NEW s \in Sessions, NEW t \in Threads, Run(t, s) PROVE Rest'
  BY <1>3, RunTurns, RunWatches, RunArms
<1>4. ASSUME NEW s \in Sessions, NEW t \in Allocators, AllocateSession(t, s) PROVE Rest'
  BY <1>4, AllocateTurnless, AllocateWatches, AllocateArms
<1>5. ASSUME NEW s \in Sessions, NEW t \in Threads,
             IoDequeue(t, s) \/ DequeueProcess(t, s) \/ AppCall(t, s)
      PROVE  Rest'
  BY <1>5, WorkersTurnless, DequeueProcessTurns, WorkersWatch, WorkersArm
<1>6. ASSUME NEW s \in Sessions, TakeClosing(s) PROVE Rest'
  BY <1>6, TakeClosingTurnless, TakeClosingWatches
<1>7. ASSUME NEW s \in Sessions, (\E t \in Allocators : Associate(t, s)) \/ CompleteUnqueued(s)
      PROVE  UNCHANGED sessionVars
  BY <1>7, PortSteps
<1>. HIDE DEF Rest
<1>8. Rest'
  BY <1>2, <1>3, <1>4, <1>5, <1>6, <1>7, NetworkAssumption DEF Next, vars
<1>. QED  BY <1>1, <1>8 DEF DInv, Rest

\* Turns, watchers and receivers are as described in every reachable state.
THEOREM DispatchInvariance == Spec => []DInv
BY InitDInv, NextDInv, PTL DEF Spec

\* In a state of the invariant one thread or queue entry dispatches a session.
LEMMA TurnsAreSerial ==
    ASSUME DInv
    PROVE  SerialDispatch
<1> SUFFICES ASSUME OwnMode, NEW s \in Sessions
             PROVE  procQ[s] + Cardinality({t \in Threads :
                        \E i \in DOMAIN stack[t] : stack[t][i] \in
                            {Frame("ProcessCompletion", s), Frame("OnDispatch", s)}}) <= 1
  BY DEF SerialDispatch
<1> DEFINE D == {t \in Threads : \E i \in DOMAIN stack[t] : stack[t][i] \in
                    {Frame("ProcessCompletion", s), Frame("OnDispatch", s)}}
<1>1. OneTurn /\ InTurn
  BY DEF DInv, TurnInv
<1>2. \A t \in D : t \in Threads /\ HasTurn(t, s)
  <2>1. SUFFICES ASSUME NEW t \in Threads, NEW i \in DOMAIN stack[t],
                        stack[t][i] \in {Frame("ProcessCompletion", s), Frame("OnDispatch", s)}
                 PROVE  HasTurn(t, s)
    OBVIOUS
  <2>2. stack[t][i].on = s /\ stack[t][i].op \in {"ProcessCompletion", "OnDispatch"}
    BY <2>1, FrameFields
  <2>3. CASE stack[t][i].op = "OnDispatch"
    BY <1>1, <2>2, <2>3 DEF InTurn
  <2>4. CASE stack[t][i].op = "ProcessCompletion"
    BY <2>2, <2>4 DEF HasTurn, Turns
  <2>. QED  BY <2>2, <2>3, <2>4
<1>. HIDE DEF D
<1>3. procQ[s] = 0 \/ procQ[s] = 1
  BY <1>1 DEF OneTurn
<1>4. CASE D = {}
  <2>1. Cardinality(D) = 0
    BY <1>4, FS_EmptySet
  <2>. QED  BY <1>3, <2>1 DEF D
<1>5. CASE D # {}
  <2>1. PICK t : t \in D
    BY <1>5
  <2>2. D = {t} /\ procQ[s] = 0
    BY <1>1, <1>2, <2>1 DEF OneTurn
  <2>3. Cardinality(D) = 1
    BY <2>2, FS_Singleton
  <2>. QED  BY <2>2, <2>3 DEF D
<1>. QED  BY <1>4, <1>5

\* In PROCESS_MODE_OWN at most one queued entry or process thread has a session
\* to dispatch, callbacks included, for any number of threads and sessions.
THEOREM DispatchIsSerial == Spec => []SerialDispatch
BY DispatchInvariance, TurnsAreSerial, PTL

\* No complete packet of a connected session is forgotten: whoever finds
\* m_ProcPending locked leaves it to a holder that looks again after unlocking.
THEOREM PacketsAreWatched == Spec => []PacketsWatched
<1>1. DInv => PacketsWatched
  BY DEF DInv
<1>. QED  BY <1>1, DispatchInvariance, PTL

\* No connected session is deaf: whoever finds m_RecvPending locked leaves it
\* to a posted receive, or to a thread that posts the next one or disconnects.
THEOREM ReceivesAreArmed == Spec => []RecvArmed
<1>1. DInv => RecvArmed
  BY DEF DInv
<1>. QED  BY <1>1, DispatchInvariance, PTL

------------------------------------------------------------------------------
(***************************************************************************)
(* No bytes that a PostSend put into the buffer of a connected session are *)
(* forgotten, for applications that only use PostSend(Data, Len).          *)
(* PostSendBuffered leaves the flush to the application.                   *)
(***************************************************************************)

(* The inductive invariant                                                 *)

\* A thread is between a locked m_SendPending and the flush that follows the unlock.
FlushFollows(s) ==
    \E t \in Threads : \E i \in DOMAIN stack[t] :
        stack[t][i] = Frame("UnlockSend", s) /\ Below(stack[t], i, "Flush")

\* Who is going to end the send for which m_SendPending is locked, and who is
\* going to look at the send buffer.
Senders == {"SendLocked", "CompletedSend", "Disconnect"}
Flushers == {"Flush", "TrySend", "SendLocked", "CompletedSend", "Disconnect"}

SendInv == \A s \in Sessions : connected[s] /\ sendPending[s] =>
               sendIO[s] > 0 \/ Busy(s, Senders) \/ FlushFollows(s)

\* Nobody is going to put bytes into a buffer without a flush.
Unbuffered == {k \in Seq(Frames) : \A j \in 1..Len(k) : k[j].op # "SendBuffered"}
NoneBuffered == \A t \in Threads : stack[t] \in Unbuffered

SInv == HInv /\ NoneBuffered /\ SendInv /\ SendWatched

\* The calls of the application.
PlainSends == "SendBuffered" \notin AppCalls \cup CallbackCalls

------------------------------------------------------------------------------
(* Nobody buffers                                                          *)

\* Short continuations without PostSendBuffered.
LEMMA UnbufferedContinuations ==
    ASSUME NEW s \in Sessions
    PROVE  /\ <<>> \in Unbuffered
           /\ \A a \in Ops \ {"SendBuffered"} : <<Frame(a, s)>> \in Unbuffered
           /\ \A a, b \in Ops \ {"SendBuffered"} : <<Frame(a, s), Frame(b, s)>> \in Unbuffered
           /\ \A a, b, c \in Ops \ {"SendBuffered"} :
                 <<Frame(a, s), Frame(b, s), Frame(c, s)>> \in Unbuffered
           /\ \A a, b, c, d \in Ops \ {"SendBuffered"} :
                 <<Frame(a, s), Frame(b, s), Frame(c, s), Frame(d, s)>> \in Unbuffered
<1>1. \A a \in Ops \ {"SendBuffered"} : Frame(a, s) \in Frames /\ Frame(a, s).op # "SendBuffered"
  BY FrameFields
<1>2. ASSUME NEW x \in Frames, NEW y \in Frames, NEW z \in Frames, NEW w \in Frames,
             x.op # "SendBuffered", y.op # "SendBuffered", z.op # "SendBuffered",
             w.op # "SendBuffered"
      PROVE  /\ <<x>> \in Unbuffered /\ <<x, y>> \in Unbuffered
             /\ <<x, y, z>> \in Unbuffered /\ <<x, y, z, w>> \in Unbuffered
  BY <1>2 DEF Unbuffered
<1>3. <<>> \in Unbuffered
  BY DEF Unbuffered
<1>. QED  BY <1>1, <1>2, <1>3

\* The handlers of the library.
LEMMA LibraryOps ==
    {"OnAccept", "OnDispatch", "OnClose", "Close", "ReleaseSession",
     "PostRecv", "PostRecvLocked", "UnlockRecv", "CompletedRecv",
     "PostProcess", "TryProc", "PostProcessLocked", "ProcessCompletion", "UnlockProc",
     "TrySend", "SendLocked", "UnlockSend", "CompletedSend", "ReleaseRef", "AddClosing",
     "Send", "Flush", "Disconnect", "ProcessPacket"} = Ops \ {"SendBuffered"}
BY DEF Ops, ApiCalls

\* No handler calls PostSendBuffered unless the application does.
LEMMA StepUnbuffered ==
    ASSUME PlainSends, NEW t \in Threads, NEW s \in Sessions, Run(t, s)
    PROVE  \E k \in Unbuffered : stack[t] # <<>> /\ Continue(t, k)
<1>1. CASE Disconnect(t, s)
  BY <1>1, UnbufferedContinuations, LibraryOps DEF Disconnect, At, Return
<1>2. CASE Close(t, s) \/ AddClosing(t, s) \/ ReleaseSession(t, s)
  BY <1>2, UnbufferedContinuations DEF Close, AddClosing, ReleaseSession, At, Return
<1>3. CASE Callback(t, s)
  <2>1. \A call \in CallbackCalls : call \in Ops \ {"SendBuffered"}
    BY SessionAssumption DEF PlainSends, Ops
  <2>2. /\ stack[t] # <<>>
        /\ Return(t) \/ \E call \in CallbackCalls : Continue(t, <<Frame(call, s)>>)
    BY <1>3 DEF Callback, At
  <2>. QED  BY <2>1, <2>2, UnbufferedContinuations DEF Return
<1>4. CASE ReleaseRef(t, s)
  BY <1>4, UnbufferedContinuations, LibraryOps DEF ReleaseRef, At
<1>5. CASE PostRecv(t, s)
  BY <1>5, UnbufferedContinuations, LibraryOps DEF PostRecv, At, Return
<1>6. CASE PostRecvLocked(t, s)
  BY <1>6, UnbufferedContinuations, LibraryOps DEF PostRecvLocked, At, Return, GiveUp
<1>7. CASE UnlockRecv(t, s) \/ UnlockProc(t, s) \/ UnlockSend(t, s) \/ SendBuffered(t, s)
  BY <1>7, UnbufferedContinuations DEF UnlockRecv, UnlockProc, UnlockSend, SendBuffered, At, Return
<1>8. CASE CompletedRecv(t, s)
  BY <1>8, UnbufferedContinuations, LibraryOps DEF CompletedRecv, At, Return
<1>9. CASE PostProcess(t, s)
  BY <1>9, UnbufferedContinuations, LibraryOps DEF PostProcess, At, Return
<1>10. CASE TryProc(t, s)
  BY <1>10, UnbufferedContinuations, LibraryOps DEF TryProc, At, Return
<1>11. CASE PostProcessLocked(t, s)
  BY <1>11, UnbufferedContinuations, LibraryOps DEF PostProcessLocked, At, Return
<1>12. CASE ProcessCompletion(t, s)
  <2>1. stack[t] # <<>>
    BY <1>12, Zenon DEF ProcessCompletion, At
  <2>. QED  BY <1>12, <2>1, CompletionContinues, UnbufferedContinuations, LibraryOps
<1>13. CASE ProcessPacket(t, s)
  <2>1. /\ stack[t] # <<>>
        /\ \/ Continue(t, <<>>)
           \/ \E op \in {"ProcessPacket", "Disconnect"} :
                 Continue(t, <<Frame(op, s), Frame("OnDispatch", s)>>)
    BY <1>13 DEF ProcessPacket, Return, At
  <2>. QED  BY <2>1, UnbufferedContinuations, LibraryOps
<1>14. CASE Send(t, s) \/ Flush(t, s) \/ TrySend(t, s)
  BY <1>14, UnbufferedContinuations, LibraryOps DEF Send, Flush, TrySend, At, Return
<1>15. CASE SendLocked(t, s)
  BY <1>15, UnbufferedContinuations, LibraryOps DEF SendLocked, At, Return, GiveUp
<1>16. CASE CompletedSend(t, s)
  BY <1>16, UnbufferedContinuations, LibraryOps DEF CompletedSend, At, Return, AfterSend
<1>. QED  BY <1>1, <1>2, <1>3, <1>4, <1>5, <1>6, <1>7, <1>8, <1>9, <1>10, <1>11, <1>12,
             <1>13, <1>14, <1>15, <1>16 DEF Run, SessionStep

\* A replaced stack has its old frames and the new ones.
LEMMA UnbufferedReplaced ==
    ASSUME StackType, StackType', NoneBuffered, NEW t \in Threads, NEW k \in Unbuffered,
           NEW n, Replaced(t, n, k)
    PROVE  NoneBuffered'
<1>1. k \in Seq(Frames) /\ \A j \in 1..Len(k) : k[j].op # "SendBuffered"
  BY DEF Unbuffered
<1>2. /\ n \in Nat /\ n > 0 /\ Len(k) \in Nat /\ Len(stack[t]) \in Nat
      /\ Len(stack'[t]) = n - 1 + Len(k)
      /\ Len(stack[t]) = n - 1 \/ Len(stack[t]) = n
      /\ \A i \in 1..(n - 1) : stack'[t][i] = stack[t][i]
      /\ \A i \in 1..Len(k) : stack'[t][n - 1 + i] = k[i]
      /\ \A u \in Threads \ {t} : stack'[u] = stack[u]
  BY <1>1, LenProperties DEF StackType, Replaced
<1>3. \A i \in 1..Len(stack[t]) : stack[t][i].op # "SendBuffered"
  BY DEF NoneBuffered, Unbuffered
<1>4. ASSUME NEW i \in 1..Len(stack'[t]) PROVE stack'[t][i].op # "SendBuffered"
  <2>1. CASE i \in 1..(n - 1)
    <3>1. i \in 1..Len(stack[t]) /\ stack'[t][i] = stack[t][i]
      BY <1>2, <2>1
    <3>. QED  BY <1>3, <3>1
  <2>2. CASE i \notin 1..(n - 1)
    <3> DEFINE j == i - (n - 1)
    <3>1. j \in 1..Len(k) /\ n - 1 + j = i
      BY <1>2, <2>2
    <3>. HIDE DEF j
    <3>2. stack'[t][i] = k[j]
      BY <1>2, <3>1
    <3>. QED  BY <1>1, <3>1, <3>2
  <2>. QED  BY <2>1, <2>2
<1>5. stack'[t] \in Unbuffered
  BY <1>4 DEF StackType, Unbuffered
<1>. QED  BY <1>2, <1>5 DEF NoneBuffered

------------------------------------------------------------------------------
(* The flush that follows                                                  *)

\* A replaced stack keeps its flushes, unless it was its unlock that was replaced.
LEMMA FlushReplaced ==
    ASSUME StackType, StackType', NEW t \in Threads, NEW k \in Seq(Frames), NEW n,
           Replaced(t, n, k), NEW r, FlushFollows(r),
           ~(Len(stack[t]) = n /\ stack[t][n] = Frame("UnlockSend", r))
    PROVE  FlushFollows(r)'
<1>1. PICK u \in Threads : \E i \in DOMAIN stack[u] :
         stack[u][i] = Frame("UnlockSend", r) /\ Below(stack[u], i, "Flush")
  BY DEF FlushFollows
<1>2. PICK i \in DOMAIN stack[u] :
         stack[u][i] = Frame("UnlockSend", r) /\ Below(stack[u], i, "Flush")
  BY <1>1
<1>3. PICK j \in 1..(i - 1) : stack[u][j] = Frame("Flush", stack[u][i].on)
  BY <1>2 DEF Below
<1>4. /\ DOMAIN stack[u] = 1..Len(stack[u]) /\ Len(stack[u]) \in Nat
      /\ DOMAIN stack'[u] = 1..Len(stack'[u]) /\ Len(k) \in Nat
  BY LenProperties DEF StackType
<1>5. i \in DOMAIN stack'[u] /\ stack'[u][i] = stack[u][i] /\ stack'[u][j] = stack[u][j]
  <2>1. CASE u # t
    BY <1>2, <2>1 DEF Replaced
  <2>2. CASE u = t
    <3>1. i \in 1..(n - 1) /\ j \in 1..(n - 1) /\ i \in 1..(n - 1 + Len(k))
      BY <1>2, <1>3, <1>4, <2>2 DEF Replaced
    <3>. QED  BY <1>4, <2>2, <3>1 DEF Replaced
  <2>. QED  BY <2>1, <2>2
<1>6. Below(stack'[u], i, "Flush")
  BY <1>3, <1>5 DEF Below
<1>. QED  BY <1>2, <1>5, <1>6 DEF FlushFollows

\* A thread that goes on from another handler than this unlock.
LEMMA FlushGoesOn ==
    ASSUME StackType, NEW t \in Threads, NEW op, NEW s, At(t, op, s),
           NEW k \in Seq(Frames), Continue(t, k)
    PROVE  \A r : FlushFollows(r) /\ ~(op = "UnlockSend" /\ r = s) => FlushFollows(r)'
<1>1. stack[t] # <<>> /\ stack[t][Len(stack[t])] = Frame(op, s)
  BY DEF At, Top
<1>2. StackType' /\ Replaced(t, Len(stack[t]), k)
  BY <1>1, ContinueReplaces DEF StackType
<1>3. \A r : Frame(op, s) = Frame("UnlockSend", r) => op = "UnlockSend" /\ r = s
  BY FrameFields
<1>. QED  BY <1>1, <1>2, <1>3, FlushReplaced

\* A thread that begins.
LEMMA FlushBegins ==
    ASSUME StackType, NEW t \in Threads, NEW k \in Seq(Frames), Begin(t, k)
    PROVE  \A r : FlushFollows(r) => FlushFollows(r)'
<1>1. StackType' /\ Replaced(t, 1, k)
  BY BeginReplaces DEF StackType
<1>2. Len(stack[t]) # 1
  BY DEF Begin, Idle
<1>. QED  BY <1>1, <1>2, FlushReplaced

------------------------------------------------------------------------------
(* Sending                                                                 *)

\* The statement about bytes, without the literals.
LEMMA SendParts ==
    /\ SendWatched <=> \A s \in Sessions : connected[s] /\ sendData[s] =>
                          sendIO[s] > 0 \/ Busy(s, Flushers)
    /\ SendWatched' <=> \A s \in Sessions : connected'[s] /\ sendData'[s] =>
                          sendIO'[s] > 0 \/ Busy(s, Flushers)'
    /\ SendInv' <=> \A s \in Sessions : connected'[s] /\ sendPending'[s] =>
                       sendIO'[s] > 0 \/ Busy(s, Senders)' \/ FlushFollows(s)'
BY DEF SendWatched, SendAttended, SendInv, Flushers

\* A step that can leave bytes or the lock unattended in session s only, and does not.
LEMMA SendKept ==
    ASSUME SendInv, SendWatched, NEW s \in Sessions,
           \A r \in Sessions \ {s} :
              /\ connected'[r] => connected[r]
              /\ sendPending'[r] => sendPending[r]
              /\ sendData'[r] => sendData[r]
              /\ sendIO'[r] = sendIO[r]
              /\ Busy(r, Senders) => Busy(r, Senders)'
              /\ Busy(r, Flushers) => Busy(r, Flushers)'
              /\ FlushFollows(r) => FlushFollows(r)',
           connected'[s] /\ sendPending'[s] =>
              sendIO'[s] > 0 \/ Busy(s, Senders)' \/ FlushFollows(s)',
           connected'[s] /\ sendData'[s] => sendIO'[s] > 0 \/ Busy(s, Flushers)'
    PROVE  SendInv' /\ SendWatched'
BY SendParts DEF SendInv

\* What a thread that goes on from handler op of session s leaves to the others.
LEMMA OthersAttend ==
    ASSUME StackType, NEW t \in Threads, NEW op, NEW s, At(t, op, s),
           NEW k \in Seq(Frames), Continue(t, k)
    PROVE  \A r \in Sessions \ {s} :
              /\ Busy(r, Senders) => Busy(r, Senders)'
              /\ Busy(r, Flushers) => Busy(r, Flushers)'
              /\ FlushFollows(r) => FlushFollows(r)'
<1>1. \A r, W : Busy(r, W) /\ ~(op \in W /\ r = s) => Busy(r, W)'
  BY GoesOn
<1>2. \A r : FlushFollows(r) /\ ~(op = "UnlockSend" /\ r = s) => FlushFollows(r)'
  BY FlushGoesOn
<1>. QED  BY <1>1, <1>2

\* Whoever ends the send will look at the buffer, too.
LEMMA SendersFlush ==
    /\ \A r : Busy(r, Senders) => Busy(r, Flushers)
    /\ \A r : Busy(r, Senders)' => Busy(r, Flushers)'
BY DEF Busy, Senders, Flushers

\* PostSend puts its bytes and goes on to flush them.
LEMMA SendWatches ==
    ASSUME SInv, NEW t \in Threads, NEW s \in Sessions, Send(t, s)
    PROVE  SendInv' /\ SendWatched'
<1>0. StackType /\ TypeOK /\ SendInv /\ SendWatched
  BY StackFacts DEF SInv
<1>1. /\ At(t, "Send", s) /\ UNCHANGED <<connected, sendPending, sendIO>>
      /\ \A r \in Sessions \ {s} : sendData'[r] = sendData[r]
  BY <1>0 DEF Send, connVars, flagVars, ioVars, TypeOK
<1>2. PICK k \in Seq(Frames) :
         /\ Continue(t, k)
         /\ sendData'[s] = sendData[s] \/ (Len(k) = 1 /\ k[1] = Frame("Flush", s))
  <2>1. <<Frame("Flush", s)>> \in Seq(Frames) /\ <<>> \in Seq(Frames)
    BY DullContinuations, UnmarkedOps DEF Dull
  <2>. QED  BY <2>1 DEF Send, Return
<1>3. \A r, W : /\ Busy(r, W) /\ ~("Send" \in W /\ r = s) => Busy(r, W)'
                /\ (\E j \in 1..Len(k) : k[j].on = r /\ k[j].op \in W) => Busy(r, W)'
  BY <1>0, <1>1, <1>2, GoesOn
<1>4. \A r : FlushFollows(r) => FlushFollows(r)'
  BY <1>0, <1>1, <1>2, FlushGoesOn
<1>5. \A r : /\ Busy(r, Senders) => Busy(r, Senders)'
             /\ Busy(r, Flushers) => Busy(r, Flushers)'
  BY <1>3 DEF Senders, Flushers
<1>6. sendData'[s] = sendData[s] \/ Busy(s, Flushers)'
  <2>1. CASE Len(k) = 1 /\ k[1] = Frame("Flush", s)
    <3>1. 1 \in 1..Len(k) /\ k[1].on = s /\ k[1].op \in Flushers
      BY <2>1, FrameFields DEF Flushers
    <3>. QED  BY <1>3, <3>1
  <2>. QED  BY <1>2, <2>1
<1>7. connected'[s] /\ sendPending'[s] => sendIO'[s] > 0 \/ Busy(s, Senders)' \/ FlushFollows(s)'
  BY <1>0, <1>1, <1>4, <1>5 DEF SendInv
<1>8. connected'[s] /\ sendData'[s] => sendIO'[s] > 0 \/ Busy(s, Flushers)'
  BY <1>0, <1>1, <1>5, <1>6, SendParts
<1>. QED  BY <1>0, <1>1, <1>4, <1>5, <1>7, <1>8, SendKept

\* PostSend() goes on to try m_SendPending when it sees bytes.
LEMMA FlushWatches ==
    ASSUME SInv, NEW t \in Threads, NEW s \in Sessions, Flush(t, s)
    PROVE  SendInv' /\ SendWatched'
<1>0. StackType /\ TypeOK /\ SendInv /\ SendWatched
  BY StackFacts DEF SInv
<1>1. At(t, "Flush", s) /\ UNCHANGED <<connected, sendPending, sendIO, sendData>>
  BY DEF Flush, connVars, flagVars, ioVars, bufVars
<1>2. PICK k \in Seq(Frames) :
         /\ Continue(t, k)
         /\ connected[s] /\ sendData[s] => Len(k) = 1 /\ k[1] = Frame("TrySend", s)
  <2>1. <<Frame("TrySend", s)>> \in Seq(Frames) /\ <<>> \in Seq(Frames)
    BY DullContinuations, UnmarkedOps DEF Dull
  <2>. QED  BY <2>1 DEF Flush, Return
<1>3. \A r, W : /\ Busy(r, W) /\ ~("Flush" \in W /\ r = s) => Busy(r, W)'
                /\ (\E j \in 1..Len(k) : k[j].on = r /\ k[j].op \in W) => Busy(r, W)'
  BY <1>0, <1>1, <1>2, GoesOn
<1>4. \A r : FlushFollows(r) => FlushFollows(r)'
  BY <1>0, <1>1, <1>2, FlushGoesOn
<1>5. Busy(s, Senders) => Busy(s, Senders)'
  BY <1>3 DEF Senders
<1>6. ASSUME connected[s], sendData[s] PROVE Busy(s, Flushers)'
  <2>1. 1 \in 1..Len(k) /\ k[1].on = s /\ k[1].op \in Flushers
    BY <1>2, <1>6, FrameFields DEF Flushers
  <2>. QED  BY <1>3, <2>1
<1>7. connected'[s] /\ sendPending'[s] => sendIO'[s] > 0 \/ Busy(s, Senders)' \/ FlushFollows(s)'
  BY <1>0, <1>1, <1>4, <1>5 DEF SendInv
<1>. QED  BY <1>0, <1>1, <1>2, <1>6, <1>7, OthersAttend, SendKept

\* A PostSend() that finds m_SendPending locked leaves its bytes to a posted
\* send, or to a thread that ends it and looks again.
LEMMA TrySendWatches ==
    ASSUME SInv, NEW t \in Threads, NEW s \in Sessions, TrySend(t, s)
    PROVE  SendInv' /\ SendWatched'
<1>0. StackType /\ TypeOK /\ SendInv /\ SendWatched
  BY StackFacts DEF SInv
<1>1. /\ At(t, "TrySend", s) /\ UNCHANGED <<connected, sendIO, sendData>>
      /\ \A r \in Sessions \ {s} : sendPending'[r] = sendPending[r]
  BY <1>0 DEF TrySend, connVars, ioVars, bufVars, TypeOK
<1>2. PICK k \in Seq(Frames) :
         Continue(t, k) /\ (sendPending[s] \/ (Len(k) = 1 /\ k[1] = Frame("SendLocked", s)))
  <2>1. <<Frame("SendLocked", s)>> \in Seq(Frames) /\ <<>> \in Seq(Frames)
    BY DullContinuations, UnmarkedOps DEF Dull
  <2>. QED  BY <2>1 DEF TrySend, Return
<1>3. \A r, W : /\ Busy(r, W) /\ ~("TrySend" \in W /\ r = s) => Busy(r, W)'
                /\ (\E j \in 1..Len(k) : k[j].on = r /\ k[j].op \in W) => Busy(r, W)'
  BY <1>0, <1>1, <1>2, GoesOn
<1>4. \A r : FlushFollows(r) => FlushFollows(r)'
  BY <1>0, <1>1, <1>2, FlushGoesOn
<1>5. CASE sendPending[s]
  <2>1. connected[s] => sendIO[s] > 0 \/ Busy(s, Senders) \/ FlushFollows(s)
    BY <1>0, <1>5 DEF SendInv
  <2>2. Busy(s, Senders) => Busy(s, Senders)' /\ Busy(s, Flushers)'
    BY <1>3, SendersFlush DEF Senders
  <2>3. ASSUME FlushFollows(s) PROVE Busy(s, Flushers)'
    <3>1. PICK u \in Threads : \E i \in DOMAIN stack[u] :
             stack[u][i] = Frame("UnlockSend", s) /\ Below(stack[u], i, "Flush")
      BY <2>3 DEF FlushFollows
    <3>2. PICK i \in DOMAIN stack[u] :
             stack[u][i] = Frame("UnlockSend", s) /\ Below(stack[u], i, "Flush")
      BY <3>1
    <3>3. stack[u][i].on = s
      BY <3>2, FrameFields
    <3>4. Busy(s, {"Flush"})'
      BY <1>0, <1>1, <1>2, <3>2, <3>3, BelowStays
    <3>. QED  BY <3>4 DEF Busy, Flushers
  <2>. QED  BY <1>0, <1>1, <1>2, <1>4, <2>1, <2>2, <2>3, OthersAttend, SendKept
<1>6. CASE ~sendPending[s]
  <2>1. 1 \in 1..Len(k) /\ k[1].on = s /\ k[1].op \in Senders
    BY <1>2, <1>6, FrameFields DEF Senders
  <2>2. Busy(s, Senders)' /\ Busy(s, Flushers)'
    BY <1>3, <2>1, SendersFlush
  <2>. QED  BY <1>0, <1>1, <1>2, <2>2, OthersAttend, SendKept
<1>. QED  BY <1>5, <1>6

\* PostSend() under m_ClientSessionLock posts a send, or is going to disconnect.
LEMMA SendLockedWatches ==
    ASSUME SInv, NEW t \in Threads, NEW s \in Sessions, SendLocked(t, s)
    PROVE  SendInv' /\ SendWatched'
<1>0. StackType /\ TypeOK /\ SendInv /\ SendWatched
  BY StackFacts DEF SInv
<1>1. /\ At(t, "SendLocked", s) /\ UNCHANGED <<connected, sendPending, sendData>>
      /\ \A r \in Sessions \ {s} : sendIO'[r] = sendIO[r]
      /\ sendIO[s] \in Nat
  BY <1>0 DEF SendLocked, connVars, flagVars, bufVars, TypeOK
<1>2. PICK k \in Seq(Frames) :
         /\ Continue(t, k)
         /\ connected[s] => sendIO'[s] > 0 \/ \E j \in 1..Len(k) : k[j] = Frame("Disconnect", s)
  <2>1. /\ <<Frame("UnlockSend", s)>> \in Seq(Frames) /\ <<>> \in Seq(Frames)
        /\ GiveUp(s, "UnlockSend") \in Seq(Frames)
    BY DullContinuations, UnmarkedOps DEF Dull, GiveUp
  <2>2. \E j \in 1..Len(GiveUp(s, "UnlockSend")) :
           GiveUp(s, "UnlockSend")[j] = Frame("Disconnect", s)
    BY DEF GiveUp
  <2>3. CASE ~connected[s] /\ Continue(t, <<Frame("UnlockSend", s)>>)
    BY <2>1, <2>3
  <2>4. CASE sendIO' = [sendIO EXCEPT ![s] = @ + 1] /\ Return(t)
    <3>1. sendIO'[s] > 0
      BY <1>0, <1>1, <2>4 DEF TypeOK
    <3>. QED  BY <2>1, <2>4, <3>1 DEF Return
  <2>5. CASE Continue(t, GiveUp(s, "UnlockSend"))
    BY <2>1, <2>2, <2>5
  <2>. QED  BY <2>3, <2>4, <2>5 DEF SendLocked
<1>3. \A r, W : (\E j \in 1..Len(k) : k[j].on = r /\ k[j].op \in W) => Busy(r, W)'
  BY <1>0, <1>1, <1>2, GoesOn
<1>4. connected[s] => sendIO'[s] > 0 \/ (Busy(s, Senders)' /\ Busy(s, Flushers)')
  <2>1. SUFFICES ASSUME NEW j \in 1..Len(k), k[j] = Frame("Disconnect", s)
                 PROVE  Busy(s, Senders)' /\ Busy(s, Flushers)'
    BY <1>2
  <2>2. k[j].on = s /\ k[j].op = "Disconnect"
    BY <2>1, FrameFields
  <2>. QED  BY <1>3, <2>2 DEF Senders, Flushers
<1>. QED  BY <1>0, <1>1, <1>2, <1>4, OthersAttend, SendKept

\* Once m_SendPending is unlocked nobody needs to end the send.
LEMMA UnlockSendWatches ==
    ASSUME SInv, NEW t \in Threads, NEW s \in Sessions, UnlockSend(t, s)
    PROVE  SendInv' /\ SendWatched'
<1>0. StackType /\ TypeOK /\ SendInv /\ SendWatched
  BY StackFacts DEF SInv
<1>1. /\ At(t, "UnlockSend", s) /\ UNCHANGED <<connected, sendIO, sendData>>
      /\ ~sendPending'[s] /\ \A r \in Sessions \ {s} : sendPending'[r] = sendPending[r]
  BY <1>0 DEF UnlockSend, connVars, ioVars, bufVars, TypeOK
<1>2. PICK k \in Seq(Frames) : Continue(t, k)
  BY DullContinuations DEF UnlockSend, Return, Dull
<1>3. \A r, W : Busy(r, W) /\ ~("UnlockSend" \in W /\ r = s) => Busy(r, W)'
  BY <1>0, <1>1, <1>2, GoesOn
<1>4. Busy(s, Flushers) => Busy(s, Flushers)'
  BY <1>3 DEF Flushers
<1>5. connected'[s] /\ sendData'[s] => sendIO'[s] > 0 \/ Busy(s, Flushers)'
  BY <1>0, <1>1, <1>4, SendParts
<1>. QED  BY <1>0, <1>1, <1>2, <1>5, OthersAttend, SendKept

\* CompletedSend unlocks and then flushes, or is going to disconnect.
LEMMA CompletedSendWatches ==
    ASSUME SInv, NEW t \in Threads, NEW s \in Sessions, CompletedSend(t, s)
    PROVE  SendInv' /\ SendWatched'
<1>0. StackType /\ TypeOK /\ SendInv /\ SendWatched
  BY StackFacts DEF SInv
<1>1. /\ At(t, "CompletedSend", s) /\ UNCHANGED <<connected, sendPending, sendIO>>
      /\ \A r \in Sessions \ {s} : sendData'[r] = sendData[r]
  BY <1>0 DEF CompletedSend, connVars, flagVars, ioVars, TypeOK
<1> DEFINE d == <<Frame("Disconnect", s), Frame("UnlockSend", s)>>
           f == <<Frame("Flush", s), Frame("UnlockSend", s)>>
<1>2. (~connected[s] /\ Continue(t, <<Frame("UnlockSend", s)>>)) \/ Continue(t, d) \/ Continue(t, f)
  BY DEF CompletedSend, AfterSend
<1>3. /\ d \in Seq(Frames) /\ Len(d) = 2 /\ d[1].on = s /\ d[1].op = "Disconnect"
      /\ f \in Seq(Frames) /\ Len(f) = 2 /\ f[1] = Frame("Flush", s)
      /\ f[2] = Frame("UnlockSend", s) /\ f[1].on = s /\ f[1].op = "Flush"
      /\ <<Frame("UnlockSend", s)>> \in Seq(Frames)
  BY DullContinuations, UnmarkedOps, FrameFields DEF Dull
<1>. HIDE DEF d, f
<1>4. CASE ~connected[s] /\ Continue(t, <<Frame("UnlockSend", s)>>)
  BY <1>0, <1>1, <1>3, <1>4, OthersAttend, SendKept
<1>5. CASE Continue(t, d)
  <2>1. \A r, W : (\E j \in 1..Len(d) : d[j].on = r /\ d[j].op \in W) => Busy(r, W)'
    BY <1>0, <1>1, <1>3, <1>5, GoesOn
  <2>2. Busy(s, Senders)' /\ Busy(s, Flushers)'
    BY <1>3, <2>1 DEF Senders, Flushers
  <2>. QED  BY <1>0, <1>1, <1>3, <1>5, <2>2, OthersAttend, SendKept
<1>6. CASE Continue(t, f)
  <2>1. \A r, W : (\E j \in 1..Len(f) : f[j].on = r /\ f[j].op \in W) => Busy(r, W)'
    BY <1>0, <1>1, <1>3, <1>6, GoesOn
  <2>2. Busy(s, Flushers)'
    BY <1>3, <2>1 DEF Flushers
  <2>3. FlushFollows(s)'
    <3> DEFINE n == Len(stack[t])
    <3>1. stack[t] # <<>>
      BY <1>1 DEF At
    <3>2. /\ StackType' /\ Replaced(t, Len(stack[t]), f)
      BY <1>0, <1>3, <1>6, <3>1, ContinueReplaces DEF StackType
    <3>a. /\ n \in Nat /\ n > 0 /\ Len(stack'[t]) = n + 1
          /\ \A i \in 1..2 : stack'[t][n - 1 + i] = f[i]
      BY <1>3, <3>2 DEF Replaced
    <3>3. DOMAIN stack'[t] = 1..Len(stack'[t])
      BY <3>2, LenProperties DEF StackType
    <3>. HIDE DEF n
    <3>4. /\ n + 1 \in DOMAIN stack'[t] /\ stack'[t][n + 1] = Frame("UnlockSend", s)
          /\ n \in 1..(n + 1 - 1) /\ stack'[t][n] = Frame("Flush", s)
      <4>1. n - 1 + 1 = n /\ n - 1 + 2 = n + 1 /\ 1 \in 1..2 /\ 2 \in 1..2
        BY <3>a
      <4>2. stack'[t][n] = f[1] /\ stack'[t][n + 1] = f[2]
        BY <3>a, <4>1
      <4>. QED  BY <1>3, <3>3, <3>a, <4>2
    <3>5. stack'[t][n + 1].on = s
      BY <3>4, FrameFields
    <3>6. Below(stack'[t], n + 1, "Flush")
      BY <3>4, <3>5 DEF Below
    <3>. QED  BY <3>4, <3>6 DEF FlushFollows
  <2>. QED  BY <1>0, <1>1, <1>3, <1>6, <2>2, <2>3, OthersAttend, SendKept
<1>. QED  BY <1>2, <1>4, <1>5, <1>6

\* After Disconnect nothing needs to be sent.
LEMMA DisconnectSends ==
    ASSUME SInv, NEW t \in Threads, NEW s \in Sessions, Disconnect(t, s)
    PROVE  SendInv' /\ SendWatched'
<1>0. StackType /\ TypeOK /\ SendInv /\ SendWatched
  BY StackFacts DEF SInv
<1>1. /\ At(t, "Disconnect", s) /\ ~connected'[s]
      /\ UNCHANGED <<sendPending, sendIO, sendData>>
      /\ \A r \in Sessions : connected'[r] => connected[r]
  BY <1>0 DEF Disconnect, connVars, flagVars, ioVars, bufVars, TypeOK
<1>2. PICK k \in Seq(Frames) : Continue(t, k)
  BY DullContinuations, UnmarkedOps DEF Disconnect, Return, Dull
<1>. QED  BY <1>0, <1>1, <1>2, OthersAttend, SendKept

\* The handlers that neither put bytes nor send any.
LEMMA OtherThanSend ==
    ASSUME TypeOK, NoneBuffered, NEW t \in Threads, NEW s \in Sessions, Run(t, s),
           ~Send(t, s), ~Flush(t, s), ~TrySend(t, s), ~SendLocked(t, s), ~UnlockSend(t, s),
           ~CompletedSend(t, s), ~Disconnect(t, s)
    PROVE  /\ \E op : At(t, op, s) /\ op \notin Senders \cup Flushers \cup {"UnlockSend"}
           /\ UNCHANGED <<connected, sendPending, sendIO>>
           /\ \A r \in Sessions : sendData'[r] => sendData[r]
<1>0. sendData \in [Sessions -> BOOLEAN]
  BY DEF TypeOK
<1>1. CASE AddClosing(t, s) \/ ReleaseSession(t, s)
  BY <1>1 DEF AddClosing, ReleaseSession, Senders, Flushers, connVars, flagVars, ioVars, bufVars
<1>2. CASE ReleaseRef(t, s) \/ Callback(t, s)
  <2>1. UNCHANGED <<connVars, flagVars, ioVars, bufVars>>
    BY <1>2 DEF ReleaseRef, Callback
  <2>2. \E op : At(t, op, s) /\ op \notin Senders \cup Flushers \cup {"UnlockSend"}
    BY <1>2 DEF ReleaseRef, Callback, Senders, Flushers
  <2>. QED  BY <2>1, <2>2 DEF connVars, flagVars, ioVars, bufVars
<1>3. CASE Close(t, s)
  BY <1>0, <1>3 DEF Close, Senders, Flushers, connVars, flagVars, ioVars
<1>4. CASE \/ PostRecv(t, s) \/ PostRecvLocked(t, s) \/ UnlockRecv(t, s) \/ CompletedRecv(t, s)
           \/ PostProcess(t, s) \/ TryProc(t, s) \/ PostProcessLocked(t, s) \/ UnlockProc(t, s)
  BY <1>4 DEF PostRecv, PostRecvLocked, UnlockRecv, CompletedRecv, PostProcess, TryProc,
     PostProcessLocked, UnlockProc, Senders, Flushers, connVars, flagVars, ioVars, bufVars
<1>5. CASE ProcessCompletion(t, s)
  <2>1. At(t, "ProcessCompletion", s) /\ UNCHANGED <<connVars, flagVars, ioVars, sendData>>
    BY <1>5, Zenon DEF ProcessCompletion
  <2>. QED  BY <2>1 DEF Senders, Flushers, connVars, flagVars, ioVars
<1>6. CASE ProcessPacket(t, s)
  <2>1. At(t, "ProcessPacket", s) /\ UNCHANGED <<connVars, flagVars, ioVars, sendData>>
    BY <1>6, Zenon DEF ProcessPacket
  <2>. QED  BY <2>1 DEF Senders, Flushers, connVars, flagVars, ioVars
<1>7. ~SendBuffered(t, s)
  <2>1. SUFFICES ASSUME SendBuffered(t, s) PROVE FALSE
    OBVIOUS
  <2>2. stack[t] # <<>> /\ stack[t][Len(stack[t])].op = "SendBuffered"
    BY <2>1, FrameFields DEF SendBuffered, At, Top
  <2>3. stack[t] \in Seq(Frames) /\ \A j \in 1..Len(stack[t]) : stack[t][j].op # "SendBuffered"
    BY DEF NoneBuffered, Unbuffered
  <2>4. Len(stack[t]) \in 1..Len(stack[t])
    BY <2>2, <2>3, EmptySeq, LenProperties
  <2>. QED  BY <2>2, <2>3, <2>4
<1>. QED  BY <1>1, <1>2, <1>3, <1>4, <1>5, <1>6, <1>7 DEF Run, SessionStep

\* A session step, or one of the closing thread.
LEMMA RunSends ==
    ASSUME PlainSends, SInv, NEW t \in Threads, NEW s \in Sessions, Run(t, s)
    PROVE  NoneBuffered' /\ SendInv' /\ SendWatched'
<1>0. StackType /\ TypeOK /\ NoneBuffered /\ SendInv /\ SendWatched
  BY StackFacts DEF SInv
<1>1. PICK k \in Unbuffered : stack[t] # <<>> /\ Continue(t, k)
  BY StepUnbuffered
<1>2. k \in Seq(Frames)
  BY DEF Unbuffered
<1>3. StackType' /\ Replaced(t, Len(stack[t]), k)
  BY <1>0, <1>1, <1>2, ContinueReplaces DEF StackType
<1>4. NoneBuffered'
  BY <1>0, <1>3, UnbufferedReplaced
<1>5. CASE \/ Send(t, s) \/ Flush(t, s) \/ TrySend(t, s) \/ SendLocked(t, s)
           \/ UnlockSend(t, s) \/ CompletedSend(t, s) \/ Disconnect(t, s)
  BY <1>4, <1>5, SendWatches, FlushWatches, TrySendWatches, SendLockedWatches,
     UnlockSendWatches, CompletedSendWatches, DisconnectSends
<1>6. CASE /\ ~Send(t, s) /\ ~Flush(t, s) /\ ~TrySend(t, s) /\ ~SendLocked(t, s)
           /\ ~UnlockSend(t, s) /\ ~CompletedSend(t, s) /\ ~Disconnect(t, s)
  <2>1. /\ \E op : At(t, op, s) /\ op \notin Senders \cup Flushers \cup {"UnlockSend"}
        /\ UNCHANGED <<connected, sendPending, sendIO>>
        /\ \A r \in Sessions : sendData'[r] => sendData[r]
    BY <1>0, <1>6, OtherThanSend
  <2>2. PICK op : At(t, op, s) /\ op \notin Senders \cup Flushers \cup {"UnlockSend"}
    BY <2>1
  <2>3. \A r, W : Busy(r, W) /\ ~(op \in W /\ r = s) => Busy(r, W)'
    BY <1>0, <1>1, <1>2, <2>2, GoesOn
  <2>4. \A r : FlushFollows(r) => FlushFollows(r)'
    BY <1>0, <1>1, <1>2, <2>2, FlushGoesOn
  <2>5. \A r : /\ Busy(r, Senders) => Busy(r, Senders)'
               /\ Busy(r, Flushers) => Busy(r, Flushers)'
    BY <2>2, <2>3
  <2>6. connected'[s] /\ sendPending'[s] => sendIO'[s] > 0 \/ Busy(s, Senders)' \/ FlushFollows(s)'
    BY <1>0, <2>1, <2>4, <2>5 DEF SendInv
  <2>7. connected'[s] /\ sendData'[s] => sendIO'[s] > 0 \/ Busy(s, Flushers)'
    BY <1>0, <2>1, <2>5, SendParts
  <2>8. SendInv' /\ SendWatched'
    BY <1>0, <2>1, <2>4, <2>5, <2>6, <2>7, SendKept
  <2>. QED  BY <1>4, <2>8
<1>. QED  BY <1>5, <1>6

\* What a thread that begins leaves to everybody.
LEMMA BeginAttends ==
    ASSUME StackType, NoneBuffered, NEW t \in Threads, NEW k \in Unbuffered, Begin(t, k)
    PROVE  /\ NoneBuffered'
           /\ \A r, W : (\E j \in 1..Len(k) : k[j].on = r /\ k[j].op \in W) => Busy(r, W)'
           /\ \A r : /\ Busy(r, Senders) => Busy(r, Senders)'
                     /\ Busy(r, Flushers) => Busy(r, Flushers)'
                     /\ FlushFollows(r) => FlushFollows(r)'
<1>0. k \in Seq(Frames)
  BY DEF Unbuffered
<1>1. StackType' /\ Replaced(t, 1, k)
  BY <1>0, BeginReplaces DEF StackType
<1>2. NoneBuffered'
  BY <1>1, UnbufferedReplaced
<1>3. \A r, W : /\ Busy(r, W) => Busy(r, W)'
                /\ (\E j \in 1..Len(k) : k[j].on = r /\ k[j].op \in W) => Busy(r, W)'
  BY <1>0, Begins
<1>4. \A r : FlushFollows(r) => FlushFollows(r)'
  BY <1>0, FlushBegins
<1>. QED  BY <1>2, <1>3, <1>4

\* What the workers do with a completed receive has no PostSendBuffered.
LEMMA OnRecvUnbuffered ==
    ASSUME NEW s \in Sessions
    PROVE  OnRecv(s) \in Unbuffered
<1> DEFINE F(op) == Frame(op, s)
<1>1. \A op \in Ops : F(op) \in Frames
  BY FrameFields
<1>2. {"ReleaseRef", "PostRecv", "PostProcess", "CompletedRecv"} \subseteq Ops \ {"SendBuffered"}
  BY DEF Ops
<1>3. CASE OwnMode
  <2>1. \A x, y, z, w \in Frames : <<x, y>> \o <<z>> \o <<w>> = <<x, y, z, w>>
    <3> TAKE x, y, z, w \in Frames
    <3>1. <<x, y>> \o <<z>> = <<x, y, z>>
      BY JoinOne, Zenon
    <3>2. <<x, y, z>> \o <<w>> = <<x, y, z, w>>
      BY JoinOne, Zenon
    <3>. QED  BY <3>1, <3>2, Zenon
  <2>2. OnRecv(s) = <<F("ReleaseRef"), F("PostRecv")>> \o <<F("PostProcess")>>
                        \o <<F("CompletedRecv")>>
    BY <1>3, Zenon DEF OnRecv
  <2>3. OnRecv(s) = <<F("ReleaseRef"), F("PostRecv"), F("PostProcess"), F("CompletedRecv")>>
    <3>. HIDE DEF F
    <3>. QED  BY <1>1, <1>2, <2>1, <2>2
  <2>. QED  BY <1>2, <2>3, UnbufferedContinuations
<1>4. CASE ~OwnMode
  <2>1. \A x, y, z \in Frames : <<x, y>> \o <<>> \o <<z>> = <<x, y, z>>
    BY Joins, Zenon
  <2>2. OnRecv(s) = <<F("ReleaseRef"), F("PostRecv")>> \o <<>> \o <<F("CompletedRecv")>>
    BY <1>4, Zenon DEF OnRecv
  <2>3. OnRecv(s) = <<F("ReleaseRef"), F("PostRecv"), F("CompletedRecv")>>
    <3>. HIDE DEF F
    <3>. QED  BY <1>1, <1>2, <2>1, <2>2
  <2>. QED  BY <1>2, <2>3, UnbufferedContinuations
<1>. QED  BY <1>3, <1>4

\* A worker that takes a completed send is going to end it; the other threads
\* that begin take nothing away.
LEMMA WorkersSend ==
    ASSUME PlainSends, SInv, NEW t \in Threads, NEW s \in Sessions,
           IoDequeue(t, s) \/ DequeueProcess(t, s) \/ AppCall(t, s)
    PROVE  NoneBuffered' /\ SendInv' /\ SendWatched'
<1>0. StackType /\ TypeOK /\ NoneBuffered /\ SendInv /\ SendWatched
  BY StackFacts DEF SInv
<1>1. UNCHANGED <<connected, sendPending, sendData>>
      /\ \A r \in Sessions \ {s} : sendIO'[r] = sendIO[r]
  BY <1>0 DEF IoDequeue, DequeueRecv, DequeueSend, DequeueFailed, DequeueProcess, AppCall,
     connVars, flagVars, ioVars, bufVars, TypeOK
<1>2. PICK k \in Unbuffered :
         /\ Begin(t, k)
         /\ sendIO'[s] = sendIO[s] \/ (\E j \in 1..Len(k) : k[j].on = s /\ k[j].op \in Senders)
  <2>1. CASE DequeueRecv(t, s)
    BY <2>1, OnRecvUnbuffered DEF DequeueRecv
  <2>2. CASE DequeueSend(t, s)
    <3> DEFINE k == <<Frame("ReleaseRef", s), Frame("CompletedSend", s)>>
    <3>1. k \in Unbuffered
      BY UnbufferedContinuations, LibraryOps
    <3>2. Len(k) = 2 /\ k[2].on = s /\ k[2].op = "CompletedSend" /\ Begin(t, k)
      BY <2>2, FrameFields DEF DequeueSend
    <3>. HIDE DEF k
    <3>3. 2 \in 1..Len(k)
      BY <3>2
    <3>. QED  BY <3>1, <3>2, <3>3 DEF Senders
  <2>3. CASE DequeueFailed(t, s)
    <3> DEFINE k == <<Frame("ReleaseRef", s), Frame("Disconnect", s)>>
    <3>1. k \in Unbuffered
      BY UnbufferedContinuations, LibraryOps
    <3>2. Len(k) = 2 /\ k[2].on = s /\ k[2].op = "Disconnect" /\ Begin(t, k)
      BY <2>3, FrameFields DEF DequeueFailed
    <3>. HIDE DEF k
    <3>3. 2 \in 1..Len(k)
      BY <3>2
    <3>. QED  BY <3>1, <3>2, <3>3 DEF Senders
  <2>4. CASE DequeueProcess(t, s)
    <3>1. <<Frame("ReleaseRef", s), Frame("ProcessCompletion", s)>> \in Unbuffered
      BY UnbufferedContinuations, LibraryOps
    <3>. QED  BY <2>4, <3>1 DEF DequeueProcess
  <2>5. CASE AppCall(t, s)
    <3>1. PICK call \in AppCalls : Begin(t, <<Frame(call, s)>>)
      BY <2>5 DEF AppCall
    <3>2. call \in Ops \ {"SendBuffered"}
      BY NetworkAssumption DEF PlainSends, Ops
    <3>3. sendIO' = sendIO
      BY <2>5 DEF AppCall, ioVars
    <3>. QED  BY <3>1, <3>2, <3>3, UnbufferedContinuations
  <2>. QED  BY <2>1, <2>2, <2>3, <2>4, <2>5 DEF IoDequeue
<1>3. /\ NoneBuffered'
      /\ \A r, W : (\E j \in 1..Len(k) : k[j].on = r /\ k[j].op \in W) => Busy(r, W)'
      /\ \A r : /\ Busy(r, Senders) => Busy(r, Senders)'
                /\ Busy(r, Flushers) => Busy(r, Flushers)'
                /\ FlushFollows(r) => FlushFollows(r)'
  BY <1>0, <1>2, BeginAttends
<1>4. sendIO'[s] = sendIO[s] \/ (Busy(s, Senders)' /\ Busy(s, Flushers)')
  BY <1>2, <1>3, SendersFlush
<1>5. connected'[s] /\ sendPending'[s] => sendIO'[s] > 0 \/ Busy(s, Senders)' \/ FlushFollows(s)'
  BY <1>0, <1>1, <1>3, <1>4 DEF SendInv
<1>6. connected'[s] /\ sendData'[s] => sendIO'[s] > 0 \/ Busy(s, Flushers)'
  BY <1>0, <1>1, <1>3, <1>4, SendParts
<1>7. SendInv' /\ SendWatched'
  BY <1>0, <1>1, <1>3, <1>5, <1>6, SendKept
<1>. QED  BY <1>3, <1>7

\* A new connection starts with m_SendPending free and an empty buffer.
LEMMA AllocateSends ==
    ASSUME SInv, NEW t \in Allocators, NEW s \in Sessions, AllocateSession(t, s)
    PROVE  NoneBuffered' /\ SendInv' /\ SendWatched'
<1> DEFINE k == <<Frame("PostRecv", s), Frame("OnAccept", s)>>
<1>0. StackType /\ TypeOK /\ NoneBuffered /\ SendInv /\ SendWatched /\ t \in Threads
  BY StackFacts, NetworkAssumption DEF SInv
<1>1. Begin(t, k) /\ k \in Unbuffered /\ sendIO' = sendIO
  BY UnbufferedContinuations, LibraryOps DEF AllocateSession, ioVars
<1>. HIDE DEF k
<1>2. /\ NoneBuffered'
      /\ \A r : /\ Busy(r, Senders) => Busy(r, Senders)'
                /\ Busy(r, Flushers) => Busy(r, Flushers)'
                /\ FlushFollows(r) => FlushFollows(r)'
  BY <1>0, <1>1, BeginAttends
<1>3. /\ \A r \in Sessions \ {s} : /\ connected'[r] = connected[r] /\ sendData'[r] = sendData[r]
                                   /\ sendPending'[r] = sendPending[r]
      /\ connected'[s] /\ sendPending'[s] => connected[s] /\ sendPending[s]
      /\ connected'[s] /\ sendData'[s] => connected[s] /\ sendData[s]
  BY <1>0 DEF AllocateSession, Attach, flagVars, bufVars, TypeOK
<1>4. connected'[s] /\ sendPending'[s] => sendIO'[s] > 0 \/ Busy(s, Senders)' \/ FlushFollows(s)'
  BY <1>0, <1>1, <1>2, <1>3 DEF SendInv
<1>5. connected'[s] /\ sendData'[s] => sendIO'[s] > 0 \/ Busy(s, Flushers)'
  BY <1>0, <1>1, <1>2, <1>3, SendParts
<1>6. SendInv' /\ SendWatched'
  BY <1>0, <1>1, <1>2, <1>3, <1>4, <1>5, SendKept
<1>. QED  BY <1>2, <1>6

\* The closing thread takes a session: nothing is put, sent or unlocked.
LEMMA TakeClosingSends ==
    ASSUME SInv, NEW s \in Sessions, TakeClosing(s)
    PROVE  NoneBuffered' /\ SendInv' /\ SendWatched'
<1>0. StackType /\ NoneBuffered /\ SendInv /\ SendWatched /\ ClosingThread \in Threads
  BY StackFacts, NetworkAssumption DEF SInv
<1>1. UNCHANGED <<connected, sendPending, sendIO, sendData>>
  BY DEF TakeClosing, connVars, flagVars, ioVars, bufVars
<1>2. PICK k \in Unbuffered : Begin(ClosingThread, k)
  BY UnbufferedContinuations, LibraryOps DEF TakeClosing
<1>3. /\ NoneBuffered'
      /\ \A r : /\ Busy(r, Senders) => Busy(r, Senders)'
                /\ Busy(r, Flushers) => Busy(r, Flushers)'
                /\ FlushFollows(r) => FlushFollows(r)'
  BY <1>0, <1>2, BeginAttends
<1>4. connected'[s] /\ sendPending'[s] => sendIO'[s] > 0 \/ Busy(s, Senders)' \/ FlushFollows(s)'
  BY <1>0, <1>1, <1>3 DEF SendInv
<1>5. connected'[s] /\ sendData'[s] => sendIO'[s] > 0 \/ Busy(s, Flushers)'
  BY <1>0, <1>1, <1>3, SendParts
<1>6. SendInv' /\ SendWatched'
  BY <1>0, <1>1, <1>3, <1>4, <1>5, SendKept
<1>. QED  BY <1>3, <1>6

------------------------------------------------------------------------------
(* The theorem                                                             *)

\* Initially nobody is connected and nobody runs anything.
LEMMA InitSInv == Init => SInv
<1> SUFFICES ASSUME Init PROVE SInv
  OBVIOUS
<1>1. HInv
  BY InitHInv
<1>2. /\ \A s \in Sessions : ~connected[s]
      /\ \A t \in Threads : stack[t] = <<>>
  BY DEF Init, SessionInit
<1>3. <<>> \in Unbuffered
  BY DEF Unbuffered
<1>4. NoneBuffered
  BY <1>2, <1>3 DEF NoneBuffered
<1>. QED  BY <1>1, <1>2, <1>4 DEF SInv, SendInv, SendWatched

\* Every step of every thread keeps the invariant.
LEMMA NextSInv ==
    ASSUME PlainSends, SInv, [Next]_vars
    PROVE  SInv'
<1>1. HInv'
  BY NextHInv DEF SInv
<1> DEFINE Rest == NoneBuffered /\ SendInv /\ SendWatched
<1>2. ASSUME UNCHANGED sessionVars PROVE Rest'
  <2>1. UNCHANGED <<stack, connected, sendPending, sendIO, sendData>>
    BY <1>2 DEF sessionVars, connVars, flagVars, ioVars, bufVars
  <2>2. /\ \A r, W : Busy(r, W)' <=> Busy(r, W)
        /\ \A r : FlushFollows(r)' <=> FlushFollows(r)
    BY <2>1 DEF Busy, FlushFollows, Below
  <2>. QED  BY <2>1, <2>2, SendParts DEF SInv, NoneBuffered, SendInv
<1>3. ASSUME NEW s \in Sessions, NEW t \in Threads, Run(t, s) PROVE Rest'
  BY <1>3, RunSends
<1>4. ASSUME NEW s \in Sessions, NEW t \in Allocators, AllocateSession(t, s) PROVE Rest'
  BY <1>4, AllocateSends
<1>5. ASSUME NEW s \in Sessions, NEW t \in Threads,
             IoDequeue(t, s) \/ DequeueProcess(t, s) \/ AppCall(t, s)
      PROVE  Rest'
  BY <1>5, WorkersSend
<1>6. ASSUME NEW s \in Sessions, TakeClosing(s) PROVE Rest'
  BY <1>6, TakeClosingSends
<1>7. ASSUME NEW s \in Sessions, (\E t \in Allocators : Associate(t, s)) \/ CompleteUnqueued(s)
      PROVE  UNCHANGED sessionVars
  BY <1>7, PortSteps
<1>. HIDE DEF Rest
<1>8. Rest'
  BY <1>2, <1>3, <1>4, <1>5, <1>6, <1>7, NetworkAssumption DEF Next, vars
<1>. QED  BY <1>1, <1>8 DEF SInv, Rest

\* When the application never calls PostSendBuffered, no bytes of a connected
\* session are forgotten: whoever finds m_SendPending locked leaves them to a
\* posted send or to a holder that flushes after it unlocks.
THEOREM SendsAreWatched ==
    ASSUME "SendBuffered" \notin AppCalls \cup CallbackCalls
    PROVE  Spec => []SendWatched
<1>1. PlainSends
  BY DEF PlainSends
<1>2. SInv /\ [Next]_vars => SInv'
  BY <1>1, NextSInv
<1>3. SInv => SendWatched
  BY DEF SInv
<1>. QED  BY <1>2, <1>3, InitSInv, PTL DEF Spec

------------------------------------------------------------------------------
(***************************************************************************)
(* One receive and one send: with one thread that allocates sessions, and  *)
(* callers of PostSend that have a reference, at most one receive and one  *)
(* send of a session are posted.                                           *)
(***************************************************************************)

(* The inductive invariant                                                 *)

\* The handlers that run with m_RecvPending and with m_SendPending locked by
\* their own thread, and those that try to lock them.
RecvTurns == {"PostRecvLocked", "CompletedRecv", "UnlockRecv"}
RecvOps == RecvTurns \cup {"PostRecv"}
SendTurns == {"SendLocked", "UnlockSend", "CompletedSend"}
SendOps == SendTurns \cup {"TrySend"}
\* The handlers that can lead to a send.
SendPaths == SendOps \cup {"Send", "Flush", "OnAccept", "OnDispatch", "OnClose",
                           "ProcessPacket", "ProcessCompletion"}

\* Who runs such a handler, per session.
Has(k, W) == \E j \in 1..Len(k) : k[j].op \in W
Owners(W) == [s \in Sessions |-> {t \in Threads : \E j \in 1..Len(stack[t]) :
                                      stack[t][j].on = s /\ stack[t][j].op \in W}]

\* A flag is locked for the one operation that is posted or for its one owner.
Single(flag, io, owners) ==
    \A s \in Sessions :
        /\ io[s] = 0 \/ io[s] = 1
        /\ io[s] = 1 => flag[s] /\ owners[s] = {}
        /\ \A t \in owners[s] : flag[s] /\ owners[s] = {t}

\* Above a handler of W there is none of P.
Apart(q, W, P) == \A i, j \in 1..Len(q) : i < j /\ q[i].op \in W => q[j].op \notin P
Lone(W, P) == \A t \in Threads : Apart(stack[t], W, P)

\* A handler of B runs on the allocating thread, or above one of the frames of E
\* for the same session: a worker has a reference, the closing thread the session.
Behind(q, i, E) == \E e \in E : Below(q, i, e)
Backed(B, E) == \A t \in Threads : \A i \in 1..Len(stack[t]) :
                    stack[t][i].op \in B => t \in Allocators \/ Behind(stack[t], i, E)

RecvOnce ==
    /\ Single(recvPending, recvIO, Owners(RecvTurns))
    /\ Lone(RecvTurns, RecvOps)
    /\ Backed(RecvOps, {"ReleaseRef"})

SendOnce ==
    /\ Single(sendPending, sendIO, Owners(SendTurns))
    /\ Lone(SendTurns, Ops)
    /\ Backed(SendOps, {"ReleaseRef"})
    /\ Backed(SendPaths, {"ReleaseRef", "ReleaseSession"})

------------------------------------------------------------------------------
(* Owners                                                                  *)

\* The elements of Owners.
LEMMA OwnersAre ==
    ASSUME NEW W, NEW s \in Sessions, NEW t
    PROVE  /\ t \in Owners(W)[s] <=>
                 t \in Threads /\ \E j \in 1..Len(stack[t]) : stack[t][j].on = s /\ stack[t][j].op \in W
           /\ t \in Owners(W)'[s] <=>
                 t \in Threads /\ \E j \in 1..Len(stack'[t]) : stack'[t][j].on = s /\ stack'[t][j].op \in W
BY DEF Owners

\* Sets with the same members.
LEMMA SameMembers ==
    ASSUME NEW t, NEW W, NEW r,
           \A u : u # t => (u \in Owners(W)'[r] <=> u \in Owners(W)[r]),
           t \in Owners(W)'[r] <=> t \in Owners(W)[r]
    PROVE  Owners(W)'[r] = Owners(W)[r]
<1> DEFINE A == Owners(W)'[r]
           B == Owners(W)[r]
<1>1. \A u : u \in A <=> u \in B
  OBVIOUS
<1>. HIDE DEF A, B
<1>2. A = B
  BY <1>1
<1>. QED  BY <1>2 DEF A, B

\* What a replaced stack does to the owners.
LEMMA OwnersReplaced ==
    ASSUME StackType, NEW t \in Threads, NEW k \in Seq(Frames), NEW n, Replaced(t, n, k),
           NEW W, NEW r \in Sessions
    PROVE  /\ \A u : u # t => (u \in Owners(W)'[r] <=> u \in Owners(W)[r])
           /\ t \in Owners(W)'[r] <=>
                 \/ \E i \in 1..(n - 1) : stack[t][i].on = r /\ stack[t][i].op \in W
                 \/ \E j \in 1..Len(k) : k[j].on = r /\ k[j].op \in W
           /\ t \in Owners(W)[r] <=>
                 \/ \E i \in 1..(n - 1) : stack[t][i].on = r /\ stack[t][i].op \in W
                 \/ Len(stack[t]) = n /\ stack[t][n].on = r /\ stack[t][n].op \in W
<1>1. /\ n \in Nat /\ n > 0 /\ Len(k) \in Nat /\ Len(stack'[t]) = n - 1 + Len(k)
      /\ Len(stack[t]) \in Nat /\ (Len(stack[t]) = n - 1 \/ Len(stack[t]) = n)
      /\ \A i \in 1..(n - 1) : stack'[t][i] = stack[t][i]
      /\ \A i \in 1..Len(k) : stack'[t][n - 1 + i] = k[i]
      /\ \A u \in Threads \ {t} : stack'[u] = stack[u]
  BY LenProperties DEF Replaced, StackType
<1>2. ASSUME NEW u, u # t PROVE u \in Owners(W)'[r] <=> u \in Owners(W)[r]
  <2>1. CASE u \in Threads
    <3>1. stack'[u] = stack[u]
      BY <1>1, <1>2, <2>1
    <3>. QED  BY <3>1, OwnersAre
  <2>. QED  BY <2>1, OwnersAre
<1>3. ASSUME NEW i \in 1..Len(stack'[t])
      PROVE  \/ i \in 1..(n - 1) /\ stack'[t][i] = stack[t][i]
             \/ \E j \in 1..Len(k) : stack'[t][i] = k[j]
  <2>1. i \in 1..(n - 1) \/ (i - (n - 1) \in 1..Len(k) /\ i = n - 1 + (i - (n - 1)))
    BY <1>1
  <2>. QED  BY <1>1, <2>1
<1>4. /\ \A i \in 1..(n - 1) : i \in 1..Len(stack'[t])
      /\ \A j \in 1..Len(k) : n - 1 + j \in 1..Len(stack'[t])
  BY <1>1
<1>5. /\ \A i \in 1..Len(stack[t]) : i \in 1..(n - 1) \/ (i = n /\ Len(stack[t]) = n)
      /\ \A i \in 1..(n - 1) : i \in 1..Len(stack[t])
      /\ Len(stack[t]) = n => n \in 1..Len(stack[t])
  BY <1>1
<1>6. t \in Owners(W)'[r] <=>
         \/ \E i \in 1..(n - 1) : stack[t][i].on = r /\ stack[t][i].op \in W
         \/ \E j \in 1..Len(k) : k[j].on = r /\ k[j].op \in W
  <2>1. t \in Owners(W)'[r] <=>
           \E i \in 1..Len(stack'[t]) : stack'[t][i].on = r /\ stack'[t][i].op \in W
    BY OwnersAre
  <2>. QED  BY <1>1, <1>3, <1>4, <2>1
<1>7. t \in Owners(W)[r] <=>
         \/ \E i \in 1..(n - 1) : stack[t][i].on = r /\ stack[t][i].op \in W
         \/ Len(stack[t]) = n /\ stack[t][n].on = r /\ stack[t][n].op \in W
  <2>1. t \in Owners(W)[r] <=>
           \E i \in 1..Len(stack[t]) : stack[t][i].on = r /\ stack[t][i].op \in W
    BY OwnersAre
  <2>. QED  BY <1>5, <2>1
<1>. QED  BY <1>2, <1>6, <1>7

\* A replaced stack is apart when its new frames are, and they are of P only if
\* the frame that they replace was.
LEMMA LoneReplaced ==
    ASSUME StackType, NEW t \in Threads, NEW k \in Seq(Frames), NEW n, Replaced(t, n, k),
           NEW W, NEW P, Lone(W, P), Apart(k, W, P),
           \A j \in 1..Len(k) : k[j].op \in P =>
               n = 1 \/ (Len(stack[t]) = n /\ stack[t][n].op \in P)
    PROVE  Lone(W, P)'
<1> DEFINE q == stack[t]
           r == stack'[t]
<1>1. /\ n \in Nat /\ n > 0 /\ Len(k) \in Nat /\ Len(r) = n - 1 + Len(k)
      /\ \A i \in 1..Len(r) :
            \/ i \in 1..(n - 1) /\ r[i] = q[i]
            \/ \E j \in 1..Len(k) : i = n - 1 + j /\ r[i] = k[j]
  BY ReplacedFrames
<1>2. /\ Apart(q, W, P) /\ (Len(q) = n - 1 \/ Len(q) = n) /\ Len(q) \in Nat
      /\ \A j \in 1..Len(k) : k[j].op \in P => n = 1 \/ (Len(q) = n /\ q[n].op \in P)
  BY LenProperties DEF Lone, Replaced, StackType
<1>. HIDE DEF q, r
<1>3. ASSUME NEW i \in 1..Len(r), NEW j \in 1..Len(r), i < j, r[i].op \in W, r[j].op \in P
      PROVE  FALSE
  <2>1. CASE j \in 1..(n - 1) /\ r[j] = q[j]
    <3>1. i \in 1..(n - 1) /\ r[i] = q[i] /\ i \in 1..Len(q) /\ j \in 1..Len(q)
      BY <1>1, <1>2, <1>3, <2>1
    <3>. QED  BY <1>2, <1>3, <2>1, <3>1 DEF Apart
  <2>2. ASSUME NEW m \in 1..Len(k), j = n - 1 + m, r[j] = k[m] PROVE FALSE
    <3>1. CASE i \in 1..(n - 1) /\ r[i] = q[i]
      <4>1. Len(q) = n /\ q[n].op \in P /\ i \in 1..Len(q) /\ n \in 1..Len(q) /\ i < n
        BY <1>1, <1>2, <1>3, <2>2, <3>1
      <4>. QED  BY <1>2, <1>3, <3>1, <4>1 DEF Apart
    <3>2. ASSUME NEW l \in 1..Len(k), i = n - 1 + l, r[i] = k[l] PROVE FALSE
      <4>1. l < m
        BY <1>1, <1>3, <2>2, <3>2
      <4>. QED  BY <1>3, <2>2, <3>2, <4>1 DEF Apart
    <3>. QED  BY <1>1, <3>1, <3>2
  <2>. QED  BY <1>1, <2>1, <2>2
<1>4. Apart(stack'[t], W, P)
  BY <1>3 DEF Apart, r
<1>5. \A u \in Threads \ {t} : stack'[u] = stack[u]
  BY DEF Replaced
<1>. QED  BY <1>4, <1>5 DEF Lone

\* New frames of B are backed where their place is.
LEMMA BackedReplaced ==
    ASSUME StackType, NEW t \in Threads, NEW k \in Seq(Frames), NEW n, Replaced(t, n, k),
           NEW B, NEW E, Backed(B, E),
           \A j \in 1..Len(k) : k[j].op \in B =>
               \/ t \in Allocators
               \/ \E e \in E : \E i \in 1..(n - 1) : stack[t][i] = Frame(e, k[j].on)
               \/ \E e \in E : \E i \in 1..(j - 1) : k[i] = Frame(e, k[j].on)
    PROVE  Backed(B, E)'
<1> DEFINE q == stack[t]
           r == stack'[t]
<1>1. /\ n \in Nat /\ n > 0 /\ Len(k) \in Nat /\ Len(r) = n - 1 + Len(k)
      /\ \A i \in 1..Len(r) :
            \/ i \in 1..(n - 1) /\ r[i] = q[i]
            \/ \E j \in 1..Len(k) : i = n - 1 + j /\ r[i] = k[j]
  BY ReplacedFrames
<1>2. /\ \A i \in 1..(n - 1) : r[i] = q[i]
      /\ \A j \in 1..Len(k) : r[n - 1 + j] = k[j]
      /\ Len(q) = n - 1 \/ Len(q) = n
  BY DEF Replaced
<1>3. /\ \A i \in 1..Len(q) : q[i].op \in B => t \in Allocators \/ Behind(q, i, E)
      /\ \A j \in 1..Len(k) : k[j].op \in B =>
            \/ t \in Allocators
            \/ \E e \in E : \E i \in 1..(n - 1) : q[i] = Frame(e, k[j].on)
            \/ \E e \in E : \E i \in 1..(j - 1) : k[i] = Frame(e, k[j].on)
  BY DEF Backed
<1>. HIDE DEF q, r
<1>4. ASSUME NEW i \in 1..Len(r), r[i].op \in B, t \notin Allocators PROVE Behind(r, i, E)
  <2>1. CASE i \in 1..(n - 1) /\ r[i] = q[i]
    <3>1. i \in 1..Len(q)
      BY <1>1, <1>2, <2>1
    <3>2. Behind(q, i, E)
      BY <1>3, <1>4, <2>1, <3>1
    <3>3. \A j \in 1..(i - 1) : r[j] = q[j]
      BY <1>1, <1>2, <2>1
    <3>. QED  BY <2>1, <3>2, <3>3 DEF Behind, Below
  <2>2. ASSUME NEW j \in 1..Len(k), i = n - 1 + j, r[i] = k[j] PROVE Behind(r, i, E)
    <3>1. CASE \E e \in E : \E m \in 1..(n - 1) : q[m] = Frame(e, k[j].on)
      <4>1. \A m \in 1..(n - 1) : m \in 1..(i - 1) /\ r[m] = q[m]
        BY <1>1, <1>2, <2>2
      <4>. QED  BY <2>2, <3>1, <4>1 DEF Behind, Below
    <3>2. CASE \E e \in E : \E m \in 1..(j - 1) : k[m] = Frame(e, k[j].on)
      <4>1. \A m \in 1..(j - 1) : n - 1 + m \in 1..(i - 1) /\ r[n - 1 + m] = k[m]
        BY <1>1, <1>2, <2>2
      <4>. QED  BY <2>2, <3>2, <4>1 DEF Behind, Below
    <3>. QED  BY <1>3, <1>4, <2>2, <3>1, <3>2
  <2>. QED  BY <1>1, <2>1, <2>2
<1>5. \A u \in Threads \ {t} : stack'[u] = stack[u]
  BY DEF Replaced
<1>. QED  BY <1>4, <1>5 DEF Backed, r

\* Going on from the top frame: only its own session changes its owners, and a
\* handler of P is the only one of W on its stack.
LEMMA OwnersGoOn ==
    ASSUME StackType, NEW t \in Threads, NEW op, NEW s \in Sessions, At(t, op, s),
           NEW k \in Seq(Frames), Continue(t, k), NEW W, NEW P, W \subseteq P, Lone(W, P),
           Apart(k, W, P), \A j \in 1..Len(k) : k[j].op \in P => op \in P /\ k[j].on = s
    PROVE  /\ Lone(W, P)'
           /\ \A r \in Sessions \ {s} : Owners(W)'[r] = Owners(W)[r]
           /\ op \notin P => Owners(W)'[s] = Owners(W)[s]
           /\ op \in P => Owners(W)'[s] = (Owners(W)[s] \ {t}) \cup (IF Has(k, W) THEN {t} ELSE {})
           /\ op \in W => t \in Owners(W)[s]
           /\ op \in P \ W => t \notin Owners(W)[s]
<1> DEFINE n == Len(stack[t])
<1>1. /\ Replaced(t, n, k) /\ n \in Nat /\ n > 0
      /\ stack[t][n].op = op /\ stack[t][n].on = s
  <2>1. stack[t] # <<>> /\ stack[t][n].op = op /\ stack[t][n].on = s
    BY FrameFields DEF At, Top
  <2>. QED  BY <2>1, ContinueReplaces, LenProperties, EmptySeq DEF StackType
<1>2. n = Len(stack[t])
  OBVIOUS
<1>. HIDE DEF n
<1>3. Lone(W, P)'
  BY <1>1, <1>2, LoneReplaced
<1>4. ASSUME op \in P, NEW i \in 1..(n - 1) PROVE stack[t][i].op \notin W
  <2>1. Apart(stack[t], W, P) /\ i \in 1..Len(stack[t]) /\ n \in 1..Len(stack[t]) /\ i < n
    BY <1>1, <1>2 DEF Lone
  <2>. QED  BY <1>1, <1>4, <2>1 DEF Apart
<1>5. ASSUME NEW r \in Sessions
      PROVE  /\ \A u : u # t => (u \in Owners(W)'[r] <=> u \in Owners(W)[r])
             /\ t \in Owners(W)'[r] <=>
                   \/ \E i \in 1..(n - 1) : stack[t][i].on = r /\ stack[t][i].op \in W
                   \/ \E j \in 1..Len(k) : k[j].on = r /\ k[j].op \in W
             /\ t \in Owners(W)[r] <=>
                   \/ \E i \in 1..(n - 1) : stack[t][i].on = r /\ stack[t][i].op \in W
                   \/ s = r /\ op \in W
  <2>1. /\ \A u : u # t => (u \in Owners(W)'[r] <=> u \in Owners(W)[r])
        /\ t \in Owners(W)'[r] <=>
              \/ \E i \in 1..(n - 1) : stack[t][i].on = r /\ stack[t][i].op \in W
              \/ \E j \in 1..Len(k) : k[j].on = r /\ k[j].op \in W
        /\ t \in Owners(W)[r] <=>
              \/ \E i \in 1..(n - 1) : stack[t][i].on = r /\ stack[t][i].op \in W
              \/ Len(stack[t]) = n /\ stack[t][n].on = r /\ stack[t][n].op \in W
    BY <1>1, OwnersReplaced
  <2>. QED  BY <1>1, <1>2, <2>1
<1>6. ASSUME NEW r \in Sessions \ {s} PROVE Owners(W)'[r] = Owners(W)[r]
  <2>1. t \in Owners(W)'[r] <=> t \in Owners(W)[r]
    BY <1>5
  <2>. QED  BY <1>5, <2>1, SameMembers
<1>7. ASSUME op \notin P PROVE Owners(W)'[s] = Owners(W)[s]
  <2>1. t \in Owners(W)'[s] <=> t \in Owners(W)[s]
    BY <1>5, <1>7
  <2>. QED  BY <1>5, <2>1, SameMembers
<1>8. ASSUME op \in P
      PROVE  Owners(W)'[s] = (Owners(W)[s] \ {t}) \cup (IF Has(k, W) THEN {t} ELSE {})
  <2>1. t \in Owners(W)'[s] <=> Has(k, W)
    BY <1>4, <1>5, <1>8 DEF Has
  <2>. QED  BY <1>5, <2>1
<1>9. op \in W => t \in Owners(W)[s]
  BY <1>5
<1>10. op \in P \ W => t \notin Owners(W)[s]
  BY <1>4, <1>5
<1>. QED  BY <1>3, <1>6, <1>7, <1>8, <1>9, <1>10

\* Beginning.
LEMMA OwnersBegin ==
    ASSUME StackType, NEW t \in Threads, NEW s \in Sessions,
           NEW k \in Seq(Frames), Begin(t, k), NEW W, NEW P, Lone(W, P), Apart(k, W, P),
           \A j \in 1..Len(k) : k[j].op \in W => k[j].on = s
    PROVE  /\ Lone(W, P)'
           /\ \A r \in Sessions \ {s} : Owners(W)'[r] = Owners(W)[r]
           /\ Owners(W)'[s] = Owners(W)[s] \cup (IF Has(k, W) THEN {t} ELSE {})
<1>1. Replaced(t, 1, k) /\ stack[t] = <<>> /\ Len(stack[t]) = 0
  BY BeginReplaces DEF StackType, Begin, Idle
<1>2. Lone(W, P)'
  BY <1>1, LoneReplaced
<1>3. ASSUME NEW r \in Sessions
      PROVE  /\ \A u : u # t => (u \in Owners(W)'[r] <=> u \in Owners(W)[r])
             /\ t \in Owners(W)'[r] <=> \E j \in 1..Len(k) : k[j].on = r /\ k[j].op \in W
             /\ t \notin Owners(W)[r]
  <2>1. 1 \in Nat /\ 1..(1 - 1) = {}
    OBVIOUS
  <2>2. /\ \A u : u # t => (u \in Owners(W)'[r] <=> u \in Owners(W)[r])
        /\ t \in Owners(W)'[r] <=>
              \/ \E i \in 1..(1 - 1) : stack[t][i].on = r /\ stack[t][i].op \in W
              \/ \E j \in 1..Len(k) : k[j].on = r /\ k[j].op \in W
        /\ t \in Owners(W)[r] <=>
              \/ \E i \in 1..(1 - 1) : stack[t][i].on = r /\ stack[t][i].op \in W
              \/ Len(stack[t]) = 1 /\ stack[t][1].on = r /\ stack[t][1].op \in W
    BY <1>1, <2>1, OwnersReplaced
  <2>. QED  BY <1>1, <2>1, <2>2
<1>4. \A r \in Sessions \ {s} : Owners(W)'[r] = Owners(W)[r]
  <2>1. ASSUME NEW r \in Sessions \ {s} PROVE t \notin Owners(W)'[r]
    BY <1>3
  <2>2. ASSUME NEW r \in Sessions \ {s} PROVE Owners(W)'[r] = Owners(W)[r]
    BY <1>3, <2>1, SameMembers
  <2>. QED  BY <2>2
<1>5. Owners(W)'[s] = Owners(W)[s] \cup (IF Has(k, W) THEN {t} ELSE {})
  <2>1. t \in Owners(W)'[s] <=> Has(k, W)
    BY <1>3 DEF Has
  <2>. QED  BY <1>3, <2>1
<1>. QED  BY <1>2, <1>4, <1>5

------------------------------------------------------------------------------
(* Flags                                                                   *)

\* Flag, posted operations and owners of the other sessions stay.
Beside(s, f, i, o, f2, i2, o2) ==
    \A r \in Sessions \ {s} : (f2[r] <=> f[r]) /\ i2[r] = i[r] /\ o2[r] = o[r]

\* A step that keeps flag, posted operations and owners of every session ...
LEMMA SingleKept ==
    ASSUME NEW f, NEW i, NEW o, NEW f2, NEW i2, NEW o2, Single(f, i, o), NEW s \in Sessions,
           Beside(s, f, i, o, f2, i2, o2),
           (f2[s] <=> f[s]) /\ i2[s] = i[s] /\ o2[s] = o[s]
    PROVE  Single(f2, i2, o2)
BY DEF Single, Beside

\* ... locks the flag for a new owner, ...
LEMMA SingleTaken ==
    ASSUME NEW f, NEW i, NEW o, NEW f2, NEW i2, NEW o2, Single(f, i, o), NEW s \in Sessions, NEW t,
           Beside(s, f, i, o, f2, i2, o2),
           ~f[s], f2[s], i2[s] = i[s], o2[s] = (o[s] \ {t}) \cup {t}
    PROVE  Single(f2, i2, o2)
<1>1. i[s] = 0 /\ o[s] = {}
  BY DEF Single, Beside
<1>. QED  BY <1>1 DEF Single, Beside

\* ... posts the operation or unlocks the flag, ...
LEMMA SingleGiven ==
    ASSUME NEW f, NEW i, NEW o, NEW f2, NEW i2, NEW o2, Single(f, i, o), NEW s \in Sessions,
           NEW t \in o[s],
           Beside(s, f, i, o, f2, i2, o2),
           \/ (f2[s] <=> f[s]) /\ i2[s] = i[s] + 1
           \/ ~f2[s] /\ i2[s] = i[s],
           o2[s] = o[s] \ {t}
    PROVE  Single(f2, i2, o2)
<1>1. i[s] = 0 /\ o[s] = {t} /\ f[s]
  BY DEF Single, Beside
<1>2. o2[s] = {}
  BY <1>1
<1>3. CASE (f2[s] <=> f[s]) /\ i2[s] = i[s] + 1
  <2>1. f2[s] /\ i2[s] = 1
    BY <1>1, <1>3
  <2>. QED  BY <1>2, <2>1 DEF Single, Beside
<1>4. CASE ~f2[s] /\ i2[s] = i[s]
  <2>1. i2[s] = 0
    BY <1>1, <1>4
  <2>. QED  BY <1>2, <2>1 DEF Single, Beside
<1>. QED  BY <1>3, <1>4

\* ... dequeues the operation for an owner, or for none, ...
LEMMA SingleDequeued ==
    ASSUME NEW f, NEW i, NEW o, NEW f2, NEW i2, NEW o2, Single(f, i, o), NEW s \in Sessions, NEW t,
           Beside(s, f, i, o, f2, i2, o2),
           (f2[s] <=> f[s]), i[s] > 0, i2[s] = i[s] - 1, o2[s] = o[s] \cup {t} \/ o2[s] = o[s]
    PROVE  Single(f2, i2, o2)
<1>1. i[s] = 1
  BY DEF Single, Beside
<1>2. f[s] /\ o[s] = {} /\ i2[s] = 0
  BY <1>1 DEF Single, Beside
<1>3. o2[s] = {} \/ o2[s] = {t}
  BY <1>2
<1>4. f2[s] /\ i2[s] = 0
  BY <1>2, Zenon
<1>. QED  BY <1>3, <1>4 DEF Single, Beside

\* ... or finds a session without operation and owners.
LEMMA SingleFresh ==
    ASSUME NEW f, NEW i, NEW o, NEW f2, NEW i2, NEW o2, Single(f, i, o), NEW s \in Sessions,
           Beside(s, f, i, o, f2, i2, o2),
           i2[s] = 0, o2[s] = {}
    PROVE  Single(f2, i2, o2)
BY DEF Single, Beside

------------------------------------------------------------------------------
(* What a step does to a flag and its owners                               *)

\* A handler op of session s goes on with k, keeps its turn with a flag f and
\* the posted operations i, starts it with the flag, or ends it with the
\* unlocked flag or a posted operation.
Turn(op, s, k, W, P, f, i, f2, i2) ==
    /\ Apart(k, W, P)
    /\ \A j \in 1..Len(k) : k[j].op \in P => op \in P /\ k[j].on = s
    /\ \A r \in Sessions \ {s} : (f2[r] <=> f[r]) /\ i2[r] = i[r]
    /\ \/ (f2[s] <=> f[s]) /\ i2[s] = i[s] /\ (op \in W <=> Has(k, W))
       \/ op \in P \ W /\ Has(k, W) /\ ~f[s] /\ f2[s] /\ i2[s] = i[s]
       \/ /\ op \in W /\ ~Has(k, W)
          /\ ((f2[s] <=> f[s]) /\ i2[s] = i[s] + 1) \/ (~f2[s] /\ i2[s] = i[s])

\* A thread begins with k and leaves the flag alone, or dequeues the operation.
Start(s, k, W, P, f, i, f2, i2) ==
    /\ Apart(k, W, P)
    /\ \A j \in 1..Len(k) : k[j].op \in W => k[j].on = s
    /\ \A r \in Sessions \ {s} : (f2[r] <=> f[r]) /\ i2[r] = i[r]
    /\ f2[s] <=> f[s]
    /\ \/ i2[s] = i[s] /\ ~Has(k, W)
       \/ i[s] > 0 /\ i2[s] = i[s] - 1

\* A thread that goes on keeps the flag single.
LEMMA OnceGoesOn ==
    ASSUME StackType, NEW t \in Threads, NEW op, NEW s \in Sessions, At(t, op, s),
           NEW k \in Seq(Frames), Continue(t, k), NEW W, NEW P, W \subseteq P, Lone(W, P),
           NEW f, NEW i, NEW f2, NEW i2, Single(f, i, Owners(W)),
           Turn(op, s, k, W, P, f, i, f2, i2)
    PROVE  Lone(W, P)' /\ Single(f2, i2, Owners(W)')
<1> DEFINE o == Owners(W)
           o2 == Owners(W)'
<1>1. /\ Lone(W, P)'
      /\ \A r \in Sessions \ {s} : o2[r] = o[r]
      /\ op \notin P => o2[s] = o[s]
      /\ op \in P => o2[s] = (o[s] \ {t}) \cup (IF Has(k, W) THEN {t} ELSE {})
      /\ op \in W => t \in o[s]
      /\ op \in P \ W => t \notin o[s]
  BY OwnersGoOn DEF Turn
<1>2. Single(f, i, o)
  OBVIOUS
<1>. HIDE DEF o, o2
<1>a. Beside(s, f, i, o, f2, i2, o2)
  BY <1>1 DEF Turn, Beside
<1>3. CASE (f2[s] <=> f[s]) /\ i2[s] = i[s] /\ (op \in W <=> Has(k, W))
  <2>1. o2[s] = o[s]
    BY <1>1, <1>3
  <2>2. Single(f2, i2, o2)
    BY <1>2, <1>a, <1>3, <2>1, SingleKept
  <2>. QED  BY <1>1, <2>2 DEF o2
<1>4. CASE op \in P \ W /\ Has(k, W) /\ ~f[s] /\ f2[s] /\ i2[s] = i[s]
  <2>1. o2[s] = (o[s] \ {t}) \cup {t}
    BY <1>1, <1>4
  <2>2. Single(f2, i2, o2)
    BY <1>2, <1>a, <1>4, <2>1, SingleTaken
  <2>. QED  BY <1>1, <2>2 DEF o2
<1>5. CASE /\ op \in W /\ ~Has(k, W)
           /\ ((f2[s] <=> f[s]) /\ i2[s] = i[s] + 1) \/ (~f2[s] /\ i2[s] = i[s])
  <2>1. o2[s] = o[s] \ {t} /\ t \in o[s]
    BY <1>1, <1>5
  <2>2. Single(f2, i2, o2)
    BY <1>2, <1>a, <1>5, <2>1, SingleGiven
  <2>. QED  BY <1>1, <2>2 DEF o2
<1>. QED  BY <1>3, <1>4, <1>5 DEF Turn

\* A thread that begins leaves the flag alone, or dequeues the operation.
LEMMA OnceBegins ==
    ASSUME StackType, NEW t \in Threads, NEW s \in Sessions,
           NEW k \in Seq(Frames), Begin(t, k), NEW W, NEW P, Lone(W, P),
           NEW f, NEW i, NEW f2, NEW i2, Single(f, i, Owners(W)), Start(s, k, W, P, f, i, f2, i2)
    PROVE  Lone(W, P)' /\ Single(f2, i2, Owners(W)')
<1> DEFINE o == Owners(W)
           o2 == Owners(W)'
<1>1. /\ Lone(W, P)'
      /\ \A r \in Sessions \ {s} : o2[r] = o[r]
      /\ o2[s] = o[s] \cup (IF Has(k, W) THEN {t} ELSE {})
  BY OwnersBegin DEF Start
<1>2. Single(f, i, o)
  OBVIOUS
<1>. HIDE DEF o, o2
<1>3. o2[s] = o[s] \cup {t} \/ (o2[s] = o[s] /\ ~Has(k, W))
       \/ (Has(k, W) /\ o2[s] = o[s] \cup {t})
  BY <1>1
<1>a. (f2[s] <=> f[s]) /\ Beside(s, f, i, o, f2, i2, o2)
  BY <1>1 DEF Start, Beside
<1>4. CASE i2[s] = i[s] /\ ~Has(k, W)
  <2>1. o2[s] = o[s]
    BY <1>1, <1>4
  <2>2. Single(f2, i2, o2)
    BY <1>2, <1>a, <1>4, <2>1, SingleKept
  <2>. QED  BY <1>1, <2>2 DEF o2
<1>5. CASE i[s] > 0 /\ i2[s] = i[s] - 1
  <2>1. o2[s] = o[s] \cup {t} \/ o2[s] = o[s]
    BY <1>3
  <2>3. i[s] > 0 /\ i2[s] = i[s] - 1
    BY <1>5
  <2>4. Single(f2, i2, o2)
    BY <1>2, <1>a, <2>1, <2>3, SingleDequeued
  <2>. QED  BY <1>1, <2>4 DEF o2
<1>. QED  BY <1>4, <1>5 DEF Start

------------------------------------------------------------------------------
(* Which handler goes on with which                                        *)

\* Continuations with handlers of B for session s.
Only(s, B) == {k \in Seq(Frames) : \A j \in 1..Len(k) : k[j].on = s /\ k[j].op \in B}

\* Handler a goes on with handler b, among others.
LeadsTo(a, b) ==
    \/ a = "Disconnect" /\ b = "ReleaseRef"
    \/ a = "ReleaseRef" /\ b = "AddClosing"
    \/ a \in {"OnAccept", "OnDispatch", "OnClose"} /\ b \in CallbackCalls
    \/ a = "PostRecv" /\ b = "PostRecvLocked"
    \/ a = "PostRecvLocked" /\ b \in {"ReleaseRef", "Disconnect", "UnlockRecv"}
    \/ a = "CompletedRecv" /\ b \in {"UnlockRecv", "Disconnect"}
    \/ a = "PostProcess" /\ b = "TryProc"
    \/ a = "TryProc" /\ b = "PostProcessLocked"
    \/ a = "ProcessCompletion" /\ b \in {"PostProcess", "Disconnect", "UnlockProc",
                                         "ProcessCompletion", "OnDispatch"}
    \/ a = "ProcessPacket" /\ b \in {"ProcessPacket", "Disconnect", "OnDispatch"}
    \/ a = "Send" /\ b = "Flush"
    \/ a = "Flush" /\ b = "TrySend"
    \/ a = "TrySend" /\ b = "SendLocked"
    \/ a = "SendLocked" /\ b \in {"ReleaseRef", "Disconnect", "UnlockSend"}
    \/ a = "CompletedSend" /\ b \in {"Disconnect", "UnlockSend", "Flush"}
Leads(a) == {b \in Ops : LeadsTo(a, b)}

\* Short continuations.
LEMMA OnlyContinuations ==
    ASSUME NEW s \in Sessions, NEW B, B \subseteq Ops
    PROVE  /\ <<>> \in Only(s, B)
           /\ \A a \in B : <<Frame(a, s)>> \in Only(s, B)
           /\ \A a, b \in B : <<Frame(a, s), Frame(b, s)>> \in Only(s, B)
           /\ \A a, b, c \in B : <<Frame(a, s), Frame(b, s), Frame(c, s)>> \in Only(s, B)
           /\ \A a, b, c, d \in B :
                 <<Frame(a, s), Frame(b, s), Frame(c, s), Frame(d, s)>> \in Only(s, B)
<1>1. \A a \in B : Frame(a, s) \in Frames /\ Frame(a, s).op \in B /\ Frame(a, s).on = s
  BY FrameFields
<1>2. ASSUME NEW x \in Frames, NEW y \in Frames, NEW z \in Frames, NEW w \in Frames,
             x.op \in B, y.op \in B, z.op \in B, w.op \in B,
             x.on = s, y.on = s, z.on = s, w.on = s
      PROVE  /\ <<x>> \in Only(s, B) /\ <<x, y>> \in Only(s, B)
             /\ <<x, y, z>> \in Only(s, B) /\ <<x, y, z, w>> \in Only(s, B)
  BY <1>2 DEF Only
<1>3. <<>> \in Only(s, B)
  BY DEF Only
<1>. QED  BY <1>1, <1>2, <1>3

\* The rows of LeadsTo.
LEMMA LeadsAre ==
    /\ \A a : Leads(a) \subseteq Ops
    /\ "ReleaseRef" \in Leads("Disconnect") /\ "AddClosing" \in Leads("ReleaseRef")
    /\ \A a \in {"OnAccept", "OnDispatch", "OnClose"} : CallbackCalls \subseteq Leads(a)
    /\ "PostRecvLocked" \in Leads("PostRecv")
    /\ {"ReleaseRef", "Disconnect", "UnlockRecv"} \subseteq Leads("PostRecvLocked")
    /\ {"UnlockRecv", "Disconnect"} \subseteq Leads("CompletedRecv")
    /\ "TryProc" \in Leads("PostProcess") /\ "PostProcessLocked" \in Leads("TryProc")
    /\ {"PostProcess", "Disconnect", "UnlockProc", "ProcessCompletion", "OnDispatch"}
          \subseteq Leads("ProcessCompletion")
    /\ {"ProcessPacket", "Disconnect", "OnDispatch"} \subseteq Leads("ProcessPacket")
    /\ "Flush" \in Leads("Send") /\ "TrySend" \in Leads("Flush")
    /\ "SendLocked" \in Leads("TrySend")
    /\ {"ReleaseRef", "Disconnect", "UnlockSend"} \subseteq Leads("SendLocked")
    /\ {"Disconnect", "UnlockSend", "Flush"} \subseteq Leads("CompletedSend")
<1>1. CallbackCalls \subseteq Ops
  BY SessionAssumption DEF Ops
<1>2. \A a \in {"OnAccept", "OnDispatch", "OnClose"} : CallbackCalls \subseteq Leads(a)
  BY <1>1 DEF Leads, LeadsTo
<1>3. \A a : Leads(a) \subseteq Ops
  BY DEF Leads
<1>4. "ReleaseRef" \in Leads("Disconnect") /\ "AddClosing" \in Leads("ReleaseRef")
  BY DEF Leads, LeadsTo, Ops, ApiCalls
<1>5. /\ "PostRecvLocked" \in Leads("PostRecv")
      /\ {"ReleaseRef", "Disconnect", "UnlockRecv"} \subseteq Leads("PostRecvLocked")
      /\ {"UnlockRecv", "Disconnect"} \subseteq Leads("CompletedRecv")
  BY DEF Leads, LeadsTo, Ops, ApiCalls
<1>6. /\ "TryProc" \in Leads("PostProcess") /\ "PostProcessLocked" \in Leads("TryProc")
      /\ {"PostProcess", "Disconnect", "UnlockProc", "ProcessCompletion", "OnDispatch"}
            \subseteq Leads("ProcessCompletion")
      /\ {"ProcessPacket", "Disconnect", "OnDispatch"} \subseteq Leads("ProcessPacket")
  BY DEF Leads, LeadsTo, Ops, ApiCalls
<1>7. /\ "Flush" \in Leads("Send") /\ "TrySend" \in Leads("Flush")
      /\ "SendLocked" \in Leads("TrySend")
      /\ {"ReleaseRef", "Disconnect", "UnlockSend"} \subseteq Leads("SendLocked")
      /\ {"Disconnect", "UnlockSend", "Flush"} \subseteq Leads("CompletedSend")
  BY DEF Leads, LeadsTo, Ops, ApiCalls
<1>. QED  BY <1>2, <1>3, <1>4, <1>5, <1>6, <1>7, Zenon

\* Every step goes on with what its handler leads to.
LEMMA StepLeads ==
    ASSUME NEW t \in Threads, NEW s \in Sessions, Run(t, s)
    PROVE  \E op \in Ops : At(t, op, s) /\ \E k \in Only(s, Leads(op)) : Continue(t, k)
<1>0. ASSUME NEW op PROVE
         /\ <<>> \in Only(s, Leads(op))
         /\ \A a \in Leads(op) : <<Frame(a, s)>> \in Only(s, Leads(op))
         /\ \A a, b \in Leads(op) : <<Frame(a, s), Frame(b, s)>> \in Only(s, Leads(op))
         /\ \A a, b, c \in Leads(op) :
               <<Frame(a, s), Frame(b, s), Frame(c, s)>> \in Only(s, Leads(op))
         /\ \A a, b, c, d \in Leads(op) :
               <<Frame(a, s), Frame(b, s), Frame(c, s), Frame(d, s)>> \in Only(s, Leads(op))
  BY OnlyContinuations, LeadsAre
<1>00. {"Disconnect", "Close", "AddClosing", "ReleaseSession", "ReleaseRef", "PostRecv",
       "OnAccept", "OnDispatch", "OnClose",
       "PostRecvLocked", "UnlockRecv", "CompletedRecv", "PostProcess", "TryProc",
       "PostProcessLocked", "ProcessCompletion", "UnlockProc", "ProcessPacket", "Send",
       "SendBuffered", "Flush", "TrySend", "SendLocked", "UnlockSend", "CompletedSend"}
          \subseteq Ops
  BY DEF Ops, ApiCalls
<1>1. CASE Disconnect(t, s)
  BY <1>0, <1>1, <1>00, LeadsAre DEF Disconnect, Return
<1>2. CASE Close(t, s) \/ AddClosing(t, s) \/ ReleaseSession(t, s)
  BY <1>0, <1>2, <1>00 DEF Close, AddClosing, ReleaseSession, Return
<1>3. CASE Callback(t, s)
  <2>1. PICK op \in {"OnAccept", "OnDispatch", "OnClose"} :
           /\ At(t, op, s)
           /\ Return(t) \/ \E call \in CallbackCalls : Continue(t, <<Frame(call, s)>>)
    BY <1>3 DEF Callback
  <2>2. CallbackCalls \subseteq Leads(op) /\ op \in Ops
    BY <1>00, LeadsAre
  <2>. QED  BY <1>0, <2>1, <2>2 DEF Return
<1>4. CASE ReleaseRef(t, s)
  BY <1>0, <1>4, <1>00, LeadsAre DEF ReleaseRef
<1>5. CASE PostRecv(t, s)
  BY <1>0, <1>5, <1>00, LeadsAre DEF PostRecv, Return
<1>6. CASE PostRecvLocked(t, s)
  BY <1>0, <1>6, <1>00, LeadsAre DEF PostRecvLocked, Return, GiveUp
<1>7. CASE UnlockRecv(t, s) \/ UnlockProc(t, s) \/ UnlockSend(t, s) \/ SendBuffered(t, s)
  BY <1>0, <1>7, <1>00 DEF UnlockRecv, UnlockProc, UnlockSend, SendBuffered, Return
<1>8. CASE CompletedRecv(t, s)
  BY <1>0, <1>8, <1>00, LeadsAre DEF CompletedRecv, Return
<1>9. CASE PostProcess(t, s)
  BY <1>0, <1>9, <1>00, LeadsAre DEF PostProcess, Return
<1>10. CASE TryProc(t, s)
  BY <1>0, <1>10, <1>00, LeadsAre DEF TryProc, Return
<1>11. CASE PostProcessLocked(t, s)
  BY <1>0, <1>11, <1>00 DEF PostProcessLocked, Return
<1>12. CASE ProcessCompletion(t, s)
  <2>1. At(t, "ProcessCompletion", s)
    BY <1>12, Zenon DEF ProcessCompletion
  <2>. QED  BY <1>0, <1>12, <1>00, <2>1, CompletionContinues, LeadsAre
<1>13. CASE ProcessPacket(t, s)
  <2>1. /\ At(t, "ProcessPacket", s)
        /\ \/ Continue(t, <<>>)
           \/ \E op \in {"ProcessPacket", "Disconnect"} :
                 Continue(t, <<Frame(op, s), Frame("OnDispatch", s)>>)
    BY <1>13 DEF ProcessPacket, Return
  <2>. QED  BY <1>0, <1>00, <2>1, LeadsAre
<1>14. CASE Send(t, s)
  BY <1>0, <1>14, <1>00, LeadsAre DEF Send, Return
<1>15. CASE Flush(t, s)
  BY <1>0, <1>15, <1>00, LeadsAre DEF Flush, Return
<1>16. CASE TrySend(t, s)
  BY <1>0, <1>16, <1>00, LeadsAre DEF TrySend, Return
<1>17. CASE SendLocked(t, s)
  BY <1>0, <1>17, <1>00, LeadsAre DEF SendLocked, Return, GiveUp
<1>18. CASE CompletedSend(t, s)
  BY <1>0, <1>18, <1>00, LeadsAre DEF CompletedSend, AfterSend
<1>. QED  BY <1>1, <1>2, <1>3, <1>4, <1>5, <1>6, <1>7, <1>8, <1>9, <1>10, <1>11, <1>12,
             <1>13, <1>14, <1>15, <1>16, <1>17, <1>18 DEF Run, SessionStep

\* A thread has one handler on top.
LEMMA OneTop ==
    ASSUME NEW t, NEW a, NEW r, NEW b, NEW s, At(t, a, r), At(t, b, s)
    PROVE  a = b /\ r = s
<1>1. Frame(a, r) = Frame(b, s)
  BY DEF At
<1>2. Frame(a, r).op = a /\ Frame(b, s).op = b /\ Frame(a, r).on = r /\ Frame(b, s).on = s
  BY FrameFields
<1>. QED  BY <1>1, <1>2

\* Turns of short continuations.
LEMMA TurnShapes ==
    ASSUME NEW s \in Sessions, NEW W, NEW P, W \subseteq P,
           NEW a \in W, NEW b, b \notin W, NEW c, c \notin W
    PROVE  /\ Apart(<<>>, W, P) /\ ~Has(<<>>, W)
           /\ Apart(<<Frame(a, s)>>, W, P) /\ Has(<<Frame(a, s)>>, W)
           /\ Apart(<<Frame(b, s)>>, W, P) /\ ~Has(<<Frame(b, s)>>, W)
           /\ Apart(<<Frame(b, s), Frame(a, s)>>, W, P) /\ Has(<<Frame(b, s), Frame(a, s)>>, W)
           /\ Apart(<<Frame(c, s), Frame(b, s), Frame(a, s)>>, W, P)
           /\ Has(<<Frame(c, s), Frame(b, s), Frame(a, s)>>, W)
           /\ b \notin P => Apart(<<Frame(a, s), Frame(b, s)>>, W, P)
           /\ Has(<<Frame(a, s), Frame(b, s)>>, W)
<1> DEFINE x == Frame(a, s)
           y == Frame(b, s)
           z == Frame(c, s)
<1>1. x.op \in W /\ x.op \in P /\ y.op \notin W /\ z.op \notin W /\ y.op = b
  BY FrameFields
<1>. HIDE DEF x, y, z
<1>2. /\ Apart(<<>>, W, P) /\ ~Has(<<>>, W)
      /\ Apart(<<x>>, W, P) /\ Has(<<x>>, W)
      /\ Apart(<<y>>, W, P) /\ ~Has(<<y>>, W)
  BY <1>1 DEF Apart, Has
<1>3. /\ Apart(<<y, x>>, W, P) /\ Has(<<y, x>>, W)
      /\ b \notin P => Apart(<<x, y>>, W, P)
      /\ Has(<<x, y>>, W)
  <2>1. Len(<<y, x>>) = 2 /\ <<y, x>>[1] = y /\ <<y, x>>[2] = x /\ 2 \in 1..2
    OBVIOUS
  <2>2. Len(<<x, y>>) = 2 /\ <<x, y>>[1] = x /\ <<x, y>>[2] = y /\ 1 \in 1..2
    OBVIOUS
  <2>3. \A i, j \in 1..2 : i < j => i = 1 /\ j = 2
    OBVIOUS
  <2>. QED  BY <1>1, <2>1, <2>2, <2>3 DEF Apart, Has
<1>4. Apart(<<z, y, x>>, W, P) /\ Has(<<z, y, x>>, W)
  <2>1. /\ Len(<<z, y, x>>) = 3 /\ <<z, y, x>>[1] = z /\ <<z, y, x>>[2] = y
        /\ <<z, y, x>>[3] = x /\ 3 \in 1..3
    OBVIOUS
  <2>2. \A i, j \in 1..3 : i < j => i = 1 \/ i = 2
    OBVIOUS
  <2>. QED  BY <1>1, <2>1, <2>2 DEF Apart, Has
<1>. QED  BY <1>2, <1>3, <1>4 DEF x, y, z

\* What the handlers that neither receive nor send lead to.
LEMMA PlainLeads ==
    /\ \A a : a \notin RecvOps => Leads(a) \cap RecvOps = {}
    /\ \A a : a \notin SendOps \cup {"Flush"} => Leads(a) \cap SendOps = {}
    /\ \A a : a \notin SendPaths => Leads(a) \cap SendPaths = {}
<1>1. CallbackCalls \subseteq ApiCalls
  BY SessionAssumption
<1>2. \A a : a \notin RecvOps => Leads(a) \cap RecvOps = {}
  BY <1>1 DEF Leads, LeadsTo, RecvOps, RecvTurns, ApiCalls
<1>3. \A a : a \notin SendOps \cup {"Flush"} => Leads(a) \cap SendOps = {}
  BY <1>1 DEF Leads, LeadsTo, SendOps, SendTurns, ApiCalls
<1>4. \A a : a \notin SendPaths => Leads(a) \cap SendPaths = {}
  BY <1>1 DEF Leads, LeadsTo, SendPaths, SendOps, SendTurns, ApiCalls
<1>. QED  BY <1>2, <1>3, <1>4

\* What a thread that goes on leaves behind its handlers: a handler of B comes
\* from one, or has its backing.
LEMMA BackedGoesOn ==
    ASSUME StackType, NEW t \in Threads, NEW op, NEW s \in Sessions, At(t, op, s),
           NEW k \in Seq(Frames), Continue(t, k), NEW B, NEW E, Backed(B, E),
           \A j \in 1..Len(k) : k[j].op \in B =>
              /\ k[j].on = s
              /\ op \in B \/ t \in Allocators \/ Behind(stack[t], Len(stack[t]), E)
    PROVE  Backed(B, E)'
<1> DEFINE n == Len(stack[t])
<1>1. /\ Replaced(t, n, k) /\ n \in Nat /\ n > 0
      /\ stack[t][n].op = op /\ stack[t][n].on = s
  <2>1. stack[t] # <<>> /\ stack[t][n].op = op /\ stack[t][n].on = s
    BY FrameFields DEF At, Top
  <2>. QED  BY <2>1, ContinueReplaces, LenProperties, EmptySeq DEF StackType
<1>2. n = Len(stack[t])
  OBVIOUS
<1>. HIDE DEF n
<1>3. op \in B => t \in Allocators \/ Behind(stack[t], n, E)
  BY <1>1, <1>2 DEF Backed
<1>4. ASSUME NEW j \in 1..Len(k), k[j].op \in B
      PROVE  t \in Allocators \/ \E e \in E : \E i \in 1..(n - 1) : stack[t][i] = Frame(e, k[j].on)
  <2>1. k[j].on = s /\ (t \in Allocators \/ Behind(stack[t], n, E))
    BY <1>2, <1>3, <1>4
  <2>. QED  BY <1>1, <2>1 DEF Behind, Below
<1>. QED  BY <1>1, <1>4, BackedReplaced

\* The same of a thread that begins.
LEMMA BackedBegins ==
    ASSUME StackType, NEW t \in Threads, NEW k \in Seq(Frames), Begin(t, k),
           NEW B, NEW E, Backed(B, E),
           \A j \in 1..Len(k) : k[j].op \in B =>
              t \in Allocators \/ \E e \in E : \E i \in 1..(j - 1) : k[i] = Frame(e, k[j].on)
    PROVE  Backed(B, E)'
BY BeginReplaces, BackedReplaced DEF StackType

------------------------------------------------------------------------------
(* One receive                                                             *)

\* The handlers that leave m_RecvPending and the posted receives alone.
LEMMA OtherThanReceives ==
    ASSUME NEW t \in Threads, NEW s \in Sessions, Run(t, s),
           ~PostRecv(t, s), ~PostRecvLocked(t, s), ~UnlockRecv(t, s), ~CompletedRecv(t, s)
    PROVE  /\ UNCHANGED <<recvPending, recvIO>>
           /\ \E op : op \notin RecvOps /\ At(t, op, s)
<1>1. CASE AddClosing(t, s) \/ ReleaseSession(t, s)
  BY <1>1 DEF AddClosing, ReleaseSession, RecvOps, RecvTurns, flagVars, ioVars
<1>2. CASE Disconnect(t, s) \/ ReleaseRef(t, s) \/ Close(t, s) \/ Callback(t, s)
  <2>1. UNCHANGED <<flagVars, ioVars>>
    BY <1>2 DEF Disconnect, ReleaseRef, Close, Callback
  <2>2. \E op : op \notin RecvOps /\ At(t, op, s)
    BY <1>2 DEF Disconnect, ReleaseRef, Close, Callback, RecvOps, RecvTurns
  <2>. QED  BY <2>1, <2>2 DEF flagVars, ioVars
<1>3. CASE PostProcess(t, s) \/ TryProc(t, s) \/ PostProcessLocked(t, s) \/ UnlockProc(t, s)
  BY <1>3 DEF PostProcess, TryProc, PostProcessLocked, UnlockProc, RecvOps, RecvTurns,
     flagVars, ioVars
<1>4. CASE ProcessCompletion(t, s) \/ ProcessPacket(t, s)
  <2>1. /\ UNCHANGED <<flagVars, ioVars>>
        /\ At(t, "ProcessCompletion", s) \/ At(t, "ProcessPacket", s)
    BY <1>4, Zenon DEF ProcessCompletion, ProcessPacket
  <2>. QED  BY <2>1 DEF RecvOps, RecvTurns, flagVars, ioVars
<1>5. CASE Send(t, s) \/ SendBuffered(t, s) \/ Flush(t, s) \/ TrySend(t, s)
  BY <1>5 DEF Send, SendBuffered, Flush, TrySend, RecvOps, RecvTurns, flagVars, ioVars
<1>6. CASE SendLocked(t, s) \/ UnlockSend(t, s) \/ CompletedSend(t, s)
  BY <1>6 DEF SendLocked, UnlockSend, CompletedSend, RecvOps, RecvTurns, flagVars, ioVars
<1>. QED  BY <1>1, <1>2, <1>3, <1>4, <1>5, <1>6 DEF Run, SessionStep

\* PostRecv and CompletedRecv, and what is left of them: they start a turn with
\* the flag that they lock, go on with it, or end it with a posted receive or
\* with the unlocked flag.
LEMMA ReceiveTurns ==
    ASSUME TypeOK, NEW t \in Threads, NEW s \in Sessions,
           PostRecv(t, s) \/ PostRecvLocked(t, s) \/ UnlockRecv(t, s) \/ CompletedRecv(t, s)
    PROVE  \E op \in RecvOps : \E k \in Only(s, Ops) :
              /\ At(t, op, s) /\ Continue(t, k)
              /\ Turn(op, s, k, RecvTurns, RecvOps, recvPending, recvIO, recvPending', recvIO')
<1> DEFINE W == RecvTurns
           Goal(op, k) ==
              /\ At(t, op, s) /\ Continue(t, k) /\ Apart(k, W, RecvOps)
              /\ \/ (recvPending'[s] <=> recvPending[s]) /\ recvIO'[s] = recvIO[s] /\ (op \in W <=> Has(k, W))
                 \/ /\ op \in RecvOps \ W /\ Has(k, W)
                    /\ ~recvPending[s] /\ recvPending'[s] /\ recvIO'[s] = recvIO[s]
                 \/ /\ op \in W /\ ~Has(k, W)
                    /\ \/ (recvPending'[s] <=> recvPending[s]) /\ recvIO'[s] = recvIO[s] + 1
                       \/ ~recvPending'[s] /\ recvIO'[s] = recvIO[s]
<1> DEFINE none == <<>>
           locked == <<Frame("PostRecvLocked", s)>>
           unlock == <<Frame("UnlockRecv", s)>>
           close == <<Frame("Disconnect", s)>>
           full == <<Frame("UnlockRecv", s), Frame("Disconnect", s)>>
           give == GiveUp(s, "UnlockRecv")
<1>1. /\ none \in Only(s, Ops) /\ locked \in Only(s, Ops) /\ unlock \in Only(s, Ops)
      /\ close \in Only(s, Ops) /\ full \in Only(s, Ops) /\ give \in Only(s, Ops)
  <2>1. {"PostRecvLocked", "UnlockRecv", "Disconnect", "ReleaseRef"} \subseteq Ops
    BY DEF Ops, ApiCalls
  <2>. QED  BY <2>1, OnlyContinuations DEF GiveUp
<1>2. /\ Apart(none, W, RecvOps) /\ ~Has(none, W)
      /\ Apart(locked, W, RecvOps) /\ Has(locked, W)
      /\ Apart(unlock, W, RecvOps) /\ Has(unlock, W)
      /\ Apart(close, W, RecvOps) /\ ~Has(close, W)
      /\ Apart(full, W, RecvOps) /\ Has(full, W)
      /\ Apart(give, W, RecvOps) /\ Has(give, W)
  <2>1. /\ "PostRecvLocked" \in W /\ "UnlockRecv" \in W /\ "Disconnect" \notin W
        /\ "Disconnect" \notin RecvOps /\ "ReleaseRef" \notin W /\ W \subseteq RecvOps
    BY DEF RecvOps, RecvTurns
  <2>. HIDE DEF W
  <2>. QED  BY <2>1, TurnShapes DEF GiveUp
<1>3. /\ "PostRecv" \in RecvOps \ W /\ "PostRecvLocked" \in W /\ "UnlockRecv" \in W
      /\ "CompletedRecv" \in W /\ W \subseteq RecvOps
  BY DEF RecvOps, RecvTurns
<1>4. recvPending \in [Sessions -> BOOLEAN] /\ recvIO \in [Sessions -> Nat]
  BY DEF TypeOK
<1>. HIDE DEF none, locked, unlock, close, full, give
<1>5. ASSUME PostRecv(t, s) PROVE \E op \in RecvOps : \E k \in Only(s, Ops) : Goal(op, k)
  <2>1. /\ At(t, "PostRecv", s) /\ recvPending'[s] /\ recvIO' = recvIO
        /\ IF recvPending[s] THEN Continue(t, none) ELSE Continue(t, locked)
    BY <1>4, <1>5 DEF PostRecv, Return, ioVars, none, locked
  <2>2. recvPending[s] => Goal("PostRecv", none)
    BY <1>2, <1>3, <2>1
  <2>3. ~recvPending[s] => Goal("PostRecv", locked)
    BY <1>2, <1>3, <2>1
  <2>. QED  BY <1>1, <1>3, <2>1, <2>2, <2>3
<1>6. ASSUME PostRecvLocked(t, s) PROVE \E op \in RecvOps : \E k \in Only(s, Ops) : Goal(op, k)
  <2>1. /\ At(t, "PostRecvLocked", s) /\ recvPending' = recvPending
        /\ \/ Continue(t, unlock) /\ recvIO'[s] = recvIO[s]
           \/ Continue(t, none) /\ recvIO'[s] = recvIO[s] + 1
           \/ Continue(t, give) /\ recvIO'[s] = recvIO[s]
    BY <1>4, <1>6 DEF PostRecvLocked, Return, flagVars, none, unlock, give
  <2>2. Continue(t, unlock) /\ recvIO'[s] = recvIO[s] => Goal("PostRecvLocked", unlock)
    BY <1>2, <1>3, <2>1
  <2>3. Continue(t, none) /\ recvIO'[s] = recvIO[s] + 1 => Goal("PostRecvLocked", none)
    BY <1>2, <1>3, <2>1
  <2>4. Continue(t, give) /\ recvIO'[s] = recvIO[s] => Goal("PostRecvLocked", give)
    BY <1>2, <1>3, <2>1
  <2>. QED  BY <1>1, <1>3, <2>1, <2>2, <2>3, <2>4
<1>7. ASSUME UnlockRecv(t, s) PROVE \E op \in RecvOps : \E k \in Only(s, Ops) : Goal(op, k)
  <2>1. /\ At(t, "UnlockRecv", s) /\ ~recvPending'[s] /\ recvIO' = recvIO /\ Continue(t, none)
    BY <1>4, <1>7 DEF UnlockRecv, Return, ioVars, none
  <2>2. Goal("UnlockRecv", none)
    BY <1>2, <1>3, <2>1
  <2>. QED  BY <1>1, <1>3, <2>2
<1>8. ASSUME CompletedRecv(t, s) PROVE \E op \in RecvOps : \E k \in Only(s, Ops) : Goal(op, k)
  <2>1. /\ At(t, "CompletedRecv", s) /\ recvIO' = recvIO
        /\ \/ Continue(t, none) /\ ~recvPending'[s]
           \/ Continue(t, full) /\ recvPending' = recvPending
           \/ Continue(t, close) /\ ~recvPending'[s]
    BY <1>4, <1>8 DEF CompletedRecv, Return, ioVars, none, full, close
  <2>2. Continue(t, none) /\ ~recvPending'[s] => Goal("CompletedRecv", none)
    BY <1>2, <1>3, <2>1
  <2>3. Continue(t, full) /\ recvPending' = recvPending => Goal("CompletedRecv", full)
    BY <1>2, <1>3, <2>1
  <2>4. Continue(t, close) /\ ~recvPending'[s] => Goal("CompletedRecv", close)
    BY <1>2, <1>3, <2>1
  <2>. QED  BY <1>1, <1>3, <2>1, <2>2, <2>3, <2>4
<1>9. PICK op \in RecvOps, k \in Only(s, Ops) : Goal(op, k)
  BY <1>5, <1>6, <1>7, <1>8
<1>10. \A r \in Sessions \ {s} : recvPending'[r] = recvPending[r] /\ recvIO'[r] = recvIO[r]
  BY <1>4 DEF PostRecv, PostRecvLocked, UnlockRecv, CompletedRecv, flagVars, ioVars
<1>11. \A j \in 1..Len(k) : k[j].on = s
  BY DEF Only
<1>12. Turn(op, s, k, RecvTurns, RecvOps, recvPending, recvIO, recvPending', recvIO')
  BY <1>9, <1>10, <1>11 DEF Turn
<1>. QED  BY <1>9, <1>12

\* Every handler keeps the receives single.
LEMMA RunReceives ==
    ASSUME HInv, RecvOnce, NEW t \in Threads, NEW s \in Sessions, Run(t, s)
    PROVE  RecvOnce'
<1>0. StackType /\ TypeOK
  BY StackFacts
<1>1. /\ Single(recvPending, recvIO, Owners(RecvTurns))
      /\ Lone(RecvTurns, RecvOps) /\ Backed(RecvOps, {"ReleaseRef"})
      /\ RecvTurns \subseteq RecvOps
  BY DEF RecvOnce, RecvOps
<1>2. CASE PostRecv(t, s) \/ PostRecvLocked(t, s) \/ UnlockRecv(t, s) \/ CompletedRecv(t, s)
  <2>1. PICK op \in RecvOps, k \in Only(s, Ops) :
           /\ At(t, op, s) /\ Continue(t, k)
           /\ Turn(op, s, k, RecvTurns, RecvOps, recvPending, recvIO, recvPending', recvIO')
    BY <1>0, <1>2, ReceiveTurns
  <2>2. k \in Seq(Frames) /\ \A j \in 1..Len(k) : k[j].on = s
    BY DEF Only
  <2>4. Lone(RecvTurns, RecvOps)' /\ Single(recvPending', recvIO', Owners(RecvTurns)')
    BY <1>0, <1>1, <2>1, <2>2, OnceGoesOn
  <2>5. Backed(RecvOps, {"ReleaseRef"})'
    BY <1>0, <1>1, <2>1, <2>2, BackedGoesOn
  <2>. QED  BY <2>4, <2>5 DEF RecvOnce
<1>3. CASE ~PostRecv(t, s) /\ ~PostRecvLocked(t, s) /\ ~UnlockRecv(t, s) /\ ~CompletedRecv(t, s)
  <2>1. /\ UNCHANGED <<recvPending, recvIO>>
        /\ \E op : op \notin RecvOps /\ At(t, op, s)
    BY <1>3, OtherThanReceives
  <2>2. PICK op : op \notin RecvOps /\ At(t, op, s)
    BY <2>1
  <2>3. PICK k \in Only(s, Leads(op)) : Continue(t, k)
    BY <2>2, StepLeads, OneTop
  <2>4. k \in Seq(Frames) /\ \A j \in 1..Len(k) : k[j].op \notin RecvOps
    BY <2>2, PlainLeads DEF Only
  <2>5. Turn(op, s, k, RecvTurns, RecvOps, recvPending, recvIO, recvPending', recvIO')
    <3>1. Apart(k, RecvTurns, RecvOps) /\ ~Has(k, RecvTurns) /\ op \notin RecvTurns
      BY <1>1, <2>2, <2>4 DEF Apart, Has
    <3>. QED  BY <2>1, <2>4, <3>1 DEF Turn
  <2>6. Lone(RecvTurns, RecvOps)' /\ Single(recvPending', recvIO', Owners(RecvTurns)')
    BY <1>0, <1>1, <2>2, <2>3, <2>4, <2>5, OnceGoesOn
  <2>7. Backed(RecvOps, {"ReleaseRef"})'
    BY <1>0, <1>1, <2>2, <2>3, <2>4, BackedGoesOn
  <2>. QED  BY <2>6, <2>7 DEF RecvOnce
<1>. QED  BY <1>2, <1>3

\* What the workers start with, as literals.
LEMMA OnRecvIs ==
    ASSUME NEW s \in Sessions
    PROVE  \/ OnRecv(s) = <<Frame("ReleaseRef", s), Frame("PostRecv", s), Frame("PostProcess", s),
                            Frame("CompletedRecv", s)>>
           \/ OnRecv(s) = <<Frame("ReleaseRef", s), Frame("PostRecv", s),
                            Frame("CompletedRecv", s)>>
<1> DEFINE F(op) == Frame(op, s)
<1>1. \A op \in Ops : F(op) \in Frames
  BY FrameFields
<1>2. {"ReleaseRef", "PostRecv", "PostProcess", "CompletedRecv"} \subseteq Ops
  BY DEF Ops
<1>3. CASE OwnMode
  <2>1. \A x, y, z, w \in Frames : <<x, y>> \o <<z>> \o <<w>> = <<x, y, z, w>>
    <3> TAKE x, y, z, w \in Frames
    <3>1. <<x, y>> \o <<z>> = <<x, y, z>>
      BY JoinOne, Zenon
    <3>2. <<x, y, z>> \o <<w>> = <<x, y, z, w>>
      BY JoinOne, Zenon
    <3>. QED  BY <3>1, <3>2, Zenon
  <2>2. OnRecv(s) = <<F("ReleaseRef"), F("PostRecv")>> \o <<F("PostProcess")>>
                        \o <<F("CompletedRecv")>>
    BY <1>3, Zenon DEF OnRecv
  <2>3. OnRecv(s) = <<F("ReleaseRef"), F("PostRecv"), F("PostProcess"), F("CompletedRecv")>>
    <3>. HIDE DEF F
    <3>. QED  BY <1>1, <1>2, <2>1, <2>2
  <2>. QED  BY <2>3
<1>4. CASE ~OwnMode
  <2>1. \A x, y, z \in Frames : <<x, y>> \o <<>> \o <<z>> = <<x, y, z>>
    BY Joins, Zenon
  <2>2. OnRecv(s) = <<F("ReleaseRef"), F("PostRecv")>> \o <<>> \o <<F("CompletedRecv")>>
    BY <1>4, Zenon DEF OnRecv
  <2>3. OnRecv(s) = <<F("ReleaseRef"), F("PostRecv"), F("CompletedRecv")>>
    <3>. HIDE DEF F
    <3>. QED  BY <1>1, <1>2, <2>1, <2>2
  <2>. QED  BY <2>3
<1>. QED  BY <1>3, <1>4

\* Threads that begin with a reference to give back: every other handler of the
\* same session is backed.
LEMMA WorkersBacked ==
    ASSUME NEW s \in Sessions, NEW b \in Ops
    PROVE  /\ OnRecv(s) \in Only(s, Ops)
           /\ <<Frame("ReleaseRef", s), Frame(b, s)>> \in Only(s, Ops)
           /\ \A j \in 2..Len(OnRecv(s)) : 1 \in 1..(j - 1) /\ OnRecv(s)[1] = Frame("ReleaseRef", s)
           /\ OnRecv(s)[1].op = "ReleaseRef"
           /\ Apart(OnRecv(s), RecvTurns, RecvOps)
           /\ \A j \in 1..Len(OnRecv(s)) : OnRecv(s)[j].op \in
                  {"ReleaseRef", "PostRecv", "PostProcess", "CompletedRecv"}
<1>1. {"ReleaseRef", "PostRecv", "PostProcess", "CompletedRecv"} \subseteq Ops
  BY DEF Ops
<1>2. OnRecv(s) \in Only(s, Ops) /\ <<Frame("ReleaseRef", s), Frame(b, s)>> \in Only(s, Ops)
  BY <1>1, OnRecvIs, OnlyContinuations
<1> DEFINE e == Frame("ReleaseRef", s)
           p == Frame("PostRecv", s)
           m == Frame("PostProcess", s)
           c == Frame("CompletedRecv", s)
<1>3. /\ e.op = "ReleaseRef" /\ p.op = "PostRecv" /\ m.op = "PostProcess" /\ c.op = "CompletedRecv"
      /\ OnRecv(s) = <<e, p, m, c>> \/ OnRecv(s) = <<e, p, c>>
  BY OnRecvIs, FrameFields
<1>. HIDE DEF e, p, m, c
<1>4. CASE OnRecv(s) = <<e, p, m, c>>
  <2>1. /\ Len(OnRecv(s)) = 4 /\ OnRecv(s)[1] = e /\ OnRecv(s)[2] = p
        /\ OnRecv(s)[3] = m /\ OnRecv(s)[4] = c
    BY <1>4
  <2>2. Apart(OnRecv(s), RecvTurns, RecvOps)
    BY <1>3, <2>1 DEF Apart, RecvTurns, RecvOps
  <2>. QED  BY <1>2, <1>3, <2>1, <2>2 DEF e
<1>5. CASE OnRecv(s) = <<e, p, c>>
  <2>1. /\ Len(OnRecv(s)) = 3 /\ OnRecv(s)[1] = e /\ OnRecv(s)[2] = p /\ OnRecv(s)[3] = c
    BY <1>5
  <2>2. Apart(OnRecv(s), RecvTurns, RecvOps)
    BY <1>3, <2>1 DEF Apart, RecvTurns, RecvOps
  <2>. QED  BY <1>2, <1>3, <2>1, <2>2 DEF e
<1>. QED  BY <1>3, <1>4, <1>5

\* The only allocator finds a session on which nothing is posted and nobody
\* gives back a reference.
LEMMA AllocateFresh ==
    ASSUME HInv, \A t, u \in Allocators : t = u,
           NEW t \in Allocators, NEW s \in Sessions, AllocateSession(t, s)
    PROVE  /\ recvIO'[s] = 0 /\ sendIO'[s] = 0
           /\ \A W, B : W \subseteq B /\ Backed(B, {"ReleaseRef"}) => Owners(W)[s] = {}
<1>0. StackType /\ TypeOK /\ IInv /\ t \in Threads
  BY StackFacts, NetworkAssumption
<1>1. s \notin active
  <2>1. /\ freeList \in Seq(Sessions) /\ freeList # <<>> /\ s = Head(freeList)
        /\ {freeList[i] : i \in DOMAIN freeList} = Sessions \ active
    BY <1>0 DEF AllocateSession, TypeOK, IInv, FreeListed
  <2>2. 1 \in DOMAIN freeList /\ freeList[1] = s
    BY <2>1, EmptySeq, LenProperties
  <2>. QED  BY <2>1, <2>2
<1>2. Held(s) = 0 /\ Waiting(RefFrame(s)) = 0
  <2>1. /\ refCount[s] = 0 /\ Held(s) \in Nat /\ Waiting(RefFrame(s)) \in Nat
        /\ refCount[s] = Held(s) + Waiting(RefFrame(s))
    BY <1>0, <1>1, SessionFacts
  <2>. QED  BY <2>1
<1>3. recvIO[s] = 0 /\ sendIO[s] = 0
  <2>1. recvIO[s] \in Nat /\ sendIO[s] \in Nat /\ procQ[s] \in Nat
    BY <1>0, CountTypes
  <2>. QED  BY <1>2, <2>1 DEF Held
<1>4. recvIO' = recvIO /\ sendIO' = sendIO /\ stack[t] = <<>>
  BY DEF AllocateSession, Begin, Idle, ioVars
<1>5. ASSUME NEW W, NEW B, W \subseteq B, Backed(B, {"ReleaseRef"}), NEW u \in Owners(W)[s]
      PROVE  FALSE
  <2>1. PICK j \in 1..Len(stack[u]) : u \in Threads /\ stack[u][j].on = s /\ stack[u][j].op \in W
    BY <1>5, OwnersAre
  <2>2. u \in Allocators \/ Below(stack[u], j, "ReleaseRef")
    BY <1>5, <2>1 DEF Backed, Behind
  <2>3. u \notin Allocators
    <3>1. Len(stack[t]) = 0
      BY <1>4
    <3>. QED  BY <2>1, <3>1
  <2>4. PICK i \in 1..(j - 1) : stack[u][i] = RefFrame(s)
    BY <2>1, <2>2, <2>3 DEF Below, RefFrame
  <2>5. i \in 1..Len(stack[u])
    BY <2>1, <2>4, LenProperties, <1>0 DEF StackType
  <2>6. Waiting(RefFrame(s)) > 0
    BY <1>0, <2>1, <2>4, <2>5, OnStackWaits
  <2>. QED  BY <1>2, <2>6
<1>6. ASSUME NEW W, NEW B, W \subseteq B, Backed(B, {"ReleaseRef"})
      PROVE  Owners(W)[s] = {}
  <2>1. \A u : u \notin Owners(W)[s]
    BY <1>5, <1>6
  <2>. QED  BY <2>1
<1>. QED  BY <1>3, <1>4, <1>6

\* A new incarnation has no receive, and its PostRecv waits on the allocator.
LEMMA AllocateReceives ==
    ASSUME HInv, RecvOnce, \A t, u \in Allocators : t = u,
           NEW t \in Allocators, NEW s \in Sessions, AllocateSession(t, s)
    PROVE  RecvOnce'
<1> DEFINE k == <<Frame("PostRecv", s), Frame("OnAccept", s)>>
           o == Owners(RecvTurns)
           o2 == Owners(RecvTurns)'
<1>0. StackType /\ TypeOK /\ t \in Threads
  BY StackFacts, NetworkAssumption
<1>1. /\ Single(recvPending, recvIO, o)
      /\ Lone(RecvTurns, RecvOps) /\ Backed(RecvOps, {"ReleaseRef"})
      /\ RecvTurns \subseteq RecvOps
  BY DEF RecvOnce, RecvOps
<1>2. Begin(t, k) /\ k \in Seq(Frames)
  BY DullContinuations, UnmarkedOps DEF AllocateSession, Dull
<1>3. Apart(k, RecvTurns, RecvOps) /\ ~Has(k, RecvTurns)
  <2>1. Len(k) = 2 /\ k[1].op = "PostRecv" /\ k[2].op = "OnAccept"
    BY FrameFields
  <2>. HIDE DEF k
  <2>. QED  BY <2>1 DEF Apart, Has, RecvTurns
<1>. HIDE DEF k
<1>4. /\ Lone(RecvTurns, RecvOps)'
      /\ \A r \in Sessions \ {s} : o2[r] = o[r]
      /\ o2[s] = o[s] \cup (IF Has(k, RecvTurns) THEN {t} ELSE {})
  <2>1. \A j \in 1..Len(k) : k[j].op \in RecvTurns => k[j].on = s
    BY <1>3 DEF Has
  <2>. QED  BY <1>0, <1>1, <1>2, <1>3, <2>1, OwnersBegin
<1>5. recvIO'[s] = 0 /\ o[s] = {}
  BY <1>1, AllocateFresh
<1>6. \A r \in Sessions \ {s} : (recvPending'[r] <=> recvPending[r]) /\ recvIO'[r] = recvIO[r]
  BY <1>0 DEF AllocateSession, Attach, flagVars, ioVars, TypeOK
<1>. HIDE DEF o, o2
<1>7. Beside(s, recvPending, recvIO, o, recvPending', recvIO', o2)
  BY <1>4, <1>6 DEF Beside
<1>8. o2[s] = {}
  BY <1>3, <1>4, <1>5
<1>9. Single(recvPending', recvIO', o2)
  BY <1>1, <1>5, <1>7, <1>8, SingleFresh
<1>10. Backed(RecvOps, {"ReleaseRef"})'
  BY <1>0, <1>1, <1>2, BackedBegins
<1>. QED  BY <1>4, <1>9, <1>10 DEF RecvOnce, o2

\* A worker takes the receive for its turn, or begins something else.
LEMMA WorkersReceive ==
    ASSUME HInv, RecvOnce, NEW t \in Threads, NEW s \in Sessions,
           IoDequeue(t, s) \/ DequeueProcess(t, s) \/ AppCall(t, s)
    PROVE  RecvOnce'
<1>0. StackType /\ TypeOK
  BY StackFacts
<1>1. /\ Single(recvPending, recvIO, Owners(RecvTurns))
      /\ Lone(RecvTurns, RecvOps) /\ Backed(RecvOps, {"ReleaseRef"})
      /\ RecvTurns \subseteq RecvOps
  BY DEF RecvOnce, RecvOps
<1>2. PICK k \in Only(s, Ops) :
         /\ Begin(t, k) /\ Apart(k, RecvTurns, RecvOps)
         /\ \/ recvIO'[s] = recvIO[s] /\ ~Has(k, RecvOps)
            \/ recvIO[s] > 0 /\ recvIO'[s] = recvIO[s] - 1
         /\ \A j \in 1..Len(k) : k[j].op \in RecvOps =>
               1 \in 1..(j - 1) /\ k[1] = Frame("ReleaseRef", s)
  <2>0. recvIO \in [Sessions -> Nat]
    BY <1>0 DEF TypeOK
  <2>a. ASSUME NEW k \in Only(s, Ops), ~Has(k, RecvOps)
        PROVE  /\ Apart(k, RecvTurns, RecvOps)
               /\ \A j \in 1..Len(k) : k[j].op \in RecvOps =>
                     1 \in 1..(j - 1) /\ k[1] = Frame("ReleaseRef", s)
    BY <2>a DEF Apart, Has
  <2>b. \A b \in Ops \ RecvOps : ~Has(<<Frame("ReleaseRef", s), Frame(b, s)>>, RecvOps)
    <3>1. ASSUME NEW x, NEW y, x.op \notin RecvOps, y.op \notin RecvOps
          PROVE  ~Has(<<x, y>>, RecvOps)
      BY <3>1 DEF Has
    <3>2. "ReleaseRef" \notin RecvOps
      BY DEF RecvOps, RecvTurns
    <3>. QED  BY <3>1, <3>2, FrameFields
  <2>c. {"Disconnect", "CompletedSend", "ProcessCompletion"} \subseteq Ops \ RecvOps
    BY DEF Ops, ApiCalls, RecvOps, RecvTurns
  <2>1. CASE DequeueRecv(t, s)
    <3>1. recvIO[s] > 0 /\ recvIO'[s] = recvIO[s] - 1 /\ Begin(t, OnRecv(s))
      BY <1>0, <2>0, <2>1, Queued DEF DequeueRecv
    <3>2. \A j \in 1..Len(OnRecv(s)) : OnRecv(s)[j].op \in RecvOps => j \in 2..Len(OnRecv(s))
      <4>1. OnRecv(s)[1].op = "ReleaseRef" /\ "ReleaseRef" \notin RecvOps
        BY <2>c, WorkersBacked DEF RecvOps, RecvTurns
      <4>. QED  BY <4>1
    <3>. QED  BY <2>c, <3>1, <3>2, WorkersBacked
  <2>2. CASE DequeueSend(t, s) \/ DequeueFailed(t, s) \/ DequeueProcess(t, s)
    <3>1. PICK b \in {"Disconnect", "CompletedSend", "ProcessCompletion"} :
             /\ Begin(t, <<Frame("ReleaseRef", s), Frame(b, s)>>)
             /\ recvIO'[s] = recvIO[s] \/ (recvIO[s] > 0 /\ recvIO'[s] = recvIO[s] - 1)
      BY <1>0, <2>0, <2>2, Queued DEF DequeueSend, DequeueFailed, DequeueProcess
    <3> DEFINE k == <<Frame("ReleaseRef", s), Frame(b, s)>>
    <3>2. k \in Only(s, Ops) /\ ~Has(k, RecvOps)
      BY <2>b, <2>c, WorkersBacked
    <3>. HIDE DEF k
    <3>3. Begin(t, k)
      BY <3>1 DEF k
    <3>. QED  BY <2>a, <3>1, <3>2, <3>3
  <2>3. CASE AppCall(t, s)
    <3>1. PICK call \in AppCalls : Begin(t, <<Frame(call, s)>>)
      BY <2>3 DEF AppCall
    <3>2. call \in Ops \ RecvOps
      BY NetworkAssumption DEF Ops, ApiCalls, RecvOps, RecvTurns
    <3> DEFINE k == <<Frame(call, s)>>
    <3>3. k \in Only(s, Ops)
      BY <3>2, OnlyContinuations
    <3>4. ~Has(k, RecvOps)
      <4>1. Len(k) = 1 /\ k[1].op \notin RecvOps
        BY <3>2, FrameFields
      <4>. HIDE DEF k
      <4>. QED  BY <4>1 DEF Has
    <3>5. recvIO' = recvIO
      BY <2>3 DEF AppCall, ioVars
    <3>. QED  BY <2>a, <3>1, <3>3, <3>4, <3>5
  <2>. QED  BY <2>1, <2>2, <2>3 DEF IoDequeue
<1>3. k \in Seq(Frames) /\ \A j \in 1..Len(k) : k[j].on = s
  BY DEF Only
<1>4. Start(s, k, RecvTurns, RecvOps, recvPending, recvIO, recvPending', recvIO')
  <2>1. /\ recvPending' = recvPending
        /\ \A r \in Sessions \ {s} : recvIO'[r] = recvIO[r]
    BY <1>0 DEF IoDequeue, DequeueRecv, DequeueSend, DequeueFailed, DequeueProcess, AppCall,
       flagVars, ioVars, TypeOK
  <2>2. ~Has(k, RecvOps) => ~Has(k, RecvTurns)
    BY <1>1 DEF Has
  <2>. QED  BY <1>2, <1>3, <2>1, <2>2 DEF Start
<1>5. Lone(RecvTurns, RecvOps)' /\ Single(recvPending', recvIO', Owners(RecvTurns)')
  BY <1>0, <1>1, <1>2, <1>3, <1>4, OnceBegins
<1>6. Backed(RecvOps, {"ReleaseRef"})'
  <2>1. ASSUME NEW j \in 1..Len(k), k[j].op \in RecvOps
        PROVE  \E e \in {"ReleaseRef"} : \E i \in 1..(j - 1) : k[i] = Frame(e, k[j].on)
    BY <1>2, <1>3, <2>1
  <2>. QED  BY <1>0, <1>1, <1>2, <1>3, <2>1, BackedBegins
<1>. QED  BY <1>5, <1>6 DEF RecvOnce

\* The closing thread takes a session.
LEMMA TakeReceives ==
    ASSUME HInv, RecvOnce, NEW s \in Sessions, TakeClosing(s)
    PROVE  RecvOnce'
<1> DEFINE k == <<Frame("ReleaseSession", s), Frame("Close", s), Frame("OnClose", s)>>
<1>0. StackType /\ ClosingThread \in Threads
  BY StackFacts, NetworkAssumption
<1>1. /\ Single(recvPending, recvIO, Owners(RecvTurns))
      /\ Lone(RecvTurns, RecvOps) /\ Backed(RecvOps, {"ReleaseRef"})
      /\ RecvTurns \subseteq RecvOps
  BY DEF RecvOnce, RecvOps
<1>2. Begin(ClosingThread, k) /\ k \in Seq(Frames)
  BY StartShapes DEF TakeClosing
<1>3. \A j \in 1..Len(k) : k[j].op \notin RecvOps
  <2>1. Len(k) = 3 /\ k[1].op = "ReleaseSession" /\ k[2].op = "Close" /\ k[3].op = "OnClose"
    BY FrameFields
  <2>. HIDE DEF k
  <2>. QED  BY <2>1 DEF RecvOps, RecvTurns
<1>4. recvPending' = recvPending /\ recvIO' = recvIO
  BY DEF TakeClosing, flagVars, ioVars
<1>. HIDE DEF k
<1>5. Start(s, k, RecvTurns, RecvOps, recvPending, recvIO, recvPending', recvIO')
  BY <1>1, <1>3, <1>4 DEF Start, Apart, Has
<1>6. Lone(RecvTurns, RecvOps)' /\ Single(recvPending', recvIO', Owners(RecvTurns)')
  BY <1>0, <1>1, <1>2, <1>5, OnceBegins
<1>7. Backed(RecvOps, {"ReleaseRef"})'
  BY <1>0, <1>1, <1>2, <1>3, BackedBegins
<1>. QED  BY <1>6, <1>7 DEF RecvOnce

\* Initially nothing is posted and nobody runs anything.
LEMMA InitReceives == Init => RecvOnce
<1> SUFFICES ASSUME Init PROVE RecvOnce
  OBVIOUS
<1>1. /\ \A s \in Sessions : recvIO[s] = 0
      /\ \A t \in Threads : stack[t] = <<>>
  BY DEF Init, SessionInit
<1>2. \A t \in Threads : Len(stack[t]) = 0
  BY <1>1
<1>3. \A s \in Sessions : Owners(RecvTurns)[s] = {}
  <2>1. ASSUME NEW s \in Sessions, NEW u \in Owners(RecvTurns)[s] PROVE FALSE
    BY <1>2, <2>1, OwnersAre
  <2>. QED  BY <2>1
<1>4. Single(recvPending, recvIO, Owners(RecvTurns))
  BY <1>1, <1>3 DEF Single
<1>5. Lone(RecvTurns, RecvOps) /\ Backed(RecvOps, {"ReleaseRef"})
  BY <1>2 DEF Lone, Apart, Backed
<1>. QED  BY <1>4, <1>5 DEF RecvOnce

\* Every step keeps the receives single.
LEMMA NextReceives ==
    ASSUME \A t, u \in Allocators : t = u, HInv, RecvOnce, [Next]_vars
    PROVE  RecvOnce'
<1>1. ASSUME UNCHANGED sessionVars PROVE RecvOnce'
  <2>1. UNCHANGED <<stack, recvPending, recvIO>>
    BY <1>1 DEF sessionVars, flagVars, ioVars
  <2>2. Owners(RecvTurns)' = Owners(RecvTurns)
    BY <2>1 DEF Owners
  <2>3. /\ Lone(RecvTurns, RecvOps)' <=> Lone(RecvTurns, RecvOps)
        /\ Backed(RecvOps, {"ReleaseRef"})' <=> Backed(RecvOps, {"ReleaseRef"})
    BY <2>1 DEF Lone, Backed
  <2>. QED  BY <2>1, <2>2, <2>3 DEF RecvOnce
<1>2. ASSUME NEW s \in Sessions, NEW t \in Threads, Run(t, s) PROVE RecvOnce'
  BY <1>2, RunReceives
<1>3. ASSUME NEW s \in Sessions, NEW t \in Allocators, AllocateSession(t, s) PROVE RecvOnce'
  BY <1>3, AllocateReceives
<1>4. ASSUME NEW s \in Sessions, NEW t \in Threads,
             IoDequeue(t, s) \/ DequeueProcess(t, s) \/ AppCall(t, s)
      PROVE  RecvOnce'
  BY <1>4, WorkersReceive
<1>5. ASSUME NEW s \in Sessions, TakeClosing(s) PROVE RecvOnce'
  BY <1>5, TakeReceives
<1>6. ASSUME NEW s \in Sessions, (\E t \in Allocators : Associate(t, s)) \/ CompleteUnqueued(s)
      PROVE  UNCHANGED sessionVars
  BY <1>6, PortSteps
<1>. QED  BY <1>1, <1>2, <1>3, <1>4, <1>5, <1>6, NetworkAssumption DEF Next, vars

\* With one thread that allocates sessions, at most one receive of a session is
\* posted: PostRecv locks m_RecvPending, which is unlocked by the completion of
\* the receive that it posted, or by itself when it has posted none, and no
\* PostRecv outlives its incarnation.
THEOREM ReceivesOnce ==
    ASSUME \A t, u \in Allocators : t = u
    PROVE  Spec => []OneRecv
<1>1. Init => HInv /\ RecvOnce
  BY InitHInv, InitReceives
<1>2. HInv /\ RecvOnce /\ [Next]_vars => (HInv /\ RecvOnce)'
  BY NextHInv, NextReceives
<1>3. RecvOnce => OneRecv
  <2>1. SUFFICES ASSUME RecvOnce, NEW s \in Sessions PROVE recvIO[s] <= 1
    BY DEF OneRecv
  <2>2. recvIO[s] = 0 \/ recvIO[s] = 1
    BY <2>1 DEF RecvOnce, Single
  <2>. QED  BY <2>2
<1>. QED  BY <1>1, <1>2, <1>3, PTL DEF Spec

------------------------------------------------------------------------------
(* One send                                                                *)

\* What the application does not do: PostSend from a thread without a reference.
SendersHold == AppThreads = {} \/ AppCalls \subseteq {"Disconnect", "SendBuffered"}

\* The parts of the invariant.
LEMMA SendOnceParts ==
    ASSUME SendOnce
    PROVE  /\ Single(sendPending, sendIO, Owners(SendTurns))
           /\ Lone(SendTurns, Ops) /\ Backed(SendOps, {"ReleaseRef"})
           /\ Backed(SendPaths, {"ReleaseRef", "ReleaseSession"})
           /\ SendTurns \subseteq Ops /\ SendTurns \subseteq SendOps /\ SendOps \subseteq SendPaths
           /\ SendOps \subseteq Ops
BY DEF SendOnce, SendPaths, SendOps, SendTurns, Ops

\* The handlers that leave m_SendPending and the posted sends alone.
LEMMA OtherThanSends ==
    ASSUME NEW t \in Threads, NEW s \in Sessions, Run(t, s),
           ~TrySend(t, s), ~SendLocked(t, s), ~UnlockSend(t, s), ~CompletedSend(t, s)
    PROVE  /\ UNCHANGED <<sendPending, sendIO>>
           /\ \E op : /\ op \notin SendOps /\ At(t, op, s)
                      /\ op = "Flush" => Flush(t, s)
<1>1. CASE AddClosing(t, s) \/ ReleaseSession(t, s)
  BY <1>1 DEF AddClosing, ReleaseSession, SendOps, SendTurns, flagVars, ioVars
<1>2. CASE Disconnect(t, s) \/ ReleaseRef(t, s) \/ Close(t, s) \/ Callback(t, s)
  <2>1. UNCHANGED <<flagVars, ioVars>>
    BY <1>2 DEF Disconnect, ReleaseRef, Close, Callback
  <2>2. \E op : op \notin SendOps /\ At(t, op, s) /\ op # "Flush"
    BY <1>2 DEF Disconnect, ReleaseRef, Close, Callback, SendOps, SendTurns
  <2>. QED  BY <2>1, <2>2 DEF flagVars, ioVars
<1>3. CASE PostProcess(t, s) \/ TryProc(t, s) \/ PostProcessLocked(t, s) \/ UnlockProc(t, s)
  BY <1>3 DEF PostProcess, TryProc, PostProcessLocked, UnlockProc, SendOps, SendTurns,
     flagVars, ioVars
<1>4. CASE ProcessCompletion(t, s) \/ ProcessPacket(t, s)
  <2>1. /\ UNCHANGED <<flagVars, ioVars>>
        /\ At(t, "ProcessCompletion", s) \/ At(t, "ProcessPacket", s)
    BY <1>4, Zenon DEF ProcessCompletion, ProcessPacket
  <2>. QED  BY <2>1 DEF SendOps, SendTurns, flagVars, ioVars
<1>5. CASE Send(t, s) \/ SendBuffered(t, s) \/ Flush(t, s)
  BY <1>5 DEF Send, SendBuffered, Flush, SendOps, SendTurns, flagVars, ioVars
<1>6. CASE PostRecv(t, s) \/ PostRecvLocked(t, s) \/ UnlockRecv(t, s) \/ CompletedRecv(t, s)
  BY <1>6 DEF PostRecv, PostRecvLocked, UnlockRecv, CompletedRecv, SendOps, SendTurns,
     flagVars, ioVars
<1>. QED  BY <1>1, <1>2, <1>3, <1>4, <1>5, <1>6 DEF Run, SessionStep

\* PostSend() and CompletedSend, and what is left of them: they start a turn with
\* the flag that they lock, go on with it, or end it with a posted send or with
\* the unlocked flag.
LEMMA SendingTurns ==
    ASSUME TypeOK, NEW t \in Threads, NEW s \in Sessions,
           TrySend(t, s) \/ SendLocked(t, s) \/ UnlockSend(t, s) \/ CompletedSend(t, s)
    PROVE  \E op \in SendOps : \E k \in Only(s, Ops) :
              /\ At(t, op, s) /\ Continue(t, k)
              /\ Turn(op, s, k, SendTurns, Ops, sendPending, sendIO, sendPending', sendIO')
<1> DEFINE W == SendTurns
           Goal(op, k) ==
              /\ At(t, op, s) /\ Continue(t, k) /\ Apart(k, W, Ops)
              /\ \/ (sendPending'[s] <=> sendPending[s]) /\ sendIO'[s] = sendIO[s] /\ (op \in W <=> Has(k, W))
                 \/ /\ op \in SendOps \ W /\ Has(k, W)
                    /\ ~sendPending[s] /\ sendPending'[s] /\ sendIO'[s] = sendIO[s]
                 \/ /\ op \in W /\ ~Has(k, W)
                    /\ \/ (sendPending'[s] <=> sendPending[s]) /\ sendIO'[s] = sendIO[s] + 1
                       \/ ~sendPending'[s] /\ sendIO'[s] = sendIO[s]
<1> DEFINE none == <<>>
           locked == <<Frame("SendLocked", s)>>
           unlock == <<Frame("UnlockSend", s)>>
           close == <<Frame("Disconnect", s), Frame("UnlockSend", s)>>
           again == AfterSend(s)
           give == GiveUp(s, "UnlockSend")
<1>1. /\ none \in Only(s, Ops) /\ locked \in Only(s, Ops) /\ unlock \in Only(s, Ops)
      /\ close \in Only(s, Ops) /\ again \in Only(s, Ops) /\ give \in Only(s, Ops)
  <2>1. {"SendLocked", "UnlockSend", "Disconnect", "ReleaseRef", "Flush"} \subseteq Ops
    BY DEF Ops, ApiCalls
  <2>. QED  BY <2>1, OnlyContinuations DEF GiveUp, AfterSend
<1>2. /\ Apart(none, W, Ops) /\ ~Has(none, W)
      /\ Apart(locked, W, Ops) /\ Has(locked, W)
      /\ Apart(unlock, W, Ops) /\ Has(unlock, W)
      /\ Apart(close, W, Ops) /\ Has(close, W)
      /\ Apart(again, W, Ops) /\ Has(again, W)
      /\ Apart(give, W, Ops) /\ Has(give, W)
  <2>1. /\ "SendLocked" \in W /\ "UnlockSend" \in W /\ "Disconnect" \notin W
        /\ "Flush" \notin W /\ "ReleaseRef" \notin W /\ W \subseteq Ops
    BY DEF SendTurns, Ops
  <2>. HIDE DEF W
  <2>. QED  BY <2>1, TurnShapes DEF GiveUp, AfterSend
<1>3. /\ "TrySend" \in SendOps \ W /\ "SendLocked" \in W /\ "UnlockSend" \in W
      /\ "CompletedSend" \in W /\ W \subseteq SendOps
  BY DEF SendOps, SendTurns
<1>4. sendPending \in [Sessions -> BOOLEAN] /\ sendIO \in [Sessions -> Nat]
  BY DEF TypeOK
<1>. HIDE DEF none, locked, unlock, close, again, give
<1>5. ASSUME TrySend(t, s) PROVE \E op \in SendOps : \E k \in Only(s, Ops) : Goal(op, k)
  <2>1. /\ At(t, "TrySend", s) /\ sendPending'[s] /\ sendIO' = sendIO
        /\ IF sendPending[s] THEN Continue(t, none) ELSE Continue(t, locked)
    BY <1>4, <1>5 DEF TrySend, Return, ioVars, none, locked
  <2>2. sendPending[s] => Goal("TrySend", none)
    BY <1>2, <1>3, <2>1
  <2>3. ~sendPending[s] => Goal("TrySend", locked)
    BY <1>2, <1>3, <2>1
  <2>. QED  BY <1>1, <1>3, <2>1, <2>2, <2>3
<1>6. ASSUME SendLocked(t, s) PROVE \E op \in SendOps : \E k \in Only(s, Ops) : Goal(op, k)
  <2>1. /\ At(t, "SendLocked", s) /\ sendPending' = sendPending
        /\ \/ Continue(t, unlock) /\ sendIO'[s] = sendIO[s]
           \/ Continue(t, none) /\ sendIO'[s] = sendIO[s] + 1
           \/ Continue(t, give) /\ sendIO'[s] = sendIO[s]
    BY <1>4, <1>6 DEF SendLocked, Return, flagVars, none, unlock, give
  <2>2. Continue(t, unlock) /\ sendIO'[s] = sendIO[s] => Goal("SendLocked", unlock)
    BY <1>2, <1>3, <2>1
  <2>3. Continue(t, none) /\ sendIO'[s] = sendIO[s] + 1 => Goal("SendLocked", none)
    BY <1>2, <1>3, <2>1
  <2>4. Continue(t, give) /\ sendIO'[s] = sendIO[s] => Goal("SendLocked", give)
    BY <1>2, <1>3, <2>1
  <2>. QED  BY <1>1, <1>3, <2>1, <2>2, <2>3, <2>4
<1>7. ASSUME UnlockSend(t, s) PROVE \E op \in SendOps : \E k \in Only(s, Ops) : Goal(op, k)
  <2>1. /\ At(t, "UnlockSend", s) /\ ~sendPending'[s] /\ sendIO' = sendIO /\ Continue(t, none)
    BY <1>4, <1>7 DEF UnlockSend, Return, ioVars, none
  <2>2. Goal("UnlockSend", none)
    BY <1>2, <1>3, <2>1
  <2>. QED  BY <1>1, <1>3, <2>2
<1>8. ASSUME CompletedSend(t, s) PROVE \E op \in SendOps : \E k \in Only(s, Ops) : Goal(op, k)
  <2>1. /\ At(t, "CompletedSend", s) /\ UNCHANGED <<sendPending, sendIO>>
        /\ Continue(t, unlock) \/ Continue(t, close) \/ Continue(t, again)
    BY <1>8 DEF CompletedSend, flagVars, ioVars, unlock, close, again
  <2>2. Continue(t, unlock) => Goal("CompletedSend", unlock)
    BY <1>2, <1>3, <2>1
  <2>3. Continue(t, close) => Goal("CompletedSend", close)
    BY <1>2, <1>3, <2>1
  <2>4. Continue(t, again) => Goal("CompletedSend", again)
    BY <1>2, <1>3, <2>1
  <2>. QED  BY <1>1, <1>3, <2>1, <2>2, <2>3, <2>4
<1>9. PICK op \in SendOps, k \in Only(s, Ops) : Goal(op, k)
  BY <1>5, <1>6, <1>7, <1>8
<1>10. \A r \in Sessions \ {s} : sendPending'[r] = sendPending[r] /\ sendIO'[r] = sendIO[r]
  BY <1>4 DEF TrySend, SendLocked, UnlockSend, CompletedSend, flagVars, ioVars
<1>11. \A j \in 1..Len(k) : k[j].on = s
  BY DEF Only
<1>12. SendOps \subseteq Ops
  BY DEF SendOps, SendTurns, Ops
<1>13. Turn(op, s, k, SendTurns, Ops, sendPending, sendIO, sendPending', sendIO')
  BY <1>9, <1>10, <1>11, <1>12 DEF Turn
<1>. QED  BY <1>9, <1>13

\* PostSend() that finds the session connected has a reference behind it, unless
\* it runs on the allocating thread: the closing thread's sessions are closed.
LEMMA FlushBacked ==
    ASSUME HInv, SendOnce, NEW t \in Threads, NEW s \in Sessions, Flush(t, s)
    PROVE  \E k \in Only(s, {"TrySend"}) :
              /\ Continue(t, k)
              /\ k # <<>> => t \in Allocators \/ Behind(stack[t], Len(stack[t]), {"ReleaseRef"})
<1> DEFINE n == Len(stack[t])
<1>0. StackType /\ SocketInv
  BY StackFacts
<1>1. n \in 1..Len(stack[t]) /\ stack[t][n] = Frame("Flush", s)
  BY <1>0, EmptySeq, LenProperties DEF Flush, At, Top, StackType
<1>2. stack[t][n].op = "Flush" /\ stack[t][n].on = s
  BY <1>1, FrameFields
<1>. HIDE DEF n
<1>3. CASE connected[s] /\ Continue(t, <<Frame("TrySend", s)>>)
  <2>1. t \in Allocators \/ Below(stack[t], n, "ReleaseRef") \/ Below(stack[t], n, "ReleaseSession")
    BY <1>1, <1>2, SendOnceParts DEF Backed, Behind, SendPaths
  <2>2. ~Below(stack[t], n, "ReleaseSession")
    <3>1. SUFFICES ASSUME NEW i \in 1..(n - 1), stack[t][i] = Frame("ReleaseSession", s)
                   PROVE  FALSE
      BY <1>2 DEF Below
    <3>2. i \in 1..Len(stack[t])
      BY <1>0, <1>1, LenProperties DEF StackType
    <3>3. stack[t][i].op = "ReleaseSession" /\ stack[t][i].on = s
      BY <3>1, FrameFields
    <3>4. socketOpen[s]
      BY <1>0, <1>3 DEF SocketInv
    <3>5. ~socketOpen[stack[t][i].on]
      BY <1>0, <3>2, <3>3 DEF SocketInv
    <3>. QED  BY <3>3, <3>4, <3>5
  <2>3. t \in Allocators \/ Behind(stack[t], Len(stack[t]), {"ReleaseRef"})
    BY <2>1, <2>2 DEF Behind, n
  <2>4. <<Frame("TrySend", s)>> \in Only(s, {"TrySend"})
    <3>1. {"TrySend"} \subseteq Ops
      BY DEF Ops
    <3>. QED  BY <3>1, OnlyContinuations
  <2>. QED  BY <1>3, <2>3, <2>4
<1>4. CASE Continue(t, <<>>)
  <2>1. <<>> \in Only(s, {"TrySend"})
    BY DEF Only
  <2>. QED  BY <1>4, <2>1
<1>5. \/ connected[s] /\ Continue(t, <<Frame("TrySend", s)>>)
      \/ Continue(t, <<>>)
  BY DEF Flush, Return
<1>. QED  BY <1>3, <1>4, <1>5

\* Every handler keeps the sends single.
LEMMA RunSendsOnce ==
    ASSUME HInv, SendOnce, NEW t \in Threads, NEW s \in Sessions, Run(t, s)
    PROVE  SendOnce'
<1>0. StackType /\ TypeOK
  BY StackFacts
<1>1. /\ Single(sendPending, sendIO, Owners(SendTurns))
      /\ Lone(SendTurns, Ops) /\ Backed(SendOps, {"ReleaseRef"})
      /\ Backed(SendPaths, {"ReleaseRef", "ReleaseSession"})
      /\ SendTurns \subseteq Ops /\ SendTurns \subseteq SendOps /\ SendOps \subseteq SendPaths
  BY SendOnceParts
<1>2. CASE TrySend(t, s) \/ SendLocked(t, s) \/ UnlockSend(t, s) \/ CompletedSend(t, s)
  <2>1. PICK op \in SendOps, k \in Only(s, Ops) :
           /\ At(t, op, s) /\ Continue(t, k)
           /\ Turn(op, s, k, SendTurns, Ops, sendPending, sendIO, sendPending', sendIO')
    BY <1>0, <1>2, SendingTurns
  <2>2. k \in Seq(Frames) /\ \A j \in 1..Len(k) : k[j].on = s
    BY DEF Only
  <2>3. Lone(SendTurns, Ops)' /\ Single(sendPending', sendIO', Owners(SendTurns)')
    BY <1>0, <1>1, <2>1, <2>2, OnceGoesOn
  <2>4. Backed(SendOps, {"ReleaseRef"})'
    BY <1>0, <1>1, <2>1, <2>2, BackedGoesOn
  <2>5. Backed(SendPaths, {"ReleaseRef", "ReleaseSession"})'
    BY <1>0, <1>1, <2>1, <2>2, BackedGoesOn
  <2>. QED  BY <2>3, <2>4, <2>5 DEF SendOnce
<1>3. CASE ~TrySend(t, s) /\ ~SendLocked(t, s) /\ ~UnlockSend(t, s) /\ ~CompletedSend(t, s)
  <2>1. UNCHANGED <<sendPending, sendIO>>
    BY <1>3, OtherThanSends
  <2>2. PICK op : op \notin SendOps /\ At(t, op, s) /\ (op = "Flush" => Flush(t, s))
    BY <1>3, OtherThanSends
  <2>3. PICK k \in Seq(Frames) :
           /\ Continue(t, k)
           /\ \A j \in 1..Len(k) : k[j].on = s /\ k[j].op \notin SendTurns
           /\ \A j \in 1..Len(k) : k[j].op \in SendPaths => op \in SendPaths
           /\ \A j \in 1..Len(k) : k[j].op \in SendOps =>
                 t \in Allocators \/ Behind(stack[t], Len(stack[t]), {"ReleaseRef"})
    <3>1. CASE Flush(t, s)
      <4>1. PICK k \in Only(s, {"TrySend"}) :
               /\ Continue(t, k)
               /\ k # <<>> => t \in Allocators \/ Behind(stack[t], Len(stack[t]), {"ReleaseRef"})
        BY <3>1, FlushBacked
      <4>2. op = "Flush" /\ op \in SendPaths /\ "TrySend" \notin SendTurns
        BY <2>2, <3>1, OneTop DEF Flush, SendPaths, SendTurns
      <4>3. /\ k \in Seq(Frames)
            /\ \A j \in 1..Len(k) : k[j].on = s /\ k[j].op \notin SendTurns
            /\ \A j \in 1..Len(k) : k # <<>>
        BY <4>2 DEF Only
      <4>. QED  BY <4>1, <4>2, <4>3
    <3>2. CASE ~Flush(t, s)
      <4>1. PICK k \in Only(s, Leads(op)) : Continue(t, k)
        BY <2>2, StepLeads, OneTop
      <4>2. op # "Flush"
        BY <2>2, <3>2
      <4>3. \A j \in 1..Len(k) : k[j].on = s /\ k[j].op \in Leads(op)
        BY DEF Only
      <4>4. \A j \in 1..Len(k) : /\ k[j].op \notin SendOps
                                 /\ k[j].op \in SendPaths => op \in SendPaths
        BY <2>2, <4>2, <4>3, PlainLeads
      <4>5. k \in Seq(Frames)
        BY DEF Only
      <4>. QED  BY <1>1, <4>1, <4>3, <4>4, <4>5
    <3>. QED  BY <3>1, <3>2
  <2>4. Turn(op, s, k, SendTurns, Ops, sendPending, sendIO, sendPending', sendIO')
    <3>1. Apart(k, SendTurns, Ops) /\ ~Has(k, SendTurns) /\ op \notin SendTurns
      BY <1>1, <2>2, <2>3 DEF Apart, Has
    <3>2. op \in Ops
      BY <2>2, StepLeads, OneTop
    <3>. QED  BY <2>1, <2>3, <3>1, <3>2 DEF Turn
  <2>5. Lone(SendTurns, Ops)' /\ Single(sendPending', sendIO', Owners(SendTurns)')
    BY <1>0, <1>1, <2>2, <2>3, <2>4, OnceGoesOn
  <2>6. Backed(SendOps, {"ReleaseRef"})'
    BY <1>0, <1>1, <2>2, <2>3, BackedGoesOn
  <2>7. Backed(SendPaths, {"ReleaseRef", "ReleaseSession"})'
    BY <1>0, <1>1, <2>2, <2>3, BackedGoesOn
  <2>. QED  BY <2>5, <2>6, <2>7 DEF SendOnce
<1>. QED  BY <1>2, <1>3

\* A new incarnation has no send; what its accept callback sends, it sends on
\* the allocator.
LEMMA AllocateSendsOnce ==
    ASSUME HInv, SendOnce, \A t, u \in Allocators : t = u,
           NEW t \in Allocators, NEW s \in Sessions, AllocateSession(t, s)
    PROVE  SendOnce'
<1> DEFINE k == <<Frame("PostRecv", s), Frame("OnAccept", s)>>
           o == Owners(SendTurns)
           o2 == Owners(SendTurns)'
<1>0. StackType /\ TypeOK /\ t \in Threads
  BY StackFacts, NetworkAssumption
<1>1. /\ Single(sendPending, sendIO, o)
      /\ Lone(SendTurns, Ops) /\ Backed(SendOps, {"ReleaseRef"})
      /\ Backed(SendPaths, {"ReleaseRef", "ReleaseSession"})
      /\ SendTurns \subseteq SendOps
  BY SendOnceParts
<1>2. Begin(t, k) /\ k \in Seq(Frames)
  BY DullContinuations, UnmarkedOps DEF AllocateSession, Dull
<1>3. Apart(k, SendTurns, Ops) /\ ~Has(k, SendTurns)
  <2>1. Len(k) = 2 /\ k[1].op = "PostRecv" /\ k[2].op = "OnAccept"
    BY FrameFields
  <2>. HIDE DEF k
  <2>. QED  BY <2>1 DEF Apart, Has, SendTurns
<1>. HIDE DEF k
<1>4. /\ Lone(SendTurns, Ops)'
      /\ \A r \in Sessions \ {s} : o2[r] = o[r]
      /\ o2[s] = o[s] \cup (IF Has(k, SendTurns) THEN {t} ELSE {})
  <2>1. \A j \in 1..Len(k) : k[j].op \in SendTurns => k[j].on = s
    BY <1>3 DEF Has
  <2>. QED  BY <1>0, <1>1, <1>2, <1>3, <2>1, OwnersBegin
<1>5. sendIO'[s] = 0 /\ o[s] = {}
  BY <1>1, AllocateFresh
<1>6. \A r \in Sessions \ {s} : (sendPending'[r] <=> sendPending[r]) /\ sendIO'[r] = sendIO[r]
  BY <1>0 DEF AllocateSession, Attach, flagVars, ioVars, TypeOK
<1>. HIDE DEF o, o2
<1>7. Beside(s, sendPending, sendIO, o, sendPending', sendIO', o2)
  BY <1>4, <1>6 DEF Beside
<1>8. o2[s] = {}
  BY <1>3, <1>4, <1>5
<1>9. Single(sendPending', sendIO', o2)
  BY <1>1, <1>5, <1>7, <1>8, SingleFresh
<1>10. Backed(SendOps, {"ReleaseRef"})' /\ Backed(SendPaths, {"ReleaseRef", "ReleaseSession"})'
  BY <1>0, <1>1, <1>2, BackedBegins
<1>. QED  BY <1>4, <1>9, <1>10 DEF SendOnce, o2

\* What the workers and the application begin with: above a reference, or with
\* nothing that leads to a send.
LEMMA SendersBegin ==
    ASSUME TypeOK, SendersHold, NEW t \in Threads, NEW s \in Sessions,
           IoDequeue(t, s) \/ DequeueProcess(t, s) \/ (t \in AppThreads /\ AppCall(t, s))
    PROVE  \E k \in Only(s, Ops) :
              /\ Begin(t, k) /\ Apart(k, SendTurns, Ops)
              /\ \/ sendIO'[s] = sendIO[s] /\ ~Has(k, SendTurns)
                 \/ sendIO[s] > 0 /\ sendIO'[s] = sendIO[s] - 1
              /\ \A j \in 1..Len(k) : k[j].op \in SendPaths =>
                    1 \in 1..(j - 1) /\ k[1] = Frame("ReleaseRef", s)
<1>0. sendIO \in [Sessions -> Nat]
  BY DEF TypeOK
<1>1. \A k : ~Has(k, SendTurns) => Apart(k, SendTurns, Ops)
  BY DEF Apart, Has
<1>2. ASSUME NEW k, \A j \in 1..Len(k) : k[j].op \notin SendPaths PROVE ~Has(k, SendTurns)
  BY <1>2 DEF Has, SendPaths, SendOps
<1>3. ASSUME NEW b \in Ops
      PROVE  LET k == <<Frame("ReleaseRef", s), Frame(b, s)>>
             IN  /\ k \in Only(s, Ops)
                 /\ Len(k) = 2 /\ k[1] = Frame("ReleaseRef", s) /\ k[1].op = "ReleaseRef"
                 /\ k[2].op = b
                 /\ \A j \in 1..Len(k) : k[j].op \in SendPaths => 1 \in 1..(j - 1)
  <2>1. "ReleaseRef" \notin SendPaths
    BY DEF SendPaths, SendOps, SendTurns
  <2>2. \A j \in 1..2 : j = 1 \/ (j = 2 /\ 1 \in 1..(j - 1))
    OBVIOUS
  <2>. QED  BY <2>1, <2>2, WorkersBacked, FrameFields
<1>4. ASSUME NEW b \in Ops \ SendTurns
      PROVE  ~Has(<<Frame("ReleaseRef", s), Frame(b, s)>>, SendTurns)
  <2>1. ASSUME NEW x, NEW y, x.op \notin SendTurns, y.op \notin SendTurns
        PROVE  ~Has(<<x, y>>, SendTurns)
    BY <2>1 DEF Has
  <2>2. "ReleaseRef" \notin SendTurns
    BY DEF SendTurns
  <2>. QED  BY <2>1, <2>2, FrameFields
<1>5. CASE DequeueRecv(t, s)
  <2>1. sendIO'[s] = sendIO[s] /\ Begin(t, OnRecv(s))
    BY <1>5 DEF DequeueRecv
  <2>2. {"ReleaseRef", "PostRecv", "PostProcess", "CompletedRecv"} \cap SendPaths = {}
    BY DEF SendPaths, SendOps, SendTurns
  <2>3. OnRecv(s) \in Only(s, Ops) /\ \A j \in 1..Len(OnRecv(s)) : OnRecv(s)[j].op \notin SendPaths
    <3>1. "ReleaseRef" \in Ops
      BY DEF Ops
    <3>. QED  BY <2>2, <3>1, WorkersBacked
  <2>. QED  BY <1>1, <1>2, <2>1, <2>3
<1>6. CASE DequeueSend(t, s)
  <2> DEFINE k == <<Frame("ReleaseRef", s), Frame("CompletedSend", s)>>
  <2>1. sendIO[s] > 0 /\ sendIO'[s] = sendIO[s] - 1 /\ Begin(t, k)
    BY <1>0, <1>6, Queued DEF DequeueSend
  <2>2. Apart(k, SendTurns, Ops)
    <3>1. "CompletedSend" \in SendTurns /\ "ReleaseRef" \notin SendTurns /\ SendTurns \subseteq Ops
      BY DEF SendTurns, Ops
    <3>. QED  BY <3>1, TurnShapes
  <2>3. /\ k \in Only(s, Ops) /\ k[1] = Frame("ReleaseRef", s)
        /\ \A j \in 1..Len(k) : k[j].op \in SendPaths => 1 \in 1..(j - 1)
    <3>1. "CompletedSend" \in Ops
      BY DEF Ops
    <3>. QED  BY <1>3, <3>1
  <2>. HIDE DEF k
  <2>. QED  BY <2>1, <2>2, <2>3
<1>7. CASE DequeueFailed(t, s) \/ DequeueProcess(t, s)
  <2>1. PICK b \in {"Disconnect", "ProcessCompletion"} :
           /\ Begin(t, <<Frame("ReleaseRef", s), Frame(b, s)>>)
           /\ sendIO'[s] = sendIO[s] \/ (sendIO[s] > 0 /\ sendIO'[s] = sendIO[s] - 1)
    BY <1>0, <1>7, Queued DEF DequeueFailed, DequeueProcess
  <2>2. b \in Ops \ SendTurns
    BY DEF Ops, ApiCalls, SendTurns
  <2> DEFINE k == <<Frame("ReleaseRef", s), Frame(b, s)>>
  <2>3. /\ k \in Only(s, Ops) /\ k[1] = Frame("ReleaseRef", s) /\ ~Has(k, SendTurns)
        /\ \A j \in 1..Len(k) : k[j].op \in SendPaths => 1 \in 1..(j - 1)
    BY <1>3, <1>4, <2>2
  <2>4. Begin(t, k)
    BY <2>1
  <2>. HIDE DEF k
  <2>. QED  BY <1>1, <2>1, <2>3, <2>4
<1>8. CASE t \in AppThreads /\ AppCall(t, s)
  <2>1. PICK call \in {"Disconnect", "SendBuffered"} : Begin(t, <<Frame(call, s)>>)
    BY <1>8 DEF AppCall, SendersHold
  <2>2. call \in Ops \ SendPaths
    BY DEF Ops, ApiCalls, SendPaths, SendOps, SendTurns
  <2> DEFINE k == <<Frame(call, s)>>
  <2>3. k \in Only(s, Ops)
    BY <2>2, OnlyContinuations
  <2>4. \A j \in 1..Len(k) : k[j].op \notin SendPaths
    <3>1. Len(k) = 1 /\ k[1].op \notin SendPaths
      BY <2>2, FrameFields
    <3>. HIDE DEF k
    <3>. QED  BY <3>1
  <2>5. sendIO' = sendIO
    BY <1>8 DEF AppCall, ioVars
  <2>6. Begin(t, k)
    BY <2>1
  <2>. HIDE DEF k
  <2>. QED  BY <1>1, <1>2, <2>3, <2>4, <2>5, <2>6
<1>. QED  BY <1>5, <1>6, <1>7, <1>8 DEF IoDequeue

\* A worker takes the send for its turn, or begins something else.
LEMMA WorkersSendOnce ==
    ASSUME HInv, SendOnce, SendersHold, NEW t \in Threads, NEW s \in Sessions,
           IoDequeue(t, s) \/ DequeueProcess(t, s) \/ (t \in AppThreads /\ AppCall(t, s))
    PROVE  SendOnce'
<1>0. StackType /\ TypeOK
  BY StackFacts
<1>1. /\ Single(sendPending, sendIO, Owners(SendTurns))
      /\ Lone(SendTurns, Ops) /\ Backed(SendOps, {"ReleaseRef"})
      /\ Backed(SendPaths, {"ReleaseRef", "ReleaseSession"})
      /\ SendOps \subseteq SendPaths
  BY SendOnceParts
<1>2. PICK k \in Only(s, Ops) :
         /\ Begin(t, k) /\ Apart(k, SendTurns, Ops)
         /\ \/ sendIO'[s] = sendIO[s] /\ ~Has(k, SendTurns)
            \/ sendIO[s] > 0 /\ sendIO'[s] = sendIO[s] - 1
         /\ \A j \in 1..Len(k) : k[j].op \in SendPaths =>
               1 \in 1..(j - 1) /\ k[1] = Frame("ReleaseRef", s)
  BY <1>0, SendersBegin
<1>3. k \in Seq(Frames) /\ \A j \in 1..Len(k) : k[j].on = s
  BY DEF Only
<1>4. Start(s, k, SendTurns, Ops, sendPending, sendIO, sendPending', sendIO')
  <2>1. /\ sendPending' = sendPending
        /\ \A r \in Sessions \ {s} : sendIO'[r] = sendIO[r]
    BY <1>0 DEF IoDequeue, DequeueRecv, DequeueSend, DequeueFailed, DequeueProcess, AppCall,
       flagVars, ioVars, TypeOK
  <2>. QED  BY <1>2, <1>3, <2>1 DEF Start
<1>5. Lone(SendTurns, Ops)' /\ Single(sendPending', sendIO', Owners(SendTurns)')
  BY <1>0, <1>1, <1>2, <1>3, <1>4, OnceBegins
<1>6. ASSUME NEW j \in 1..Len(k), k[j].op \in SendPaths
      PROVE  /\ \E e \in {"ReleaseRef"} : \E i \in 1..(j - 1) : k[i] = Frame(e, k[j].on)
             /\ \E e \in {"ReleaseRef", "ReleaseSession"} :
                   \E i \in 1..(j - 1) : k[i] = Frame(e, k[j].on)
  BY <1>2, <1>3, <1>6
<1>7. Backed(SendOps, {"ReleaseRef"})'
  BY <1>0, <1>1, <1>2, <1>3, <1>6, BackedBegins
<1>8. Backed(SendPaths, {"ReleaseRef", "ReleaseSession"})'
  BY <1>0, <1>1, <1>2, <1>3, <1>6, BackedBegins
<1>. QED  BY <1>5, <1>7, <1>8 DEF SendOnce

\* The closing thread takes a session: its close callback sends nothing, as the
\* session is closed until ReleaseSession.
LEMMA TakeSendsOnce ==
    ASSUME HInv, SendOnce, NEW s \in Sessions, TakeClosing(s)
    PROVE  SendOnce'
<1> DEFINE k == <<Frame("ReleaseSession", s), Frame("Close", s), Frame("OnClose", s)>>
<1>0. StackType /\ ClosingThread \in Threads
  BY StackFacts, NetworkAssumption
<1>1. /\ Single(sendPending, sendIO, Owners(SendTurns))
      /\ Lone(SendTurns, Ops) /\ Backed(SendOps, {"ReleaseRef"})
      /\ Backed(SendPaths, {"ReleaseRef", "ReleaseSession"})
      /\ SendTurns \subseteq SendOps
  BY SendOnceParts
<1>2. Begin(ClosingThread, k) /\ k \in Seq(Frames)
  BY StartShapes DEF TakeClosing
<1>3. /\ Len(k) = 3 /\ k[1].op = "ReleaseSession" /\ k[2].op = "Close" /\ k[3].op = "OnClose"
      /\ k[1] = Frame("ReleaseSession", s) /\ k[3].on = s
  BY FrameFields
<1>4. sendPending' = sendPending /\ sendIO' = sendIO
  BY DEF TakeClosing, flagVars, ioVars
<1>. HIDE DEF k
<1>5. \A j \in 1..Len(k) : /\ k[j].op \notin SendOps
                           /\ k[j].op \in SendPaths => j = 3
  BY <1>3 DEF SendPaths, SendOps, SendTurns
<1>6. Start(s, k, SendTurns, Ops, sendPending, sendIO, sendPending', sendIO')
  BY <1>1, <1>4, <1>5 DEF Start, Apart, Has
<1>7. Lone(SendTurns, Ops)' /\ Single(sendPending', sendIO', Owners(SendTurns)')
  BY <1>0, <1>1, <1>2, <1>6, OnceBegins
<1>8. Backed(SendOps, {"ReleaseRef"})'
  BY <1>0, <1>1, <1>2, <1>5, BackedBegins
<1>9. Backed(SendPaths, {"ReleaseRef", "ReleaseSession"})'
  <2>1. ASSUME NEW j \in 1..Len(k), k[j].op \in SendPaths
        PROVE  \E e \in {"ReleaseRef", "ReleaseSession"} :
                  \E i \in 1..(j - 1) : k[i] = Frame(e, k[j].on)
    <3>1. j = 3 /\ 1 \in 1..(j - 1) /\ k[1] = Frame("ReleaseSession", k[j].on)
      BY <1>3, <1>5, <2>1
    <3>. QED  BY <3>1
  <2>. QED  BY <1>0, <1>1, <1>2, <2>1, BackedBegins
<1>. QED  BY <1>7, <1>8, <1>9 DEF SendOnce

\* Initially nothing is posted and nobody runs anything.
LEMMA InitSendsOnce == Init => SendOnce
<1> SUFFICES ASSUME Init PROVE SendOnce
  OBVIOUS
<1>1. /\ \A s \in Sessions : sendIO[s] = 0
      /\ \A t \in Threads : stack[t] = <<>>
  BY DEF Init, SessionInit
<1>2. \A t \in Threads : Len(stack[t]) = 0
  BY <1>1
<1>3. \A s \in Sessions : Owners(SendTurns)[s] = {}
  <2>1. ASSUME NEW s \in Sessions, NEW u \in Owners(SendTurns)[s] PROVE FALSE
    BY <1>2, <2>1, OwnersAre
  <2>. QED  BY <2>1
<1>4. Single(sendPending, sendIO, Owners(SendTurns))
  BY <1>1, <1>3 DEF Single
<1>5. /\ Lone(SendTurns, Ops) /\ Backed(SendOps, {"ReleaseRef"})
      /\ Backed(SendPaths, {"ReleaseRef", "ReleaseSession"})
  BY <1>2 DEF Lone, Apart, Backed
<1>. QED  BY <1>4, <1>5 DEF SendOnce

\* Every step keeps the sends single.
LEMMA NextSendsOnce ==
    ASSUME \A t, u \in Allocators : t = u, SendersHold, HInv, SendOnce, [Next]_vars
    PROVE  SendOnce'
<1>1. ASSUME UNCHANGED sessionVars PROVE SendOnce'
  <2>1. UNCHANGED <<stack, sendPending, sendIO>>
    BY <1>1 DEF sessionVars, flagVars, ioVars
  <2>2. Owners(SendTurns)' = Owners(SendTurns)
    BY <2>1 DEF Owners
  <2>3. /\ Lone(SendTurns, Ops)' <=> Lone(SendTurns, Ops)
        /\ Backed(SendOps, {"ReleaseRef"})' <=> Backed(SendOps, {"ReleaseRef"})
        /\ Backed(SendPaths, {"ReleaseRef", "ReleaseSession"})'
              <=> Backed(SendPaths, {"ReleaseRef", "ReleaseSession"})
    BY <2>1 DEF Lone, Backed
  <2>. QED  BY <2>1, <2>2, <2>3 DEF SendOnce
<1>2. ASSUME NEW s \in Sessions, NEW t \in Threads, Run(t, s) PROVE SendOnce'
  BY <1>2, RunSendsOnce
<1>3. ASSUME NEW s \in Sessions, NEW t \in Allocators, AllocateSession(t, s) PROVE SendOnce'
  BY <1>3, AllocateSendsOnce
<1>4. ASSUME NEW s \in Sessions, NEW t \in Threads,
             IoDequeue(t, s) \/ DequeueProcess(t, s) \/ (t \in AppThreads /\ AppCall(t, s))
      PROVE  SendOnce'
  BY <1>4, WorkersSendOnce
<1>5. ASSUME NEW s \in Sessions, TakeClosing(s) PROVE SendOnce'
  BY <1>5, TakeSendsOnce
<1>6. ASSUME NEW s \in Sessions, (\E t \in Allocators : Associate(t, s)) \/ CompleteUnqueued(s)
      PROVE  UNCHANGED sessionVars
  BY <1>6, PortSteps
<1>. QED  BY <1>1, <1>2, <1>3, <1>4, <1>5, <1>6, NetworkAssumption DEF Next, vars

\* With one thread that allocates sessions, and application threads that at
\* most disconnect and buffer packets, at most one send of a session is posted:
\* PostSend() locks m_SendPending, and it is unlocked by the completion of what
\* it posted, or by itself when it has posted nothing; in between no PostSend()
\* of an earlier incarnation is left.
THEOREM SendsOnce ==
    ASSUME \A t, u \in Allocators : t = u,
           AppThreads = {} \/ AppCalls \subseteq {"Disconnect", "SendBuffered"}
    PROVE  Spec => []OneSend
<1>0. SendersHold
  BY DEF SendersHold
<1>1. Init => HInv /\ SendOnce
  BY InitHInv, InitSendsOnce
<1>2. HInv /\ SendOnce /\ [Next]_vars => (HInv /\ SendOnce)'
  BY <1>0, NextHInv, NextSendsOnce
<1>3. SendOnce => OneSend
  <2>1. SUFFICES ASSUME SendOnce, NEW s \in Sessions PROVE sendIO[s] <= 1
    BY DEF OneSend
  <2>2. sendIO[s] = 0 \/ sendIO[s] = 1
    BY <2>1 DEF SendOnce, Single
  <2>. QED  BY <2>2
<1>. QED  BY <1>1, <1>2, <1>3, PTL DEF Spec

------------------------------------------------------------------------------
(***************************************************************************)
(* The network implements the life of every session, and the pool with its *)
(* counters agrees with the sessions that are active, for any number of    *)
(* sessions and threads.                                                   *)
(***************************************************************************)

(* Phases                                                                  *)

\* The mapping of the abstract variable.
Phases == [s \in Sessions |-> Phase(s)]

\* A step that leaves the four variables of the mapping alone stutters.
LEMMA PhaseKept ==
    ASSUME UNCHANGED <<connected, socketOpen, refCount, active>>
    PROVE  UNCHANGED Life!vars
BY DEF Life!vars, Phase

\* What the invariant says of the phase of a session.
LEMMA PhaseFacts ==
    ASSUME HInv, NEW s \in Sessions
    PROVE  /\ refCount[s] \in Nat
           /\ connected[s] => Phase(s) = "open" /\ refCount[s] > 0
           /\ ~connected[s] /\ ~socketOpen[s] /\ refCount[s] > 0 => Phase(s) = "draining"
           /\ s \notin active => Phase(s) = "free" /\ ~connected[s] /\ refCount[s] = 0
           /\ s \in active /\ ~connected[s] /\ ~socketOpen[s] /\ refCount[s] = 0
                 => Phase(s) = "closing"
<1>1. /\ refCount[s] = Held(s) + Waiting(RefFrame(s)) /\ Held(s) \in Nat
      /\ Waiting(RefFrame(s)) \in Nat
      /\ s \notin active => ~connected[s] /\ refCount[s] = 0
  BY SessionFacts DEF HInv
<1>2. recvIO[s] \in Nat /\ sendIO[s] \in Nat /\ procQ[s] \in Nat
  BY CountTypes DEF HInv, IInv
<1>3. connected[s] => Held(s) > 0
  BY <1>2 DEF Held
<1>4. refCount[s] \in Nat /\ (connected[s] => refCount[s] > 0)
  BY <1>1, <1>3
<1>. QED  BY <1>1, <1>4 DEF Phase

\* A step on one session that moves its phase.
LEMMA PhaseGoes ==
    ASSUME NEW s \in Sessions, NEW from, NEW to, Phase(s) = from, Phase(s)' = to,
           \A r \in Sessions \ {s} : Phase(r)' = Phase(r)
    PROVE  Life!Go(s, from, to)
BY DEF Life!Go

\* A step on one session that leaves its phase alone.
LEMMA PhaseStays ==
    ASSUME \A r \in Sessions : Phase(r)' = Phase(r)
    PROVE  Phases' = Phases
BY DEF Phases

\* The phase of a session depends on its own fields.
LEMMA PhaseOwn ==
    ASSUME NEW r, connected'[r] = connected[r], socketOpen'[r] = socketOpen[r],
           refCount'[r] = refCount[r], r \in active' <=> r \in active
    PROVE  Phase(r)' = Phase(r)
BY DEF Phase

\* Disconnect ends the open phase; it comes to nothing when repeated.
LEMMA DisconnectLives ==
    ASSUME HInv, NEW t \in Threads, NEW s \in Sessions, Disconnect(t, s), UNCHANGED networkVars
    PROVE  [Life!Next]_Life!vars
<1>0. TypeOK /\ active' = active /\ refCount' = refCount
  BY DEF HInv, IInv, Disconnect, networkVars, poolVars
<1>1. CASE ~connected[s]
  <2>1. UNCHANGED <<connected, socketOpen, refCount, active>>
    BY <1>0, <1>1 DEF Disconnect, connVars
  <2>. QED  BY <2>1, PhaseKept
<1>2. CASE connected[s]
  <2>1. /\ ~connected'[s] /\ ~socketOpen'[s]
        /\ \A r \in Sessions \ {s} : connected'[r] = connected[r] /\ socketOpen'[r] = socketOpen[r]
    BY <1>0, <1>2 DEF Disconnect, TypeOK
  <2>2. Phase(s) = "open" /\ refCount[s] > 0 /\ s \in active
    BY <1>2, PhaseFacts
  <2>3. Phase(s)' = "draining"
    BY <1>0, <2>1, <2>2 DEF Phase
  <2>4. \A r \in Sessions \ {s} : Phase(r)' = Phase(r)
    BY <1>0, <2>1, PhaseOwn
  <2>5. Life!Disconnect(s)
    BY <1>0, <2>2, <2>3, <2>4, PhaseGoes DEF Life!Disconnect
  <2>. QED  BY <2>5 DEF Life!Next
<1>. QED  BY <1>1, <1>2

\* A handler that takes a reference under m_ClientSessionLock finds the session
\* open.
LEMMA AddRefLives ==
    ASSUME HInv, NEW s \in Sessions, connected[s], AddRef(s),
           UNCHANGED <<connected, socketOpen, active>>
    PROVE  [Life!Next]_Life!vars
<1>0. refCount \in [Sessions -> Nat]
  BY DEF HInv, IInv, TypeOK
<1>1. Phase(s) = "open" /\ s \in active
  BY PhaseFacts
<1>2. Phase(s)' = "open"
  BY <1>1 DEF Phase
<1>3. \A r \in Sessions \ {s} : Phase(r)' = Phase(r)
  BY <1>0, PhaseOwn DEF AddRef
<1>4. UNCHANGED Phases
  BY <1>1, <1>2, <1>3, PhaseStays
<1>5. Life!Acquire(s)
  BY <1>1, <1>4 DEF Life!Acquire, AddRef, Phases
<1>. QED  BY <1>5 DEF Life!Next

\* ReleaseRef keeps the phase, or is the last one of a draining session.
LEMMA ReleaseRefLives ==
    ASSUME HInv, NEW t \in Threads, NEW s \in Sessions, ReleaseRef(t, s), UNCHANGED networkVars
    PROVE  [Life!Next]_Life!vars
<1>0. /\ refCount \in [Sessions -> Nat] /\ UNCHANGED <<connected, socketOpen, active>>
      /\ refCount' = [refCount EXCEPT ![s] = @ - 1]
  BY DEF HInv, IInv, TypeOK, ReleaseRef, connVars, networkVars, poolVars
<1>1. /\ ~(socketOpen[s] /\ ~connected[s])
      /\ refCount[s] = 1 => ~socketOpen[s]
  BY LastReference DEF HInv
<1>2. refCount[s] > 0 /\ s \in active
  <2>1. StackType
    BY DEF HInv, IInv, TypeOK, StackType
  <2>2. Waiting(RefFrame(s)) > 0
    BY <2>1, TopCounted DEF ReleaseRef, RefFrame
  <2>3. /\ refCount[s] = Held(s) + Waiting(RefFrame(s)) /\ Held(s) \in Nat
        /\ Waiting(RefFrame(s)) \in Nat
        /\ s \notin active => refCount[s] = 0
    BY SessionFacts DEF HInv
  <2>. QED  BY <2>2, <2>3
<1>3. \A r \in Sessions \ {s} : Phase(r)' = Phase(r)
  BY <1>0, PhaseOwn
<1>4. refCount'[s] = refCount[s] - 1
  BY <1>0
<1>5. CASE refCount[s] > 1
  <2>1. Phase(s)' = Phase(s)
    BY <1>0, <1>4, <1>5 DEF Phase
  <2>2. UNCHANGED Phases
    BY <1>3, <2>1, PhaseStays
  <2>3. Phase(s) = "open" \/ Phase(s) = "draining"
    BY <1>1, <1>2, PhaseFacts
  <2>4. Life!Release(s)
    BY <1>0, <1>5, <2>2, <2>3 DEF Life!Release, Phases
  <2>. QED  BY <2>4 DEF Life!Next
<1>6. CASE refCount[s] = 1
  <2>1. ~connected[s] /\ ~socketOpen[s]
    BY <1>1, <1>6 DEF HInv, SocketInv
  <2>2. Phase(s) = "draining"
    BY <1>2, <2>1, PhaseFacts
  <2>3. Phase(s)' = "closing"
    BY <1>0, <1>2, <1>4, <1>6, <2>1 DEF Phase
  <2>4. Life!Release(s)
    BY <1>0, <1>3, <1>6, <2>2, <2>3, PhaseGoes DEF Life!Release
  <2>. QED  BY <2>4 DEF Life!Next
<1>. QED  BY <1>0, <1>2, <1>5, <1>6

\* The handlers of Session.cpp.
LEMMA HandlerLives ==
    ASSUME HInv, NEW t \in Threads, NEW s \in Sessions, SessionStep(t, s), UNCHANGED networkVars
    PROVE  [Life!Next]_Life!vars
<1>0. active' = active
  BY DEF networkVars, poolVars
<1>1. CASE Disconnect(t, s)
  BY <1>1, DisconnectLives
<1>2. CASE ReleaseRef(t, s)
  BY <1>2, ReleaseRefLives
<1>3. CASE PostRecvLocked(t, s) \/ PostProcessLocked(t, s) \/ SendLocked(t, s)
  <2>1. /\ UNCHANGED <<connected, socketOpen>>
        /\ (connected[s] /\ AddRef(s)) \/ refCount' = refCount
    BY <1>3 DEF PostRecvLocked, PostProcessLocked, SendLocked, connVars
  <2>2. CASE connected[s] /\ AddRef(s)
    BY <1>0, <2>1, <2>2, AddRefLives
  <2>3. CASE refCount' = refCount
    BY <1>0, <2>1, <2>3, PhaseKept
  <2>. QED  BY <2>1, <2>2, <2>3
<1>4. CASE \/ Close(t, s) \/ Callback(t, s) \/ PostRecv(t, s) \/ UnlockRecv(t, s)
           \/ CompletedRecv(t, s) \/ PostProcess(t, s) \/ TryProc(t, s)
           \/ ProcessCompletion(t, s) \/ UnlockProc(t, s) \/ ProcessPacket(t, s)
           \/ Send(t, s) \/ SendBuffered(t, s) \/ Flush(t, s) \/ TrySend(t, s)
           \/ UnlockSend(t, s) \/ CompletedSend(t, s)
  <2>1. UNCHANGED <<connected, socketOpen, refCount>>
    BY <1>4 DEF Close, Callback, PostRecv, UnlockRecv, CompletedRecv, PostProcess, TryProc,
       ProcessCompletion, UnlockProc, ProcessPacket, Send, SendBuffered, Flush, TrySend,
       UnlockSend, CompletedSend, connVars
  <2>. QED  BY <1>0, <2>1, PhaseKept
<1>. QED  BY <1>1, <1>2, <1>3, <1>4 DEF SessionStep

\* A session that is allocated was not active.
LEMMA AllocatedIsFree ==
    ASSUME HInv, NEW t, NEW s \in Sessions, AllocateSession(t, s)
    PROVE  s \notin active
<1>1. /\ freeList \in Seq(Sessions) /\ freeList # <<>> /\ s = Head(freeList)
      /\ {freeList[i] : i \in DOMAIN freeList} = Sessions \ active
  BY DEF AllocateSession, HInv, IInv, TypeOK, FreeListed
<1>2. 1 \in DOMAIN freeList /\ freeList[1] = s
  BY <1>1, EmptySeq, LenProperties
<1>. QED  BY <1>1, <1>2

\* AllocateSession opens a free session, or leaves it stillborn.
LEMMA AllocateLives ==
    ASSUME HInv, NEW t \in Allocators, NEW s \in Sessions, AllocateSession(t, s)
    PROVE  [Life!Next]_Life!vars
<1>0. /\ connected \in [Sessions -> BOOLEAN] /\ socketOpen \in [Sessions -> BOOLEAN]
      /\ refCount \in [Sessions -> Nat] /\ active' = active \cup {s} /\ Attach(s)
  BY DEF HInv, IInv, TypeOK, AllocateSession
<1>1. Phase(s) = "free" /\ ~connected[s] /\ refCount[s] = 0
  BY AllocatedIsFree, PhaseFacts
<1>2. \A r \in Sessions \ {s} : Phase(r)' = Phase(r)
  BY <1>0, PhaseOwn DEF Attach
<1>3. CASE connected'[s]
  <2>1. Phase(s)' = "open" /\ refCount' = [refCount EXCEPT ![s] = 1]
    BY <1>0, <1>1, <1>3 DEF Phase, Attach
  <2>2. Life!Open(s)
    BY <1>1, <1>2, <2>1, PhaseGoes DEF Life!Open
  <2>. QED  BY <2>2 DEF Life!Next
<1>4. CASE ~connected'[s]
  <2>1. refCount' = refCount /\ socketOpen'[s] /\ s \in active'
    BY <1>0, <1>4 DEF Attach
  <2>2. Phase(s)' = "stillborn"
    BY <1>4, <2>1 DEF Phase
  <2>3. Life!OpenFailed(s)
    BY <1>1, <1>2, <2>1, <2>2, PhaseGoes DEF Life!OpenFailed
  <2>. QED  BY <2>3 DEF Life!Next
<1>. QED  BY <1>3, <1>4

\* A session that is released is active and closing.
LEMMA ReleasedIsClosing ==
    ASSUME HInv, NEW t \in Threads, NEW s \in Sessions, ReleaseSession(t, s)
    PROVE  s \in active /\ ~connected[s] /\ ~socketOpen[s] /\ refCount[s] = 0
<1>1. StackType /\ IInv /\ SocketInv
  BY DEF HInv, IInv, TypeOK, StackType
<1>2. Waiting(EndFrame(s)) > 0
  BY <1>1, TopCounted DEF ReleaseSession, EndFrame
<1>3. s \in active /\ ~connected[s] /\ refCount[s] = 0
  BY <1>1, <1>2, SessionFacts
<1>4. ~socketOpen[s]
  <2>1. Len(stack[t]) \in 1..Len(stack[t]) /\ stack[t][Len(stack[t])] = Frame("ReleaseSession", s)
    BY <1>1, EmptySeq, LenProperties DEF ReleaseSession, At, Top, StackType
  <2>. QED  BY <1>1, <2>1, FrameFields DEF SocketInv
<1>. QED  BY <1>3, <1>4

\* ReleaseSession ends the life of a closing session.
LEMMA ReleaseLives ==
    ASSUME HInv, NEW t \in Threads, NEW s \in Sessions, ReleaseSession(t, s)
    PROVE  [Life!Next]_Life!vars
<1>1. s \in active /\ ~connected[s] /\ ~socketOpen[s] /\ refCount[s] = 0
  BY ReleasedIsClosing
<1>2. /\ active' = active \ {s}
      /\ UNCHANGED <<connected, socketOpen, refCount>>
  BY <1>1 DEF ReleaseSession, poolVars, connVars
<1>3. Phase(s) = "closing" /\ Phase(s)' = "free"
  BY <1>1, <1>2 DEF Phase
<1>4. \A r \in Sessions \ {s} : Phase(r)' = Phase(r)
  BY <1>2, PhaseOwn
<1>5. Life!Finish(s)
  BY <1>2, <1>3, <1>4, PhaseGoes DEF Life!Finish
<1>. QED  BY <1>5 DEF Life!Next

\* Every step of the network is a step in the life of one session, or none.
LEMMA NextLives ==
    ASSUME HInv, [Next]_vars
    PROVE  [Life!Next]_Life!vars
<1>1. CASE UNCHANGED vars
  <2>1. UNCHANGED <<connected, socketOpen, refCount, active>>
    BY <1>1 DEF vars, sessionVars, connVars, networkVars, poolVars
  <2>. QED  BY <2>1, PhaseKept
<1>2. ASSUME NEW s \in Sessions, NEW t \in Threads, Run(t, s) PROVE [Life!Next]_Life!vars
  <2>1. CASE AddClosing(t, s)
    <3>1. UNCHANGED <<connected, socketOpen, refCount, active>>
      BY <2>1 DEF AddClosing, poolVars, connVars
    <3>. QED  BY <3>1, PhaseKept
  <2>. QED  BY <1>2, <2>1, HandlerLives, ReleaseLives DEF Run
<1>3. ASSUME NEW s \in Sessions, NEW t \in Allocators, AllocateSession(t, s)
      PROVE  [Life!Next]_Life!vars
  BY <1>3, AllocateLives
<1>4. ASSUME NEW s \in Sessions, NEW t \in Threads,
             IoDequeue(t, s) \/ DequeueProcess(t, s) \/ AppCall(t, s) \/ TakeClosing(s)
      PROVE  [Life!Next]_Life!vars
  <2>1. UNCHANGED <<connected, socketOpen, refCount, active>>
    BY <1>4 DEF IoDequeue, DequeueRecv, DequeueSend, DequeueFailed, DequeueProcess, AppCall,
       TakeClosing, networkVars, poolVars, connVars
  <2>. QED  BY <2>1, PhaseKept
<1>5. ASSUME NEW s \in Sessions, TakeClosing(s) PROVE [Life!Next]_Life!vars
  BY <1>4, <1>5, NetworkAssumption
<1>6. ASSUME NEW s \in Sessions, (\E t \in Allocators : Associate(t, s)) \/ CompleteUnqueued(s)
      PROVE  [Life!Next]_Life!vars
  <2>1. UNCHANGED <<connected, socketOpen, refCount, active>>
    BY <1>6, PortSteps DEF sessionVars, connVars
  <2>. QED  BY <2>1, PhaseKept
<1>. QED  BY <1>1, <1>2, <1>3, <1>4, <1>5, <1>6, NetworkAssumption DEF Next

\* Every session begins free and unreferenced.
LEMMA InitLives == Init => Life!Init
BY DEF Init, SessionInit, NetworkInit, Life!Init, Phase

\* Network.cpp and Session.cpp implement the life of a session: opened with
\* one reference, referenced further only while open, disconnected once, closed
\* by the last ReleaseRef and by nothing else, back in the pool once.
THEOREM LivesAreImplemented == Spec => LifeSpec
<1>1. HInv /\ [Next]_vars => [Life!Next]_Life!vars
  BY NextLives
<1>. QED  BY <1>1, InitLives, HandlerInvariance, PTL DEF Spec, LifeSpec, Life!Spec

------------------------------------------------------------------------------
(* The pool                                                                *)

\* The active sessions of one I/O thread.
Load(i) == {s \in active : threadOf[s] = i}

\* The counters of the pool, without the free list.
PoolCounted ==
    /\ sessionCount = Cardinality(active) - Cardinality(associating)
    /\ \A i \in IoThreads : countPerThread[i] = Cardinality(Load(i))

PInv == HInv /\ PoolCounted

\* The sets that are counted are finite.
LEMMA LoadsFinite ==
    ASSUME HInv
    PROVE  /\ IsFiniteSet(active) /\ Cardinality(active) \in Nat
           /\ \A i : IsFiniteSet(Load(i)) /\ Cardinality(Load(i)) \in Nat
<1>1. active \subseteq Sessions /\ IsFiniteSet(Sessions)
  BY SessionAssumption DEF HInv, IInv, TypeOK
<1>2. \A i : Load(i) \subseteq Sessions
  BY <1>1 DEF Load
<1>. QED  BY <1>1, <1>2, FS_Subset, FS_CardinalityType

\* At most one session is between Attach and Associate.
LEMMA AssociatingCount ==
    ASSUME HInv
    PROVE  /\ associating = {} => Cardinality(associating) = 0
           /\ associating # {} => Cardinality(associating) = 1
<1>1. associating = {} \/ \E t \in Allocators, s \in Sessions : associating = {<<t, s>>}
  BY DEF HInv, IInv, TypeOK, PortTypeOK
<1>. QED  BY <1>1, FS_EmptySet, FS_Singleton

\* AllocateSession counts the session once, at the thread it is given to.
LEMMA AllocateCounts ==
    ASSUME PInv, NEW t \in Allocators, NEW s \in Sessions, AllocateSession(t, s)
    PROVE  PoolCounted'
<1>0. /\ s \notin active /\ active' = active \cup {s} /\ sessionCount' = sessionCount
      /\ threadOf \in [Sessions -> IoThreads] /\ countPerThread \in [IoThreads -> Int]
      /\ active \subseteq Sessions
  BY AllocatedIsFree DEF AllocateSession, PInv, HInv, IInv, TypeOK
<1>1. PICK i \in IoThreads : /\ threadOf' = [threadOf EXCEPT ![s] = i]
                             /\ countPerThread' = [countPerThread EXCEPT ![i] = @ + 1]
  BY DEF AllocateSession, LeastLoaded
<1>2. sessionCount' = Cardinality(active') - Cardinality(associating')
  <2>1. associating = {} /\ associating' = {<<t, s>>}
    BY DEF AllocateSession
  <2>2. Cardinality(associating) = 0 /\ Cardinality(associating') = 1
    BY <2>1, FS_EmptySet, FS_Singleton
  <2>3. Cardinality(active') = Cardinality(active) + 1 /\ Cardinality(active) \in Nat
    BY <1>0, LoadsFinite, FS_AddElement DEF PInv
  <2>. QED  BY <1>0, <2>2, <2>3 DEF PInv, PoolCounted
<1>3. ASSUME NEW j \in IoThreads PROVE countPerThread'[j] = Cardinality(Load(j)')
  <2>1. countPerThread[j] = Cardinality(Load(j)) /\ s \notin Load(j)
    BY <1>0 DEF PInv, PoolCounted, Load
  <2>2. CASE j = i
    <3>1. Load(j)' = Load(j) \cup {s}
      BY <1>0, <1>1, <2>2 DEF Load
    <3>. QED  BY <1>0, <1>1, <2>1, <2>2, <3>1, LoadsFinite, FS_AddElement DEF PInv
  <2>3. CASE j # i
    <3>1. Load(j)' = Load(j)
      BY <1>0, <1>1, <2>3 DEF Load
    <3>. QED  BY <1>0, <1>1, <2>1, <2>3, <3>1
  <2>. QED  BY <2>2, <2>3
<1>. QED  BY <1>2, <1>3 DEF PoolCounted

\* ReleaseSession takes it back from that thread.
LEMMA ReleaseCounts ==
    ASSUME PInv, NEW t \in Threads, NEW s \in Sessions, ReleaseSession(t, s)
    PROVE  PoolCounted'
<1>0. /\ s \in active /\ threadOf \in [Sessions -> IoThreads]
      /\ countPerThread \in [IoThreads -> Int]
  BY ReleasedIsClosing DEF PInv, HInv, IInv, TypeOK
<1>1. /\ active' = active \ {s} /\ sessionCount' = sessionCount - 1 /\ threadOf' = threadOf
      /\ countPerThread' = [countPerThread EXCEPT ![threadOf[s]] = @ - 1]
  BY <1>0 DEF ReleaseSession, poolVars
<1>2. sessionCount' = Cardinality(active') - Cardinality(associating')
  <2>1. associating' = associating /\ Cardinality(associating) = 0
    BY AssociatingCount DEF ReleaseSession, portVars, PInv
  <2>2. Cardinality(active') = Cardinality(active) - 1 /\ Cardinality(active) \in Nat
    BY <1>0, <1>1, LoadsFinite, FS_RemoveElement DEF PInv
  <2>. QED  BY <1>1, <2>1, <2>2 DEF PInv, PoolCounted
<1>3. ASSUME NEW j \in IoThreads PROVE countPerThread'[j] = Cardinality(Load(j)')
  <2>1. countPerThread[j] = Cardinality(Load(j))
    BY DEF PInv, PoolCounted
  <2>2. CASE j = threadOf[s]
    <3>1. Load(j)' = Load(j) \ {s} /\ s \in Load(j)
      BY <1>0, <1>1, <2>2 DEF Load
    <3>. QED  BY <1>0, <1>1, <2>1, <2>2, <3>1, LoadsFinite, FS_RemoveElement DEF PInv
  <2>3. CASE j # threadOf[s]
    <3>1. Load(j)' = Load(j)
      BY <1>0, <1>1, <2>3 DEF Load
    <3>. QED  BY <1>0, <1>1, <2>1, <2>3, <3>1
  <2>. QED  BY <2>2, <2>3
<1>. QED  BY <1>2, <1>3 DEF PoolCounted

\* No other step touches the pool.
LEMMA NextCounts ==
    ASSUME PInv, [Next]_vars
    PROVE  PoolCounted'
<1>1. CASE UNCHANGED <<poolVars, associating>>
  BY <1>1 DEF PInv, PoolCounted, Load, poolVars
<1>2. CASE UNCHANGED vars
  BY <1>1, <1>2 DEF vars, networkVars, portVars
<1>3. ASSUME NEW s \in Sessions, NEW t \in Threads, Run(t, s) PROVE PoolCounted'
  BY <1>1, <1>3, ReleaseCounts DEF Run, AddClosing, networkVars, portVars
<1>4. ASSUME NEW s \in Sessions, NEW t \in Allocators, AllocateSession(t, s)
      PROVE  PoolCounted'
  BY <1>4, AllocateCounts
<1>5. ASSUME NEW s \in Sessions, NEW t \in Threads,
             IoDequeue(t, s) \/ DequeueProcess(t, s) \/ AppCall(t, s) \/ TakeClosing(s)
      PROVE  PoolCounted'
  BY <1>1, <1>5 DEF IoDequeue, DequeueRecv, DequeueSend, DequeueFailed, DequeueProcess, AppCall,
     TakeClosing, networkVars, portVars
<1>6. ASSUME NEW s \in Sessions, TakeClosing(s) PROVE PoolCounted'
  BY <1>5, <1>6, NetworkAssumption
<1>7. ASSUME NEW s \in Sessions, NEW t \in Allocators, Associate(t, s) PROVE PoolCounted'
  <2>1. /\ associating # {} /\ associating' = {} /\ sessionCount' = sessionCount + 1
        /\ active' = active /\ countPerThread' = countPerThread /\ threadOf' = threadOf
    BY <1>7 DEF Associate
  <2>2. Cardinality(associating) = 1 /\ Cardinality(associating') = 0
    BY <2>1, AssociatingCount, FS_EmptySet DEF PInv
  <2>3. Cardinality(active) \in Nat
    BY LoadsFinite DEF PInv
  <2>. QED  BY <2>1, <2>2, <2>3 DEF PInv, PoolCounted, Load
<1>8. ASSUME NEW s \in Sessions, CompleteUnqueued(s) PROVE PoolCounted'
  BY <1>1, <1>8 DEF CompleteUnqueued
<1>. QED  BY <1>2, <1>3, <1>4, <1>5, <1>6, <1>7, <1>8, NetworkAssumption DEF Next

\* Initially no session is active and nothing is counted.
LEMMA InitCounts == Init => PoolCounted
<1> SUFFICES ASSUME Init PROVE PoolCounted
  OBVIOUS
<1>1. active = {} /\ associating = {} /\ sessionCount = 0 /\ countPerThread = [i \in IoThreads |-> 0]
  BY DEF Init, NetworkInit
<1>2. \A i : Load(i) = {}
  BY <1>1 DEF Load
<1>. QED  BY <1>1, <1>2, FS_EmptySet DEF PoolCounted

\* AllocateSession and ReleaseSession lose no session and hand none out twice,
\* and m_SessionCount and m_SessionCountPerThread agree with the active ones.
THEOREM PoolIsConsistent == Spec => []PoolConsistent
<1>1. Init => PInv
  BY InitHInv, InitCounts DEF PInv
<1>2. PInv /\ [Next]_vars => PInv'
  BY NextHInv, NextCounts DEF PInv
<1>3. PInv => PoolConsistent
  BY DEF PInv, HInv, IInv, FreeListed, PoolCounted, Load, PoolConsistent
<1>. QED  BY <1>1, <1>2, <1>3, PTL DEF Spec
==============================================================================
