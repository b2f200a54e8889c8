-------------------------- MODULE NetworkLifeProofs --------------------------
(***************************************************************************)
(* Theorems about NetworkLife, for any number of sessions and workers and  *)
(* any bound on the calls of Start: the reference count of a session is    *)
(* exact while the threads start and stop, hence a session is free only    *)
(* when nobody works for it, and the pool is destroyed when nobody can     *)
(* reach a session.                                                        *)
(***************************************************************************)
EXTENDS NetworkLife, FiniteSetTheorems, SequenceTheorems, TLAPS

------------------------------------------------------------------------------
(* The inductive invariant                                                 *)

\* Where a worker has the reference that its operation came with, ...
Holding == {"work", "post", "release", "drop"}
Held(s) == {t \in Workers : pc[t] \in Holding /\ on[t] = s}
\* ... and who has yet to give back the reference of a session it has
\* disconnected; Main works on its slot.
Of(t) == IF t = Main THEN slot ELSE on[t]
Owing(s) == {t \in Threads : At(t, "drop") /\ Of(t) = s}

RefsExact ==
    \A s \in Sessions :
        refs[s] = (IF phase[s] = "open" THEN 1 ELSE 0) + ioOps[s] + procOps[s]
                      + Cardinality(Held(s)) + Cardinality(Owing(s))

PhasesSound ==
    \A s \in Sessions :
        /\ phase[s] # "stillborn"
        /\ phase[s] \in {"free", "closing"} <=> refs[s] = 0

\* Thread t has yet to post the next receive of s, or to give up.
Receives(t, s) == t \in IoThreads /\ pc[t] \in {"work", "post"} /\ on[t] = s

\* No receive is posted twice; the acceptor, which has no reference, finds the
\* session as it has opened it, or disconnected.
OneReceiver ==
    /\ \A s \in Sessions, t, u \in IoThreads :
           Receives(t, s) => ioOps[s] = 0 /\ (Receives(u, s) => u = t)
    /\ \A s \in Sessions : At(Acceptor, "post") /\ on[Acceptor] = s =>
           ioOps[s] = 0 /\ procOps[s] = 0 /\ Held(s) = {}

\* What is listed is closing, once, and so is what the closing thread has
\* taken from the list.
ListSound ==
    /\ \A i \in DOMAIN closingList : phase[closingList[i]] = "closing"
    /\ \A i, j \in DOMAIN closingList : closingList[i] = closingList[j] => i = j
    /\ At(Closer, "release") =>
           /\ phase[on[Closer]] = "closing"
           /\ \A i \in DOMAIN closingList : closingList[i] # on[Closer]

\* Where the threads can be.
MainLabels == {"idle", "up", "stop", "shutdown", "disconnect", "drop", "wait", "enqueue",
               "joinIo", "joinProc", "notify", "joinCloser", "destroy"}
WorkerLabels == {"none", "test", "dequeue", "done"} \cup Holding
AcceptorLabels == {"none", "test", "accept", "allocate", "post", "done"}
CloserLabels == {"none", "check", "block", "wait", "release", "done"}
AppLabels == {"idle", "drop"}
Placed ==
    /\ pc[Main] \in MainLabels
    /\ \A t \in Workers : pc[t] \in WorkerLabels
    /\ \A t \in ProcThreads : pc[t] # "post"
    /\ pc[Acceptor] \in AcceptorLabels
    /\ pc[Closer] \in CloserLabels
    /\ pc[App] \in AppLabels

\* How far Start and Shutdown are, and what they have achieved so far.
Serving == {"up", "stop", "shutdown"}
Waiting == {"disconnect", "drop", "wait"}
Joined(T) == \A t \in T : At(t, "none")
Stages ==
    /\ pool = ~At(Main, "idle")
    /\ pc[Main] \notin Serving => At(Acceptor, "none")
    /\ At(Main, "drop") => slot \in Sessions
    /\ At(Main, "wait") => \A s \in Sessions : s < slot => phase[s] = "free"
    /\ pc[Main] \notin Serving \cup Waiting => \A s \in Sessions : phase[s] = "free"
    /\ pc[Main] \notin Serving \cup Waiting \cup {"idle"} => ~running
    /\ pc[Main] \in {"joinProc", "notify", "joinCloser", "destroy", "idle"} => Joined(IoThreads)
    /\ pc[Main] \in {"notify", "joinCloser", "destroy", "idle"} => Joined(ProcThreads)
    /\ pc[Main] \in {"destroy", "idle"} => At(Closer, "none")

IInv ==
    /\ NetworkLifeTypeOK
    /\ RefsExact /\ PhasesSound /\ OneReceiver /\ ListSound
    /\ Placed /\ Stages /\ EntriesSuffice

------------------------------------------------------------------------------
(* Threads                                                                 *)

\* There are finitely many threads.
LEMMA ThreadsFinite ==
    /\ IsFiniteSet(Threads) /\ IsFiniteSet(IoThreads) /\ IsFiniteSet(ProcThreads)
<1>1. IsFiniteSet(Workers)
  BY NetworkLifeAssumption
<1>2. IsFiniteSet({Main, Acceptor, Closer, App})
  <2>1. IsFiniteSet({Main} \cup {Acceptor})
    BY FS_Singleton, FS_Union
  <2>2. IsFiniteSet({Closer} \cup {App})
    BY FS_Singleton, FS_Union
  <2>3. {Main, Acceptor, Closer, App} = ({Main} \cup {Acceptor}) \cup ({Closer} \cup {App})
    OBVIOUS
  <2>4. IsFiniteSet(({Main} \cup {Acceptor}) \cup ({Closer} \cup {App}))
    BY <2>1, <2>2, FS_Union
  <2>. QED
    BY <2>3, <2>4
<1>3. IsFiniteSet(IoThreads) /\ IsFiniteSet(ProcThreads)
  BY <1>1, FS_Subset DEF Workers
<1>. QED
  BY <1>1, <1>2, <1>3, FS_Union DEF Threads

\* The threads that are not workers are four different ones.
LEMMA ThreadsDiffer ==
    /\ Main # Acceptor /\ Main # Closer /\ Main # App
    /\ Acceptor # Closer /\ Acceptor # App /\ Closer # App
    /\ Main \notin Workers /\ Acceptor \notin Workers /\ Closer \notin Workers /\ App \notin Workers
<1>1. ASSUME NEW a, NEW b, NEW c
      PROVE  IsFiniteSet({a, b, c}) /\ Cardinality({a, b, c}) <= 3
  <2>1. {a, b, c} = ({a} \cup {b}) \cup {c}
    OBVIOUS
  <2>2. /\ IsFiniteSet({a}) /\ Cardinality({a}) = 1
    BY FS_Singleton
  <2>3. /\ IsFiniteSet({a} \cup {b})
        /\ Cardinality({a} \cup {b}) \in {1, 2}
    BY <2>2, FS_AddElement
  <2>4. /\ IsFiniteSet(({a} \cup {b}) \cup {c})
        /\ \/ Cardinality(({a} \cup {b}) \cup {c}) = Cardinality({a} \cup {b})
           \/ Cardinality(({a} \cup {b}) \cup {c}) = Cardinality({a} \cup {b}) + 1
    BY <2>3, FS_AddElement
  <2>. QED
    BY <2>1, <2>3, <2>4
<1>2. ASSUME NEW a, NEW b, NEW c, {Main, Acceptor, Closer, App} = {a, b, c}
      PROVE  FALSE
  <2>1. Cardinality({Main, Acceptor, Closer, App}) <= 3
    BY <1>1, <1>2
  <2>. QED
    BY <2>1, NetworkLifeAssumption
<1>3. /\ Main # Acceptor /\ Main # Closer /\ Main # App
      /\ Acceptor # Closer /\ Acceptor # App /\ Closer # App
  <2>1. Main = Acceptor => {Main, Acceptor, Closer, App} = {Acceptor, Closer, App}
    OBVIOUS
  <2>2. Main = Closer => {Main, Acceptor, Closer, App} = {Acceptor, Closer, App}
    OBVIOUS
  <2>3. Main = App => {Main, Acceptor, Closer, App} = {Acceptor, Closer, App}
    OBVIOUS
  <2>4. Acceptor = Closer => {Main, Acceptor, Closer, App} = {Main, Closer, App}
    OBVIOUS
  <2>5. Acceptor = App => {Main, Acceptor, Closer, App} = {Main, Closer, App}
    OBVIOUS
  <2>6. Closer = App => {Main, Acceptor, Closer, App} = {Main, Acceptor, App}
    OBVIOUS
  <2>. QED
    BY <1>2, <2>1, <2>2, <2>3, <2>4, <2>5, <2>6
<1>. QED
  BY <1>3, NetworkLifeAssumption

\* How many there are of a set of threads, when one joins or leaves it.
LEMMA SomeThreads ==
    ASSUME NEW S \in SUBSET Threads
    PROVE  /\ IsFiniteSet(S) /\ Cardinality(S) \in Nat
           /\ Cardinality(S) = 0 <=> S = {}
           /\ \A t \in Threads \ S : Cardinality(S \cup {t}) = Cardinality(S) + 1
           /\ \A t \in S : Cardinality(S \ {t}) = Cardinality(S) - 1
<1>1. IsFiniteSet(S)
  BY ThreadsFinite, FS_Subset
<1>. QED
  BY <1>1, FS_CardinalityType, FS_EmptySet, FS_AddElement, FS_RemoveElement

------------------------------------------------------------------------------
(* Types and labels                                                        *)

PcTyped == pc \in [Threads -> Labels]

\* A thread that goes to a label leaves every thread at one.
LEMMA GotoTyped ==
    ASSUME PcTyped, NEW t \in Threads, NEW l \in Labels, Goto(t, l) \/ GotoAndNotify(t, l)
    PROVE  PcTyped'
<1>1. "check" \in Labels
  BY DEF Labels
<1>. QED
  BY <1>1 DEF PcTyped, Goto, GotoAndNotify

\* What ReleaseRef and the operations of SessionLife do to the types.
LEMMA SessionTyped ==
    ASSUME Life!LifeTypeOK, NEW s \in Sessions,
           \/ Life!Open(s) \/ Life!Acquire(s) \/ Life!Release(s) \/ Life!Disconnect(s)
           \/ Life!Finish(s)
    PROVE  Life!LifeTypeOK'
BY DEF Life!LifeTypeOK, Life!Phases, Life!Open, Life!Acquire, Life!Release, Life!Disconnect,
       Life!Finish, Life!Go

\* Session::Release keeps the types of what it changes.
LEMMA ReleaseTyped ==
    ASSUME NetworkLifeTypeOK, NEW t \in Threads, NEW s \in Sessions, NEW l \in Labels,
           ReleaseRef(t, s, l)
    PROVE  Life!LifeTypeOK' /\ closingList' \in Seq(Sessions) /\ PcTyped'
<1>1. Life!LifeTypeOK'
  BY SessionTyped DEF ReleaseRef, NetworkLifeTypeOK
<1>2. closingList' \in Seq(Sessions)
  BY AppendProperties DEF ReleaseRef, NetworkLifeTypeOK
<1>3. PcTyped'
  BY GotoTyped DEF ReleaseRef, NetworkLifeTypeOK, PcTyped
<1>. QED
  BY <1>1, <1>2, <1>3

\* No step takes a variable out of its type.
LEMMA TypeStep ==
    ASSUME NetworkLifeTypeOK, Placed, Stages, [Next]_vars
    PROVE  NetworkLifeTypeOK'
<1>. DEFINE Counters == /\ ioOps \in [Sessions -> 0 .. 1] /\ procOps \in [Sessions -> 0 .. 1]
                        /\ ioEmpty \in Nat /\ procEmpty \in Nat
            Flags == /\ running \in BOOLEAN /\ runningAcceptor \in BOOLEAN
                     /\ listening \in BOOLEAN /\ pool \in BOOLEAN /\ supportRIO \in BOOLEAN
            Positions == /\ slot \in 0 .. MaxSessionCount /\ starts \in 0 .. MaxStarts
                         /\ on \in [Threads -> Sessions]
            List == closingList \in Seq(Sessions)
            Typed == Life!LifeTypeOK /\ Counters /\ Flags /\ Positions /\ List /\ PcTyped
<1>0. /\ Typed
      /\ Main \in Threads /\ Acceptor \in Threads /\ Closer \in Threads /\ App \in Threads
      /\ \A t \in Workers : t \in Threads
  BY DEF NetworkLifeTypeOK, PcTyped, Threads
<1>00. SUFFICES Typed'
  BY DEF NetworkLifeTypeOK, PcTyped
<1>. USE <1>0
<1>1. CASE Start
  <2>1. PcTyped'
    BY <1>1 DEF Start, PcTyped, Labels
  <2>. QED
    BY <1>1, <2>1, NetworkLifeAssumption DEF Start, opVars, emptyVars, Life!LifeTypeOK
<1>2. CASE StartAcceptor
  <2>1. PcTyped'
    BY <1>2, GotoTyped DEF StartAcceptor, Labels, PcTyped
  <2>. QED
    BY <1>2, <2>1 DEF StartAcceptor, opVars, emptyVars, Life!LifeTypeOK
<1>3. CASE StopAcceptor
  <2>1. PcTyped'
    BY <1>3, GotoTyped DEF StopAcceptor, Labels
  <2>. QED
    BY <1>3, <2>1 DEF StopAcceptor, opVars, emptyVars, Life!LifeTypeOK
<1>4. CASE JoinAcceptor
  <2>1. PcTyped'
    BY <1>4 DEF JoinAcceptor, Labels, PcTyped
  <2>. QED
    BY <1>4, <2>1, NetworkLifeAssumption DEF JoinAcceptor, opVars, emptyVars, Life!LifeTypeOK
<1>5. CASE DisconnectSlot
  <2>1. PcTyped'
    BY <1>5, GotoTyped DEF DisconnectSlot, Labels, PcTyped
  <2>2. Life!LifeTypeOK'
    BY <1>5, SessionTyped DEF DisconnectSlot, Life!LifeTypeOK
  <2>. QED
    BY <1>5, <2>1, <2>2, NetworkLifeAssumption
    DEF DisconnectSlot, opVars, emptyVars, Sessions
<1>6. CASE DropSlot
  <2>1. slot \in Sessions /\ "disconnect" \in Labels
    BY <1>6 DEF DropSlot, Stages, Labels
  <2>2. Life!LifeTypeOK' /\ List' /\ PcTyped'
    BY <1>6, <2>1, ReleaseTyped DEF DropSlot
  <2>3. Positions' /\ Counters'
    BY <1>6, <2>1, NetworkLifeAssumption DEF DropSlot, opVars, emptyVars, Sessions
  <2>. QED
    BY <1>6, <2>2, <2>3 DEF DropSlot
<1>7. CASE DisconnectedAll \/ StopRunning
  <2>1. PcTyped'
    BY <1>7, GotoTyped DEF DisconnectedAll, StopRunning, Labels
  <2>2. Life!LifeTypeOK' /\ List' /\ Flags' /\ Counters'
    BY <1>7 DEF DisconnectedAll, StopRunning, opVars, emptyVars, Life!LifeTypeOK
  <2>3. Positions'
    BY <1>7, NetworkLifeAssumption DEF DisconnectedAll, StopRunning
  <2>. QED
    BY <2>1, <2>2, <2>3
<1>8. CASE WaitForClosedSession
  BY <1>8, NetworkLifeAssumption
  DEF WaitForClosedSession, opVars, emptyVars, Sessions, Life!LifeTypeOK, PcTyped
<1>9. CASE EnqueueEmpty
  <2>1. PcTyped'
    BY <1>9, GotoTyped DEF EnqueueEmpty, Labels
  <2>. QED
    BY <1>9, <2>1, ThreadsFinite, FS_CardinalityType
    DEF EnqueueEmpty, opVars, netVars, Life!LifeTypeOK
<1>10. ASSUME NEW l, NEW T, NEW next \in Labels, Join(l, T, next)
       PROVE  Typed'
  <2>1. PcTyped'
    BY <1>10 DEF Join, Labels, PcTyped
  <2>. QED
    BY <1>10, <2>1 DEF Join, opVars, emptyVars, netVars, Life!LifeTypeOK, PcTyped
<1>11. CASE NotifyCloser
  <2>1. PcTyped'
    BY <1>11, GotoTyped DEF NotifyCloser, Labels
  <2>. QED
    BY <1>11, <2>1 DEF NotifyCloser, opVars, emptyVars, netVars, Life!LifeTypeOK
<1>12. CASE DestroySessionPool
  <2>1. PcTyped'
    BY <1>12, GotoTyped DEF DestroySessionPool, Labels
  <2>. QED
    BY <1>12, <2>1 DEF DestroySessionPool, opVars, emptyVars, Life!LifeTypeOK
<1>13. CASE AcceptorTest \/ Accept
  <2>1. PcTyped'
    BY <1>13, GotoTyped DEF AcceptorTest, Accept, Labels
  <2>. QED
    BY <1>13, <2>1 DEF AcceptorTest, Accept, opVars, emptyVars, netVars, Life!LifeTypeOK
<1>14. CASE AllocateSession
  <2>1. PcTyped'
    BY <1>14, GotoTyped DEF AllocateSession, Labels
  <2>2. Life!LifeTypeOK' /\ on' \in [Threads -> Sessions]
    BY <1>14, SessionTyped DEF AllocateSession, Life!LifeTypeOK
  <2>. QED
    BY <1>14, <2>1, <2>2 DEF AllocateSession, opVars, emptyVars, netVars
<1>15. CASE AcceptorPostRecv
  <2>1. PcTyped'
    BY <1>15, GotoTyped DEF AcceptorPostRecv, Labels
  <2>2. on[Acceptor] \in Sessions /\ 0 \in Sessions
    BY NetworkLifeAssumption DEF Sessions
  <2>3. Life!LifeTypeOK' /\ on' \in [Threads -> Sessions]
    BY <1>15, <2>2, SessionTyped DEF AcceptorPostRecv, Forget, Life!LifeTypeOK
  <2>4. ioOps' \in [Sessions -> 0 .. 1]
    BY <1>15, <2>2 DEF AcceptorPostRecv
  <2>. QED
    BY <1>15, <2>1, <2>3, <2>4 DEF AcceptorPostRecv, emptyVars, netVars
<1>16. ASSUME NEW t \in Workers,
              WorkerTest(t) \/ DequeueEmpty(t) \/ DequeueNothing(t) \/ Dispatched(t)
       PROVE  Typed'
  <2>1. PcTyped'
    BY <1>16, GotoTyped DEF WorkerTest, DequeueEmpty, DequeueNothing, Dispatched, Labels
  <2>. QED
    BY <1>16, <2>1 DEF WorkerTest, DequeueEmpty, DequeueNothing, Dispatched, opVars, emptyVars,
       netVars, Life!LifeTypeOK, PcTyped
<1>17. ASSUME NEW t \in Workers, NEW s \in Sessions, DequeueIO(t, s) \/ DequeueProcess(t, s)
       PROVE  Typed'
  <2>1. PcTyped'
    BY <1>17, GotoTyped DEF DequeueIO, DequeueProcess, Labels
  <2>2. Counters' /\ Positions'
    BY <1>17 DEF DequeueIO, DequeueProcess, emptyVars, netVars
  <2>. QED
    BY <1>17, <2>1, <2>2 DEF DequeueIO, DequeueProcess, netVars, Life!LifeTypeOK, PcTyped
<1>18. ASSUME NEW t \in Workers, PostProcess(t) \/ PostRecv(t)
       PROVE  Typed'
  <2>1. PcTyped'
    BY <1>18, GotoTyped DEF PostProcess, PostRecv, Labels
  <2>2. Life!LifeTypeOK'
    BY <1>18, SessionTyped DEF PostProcess, PostRecv, Life!LifeTypeOK
  <2>3. Counters'
    BY <1>18 DEF PostProcess, PostRecv, emptyVars
  <2>. QED
    BY <1>18, <2>1, <2>2, <2>3 DEF PostProcess, PostRecv, netVars, PcTyped
<1>19. ASSUME NEW t \in Workers, WorkerDisconnect(t)
       PROVE  Typed'
  <2>1. PcTyped'
    BY <1>19, GotoTyped DEF WorkerDisconnect, Labels
  <2>2. Life!LifeTypeOK'
    BY <1>19, SessionTyped DEF WorkerDisconnect, Life!LifeTypeOK
  <2>. QED
    BY <1>19, <2>1, <2>2
    DEF WorkerDisconnect, opVars, emptyVars, netVars, PcTyped
<1>20. ASSUME NEW t \in Workers, WorkerRelease(t)
       PROVE  Typed'
  <2>1. "release" \in Labels /\ "test" \in Labels /\ on[t] \in Sessions /\ 0 \in Sessions
    BY NetworkLifeAssumption DEF Labels, Sessions
  <2>2. Life!LifeTypeOK' /\ List' /\ PcTyped'
    BY <1>20, <2>1, ReleaseTyped DEF WorkerRelease
  <2>3. Positions' /\ Counters' /\ Flags'
    BY <1>20, <2>1 DEF WorkerRelease, Forget, opVars, emptyVars, netVars
  <2>. QED
    BY <2>2, <2>3 DEF PcTyped
<1>21. CASE CloserCheck
  <2>1. PcTyped'
    BY <1>21, GotoTyped DEF CloserCheck, Labels
  <2>2. List' /\ Positions'
    <3>1. CASE closingList # <<>>
      <4>1. Head(closingList) \in Sessions /\ Tail(closingList) \in Seq(Sessions)
        BY <3>1, HeadTailProperties
      <4>. QED
        BY <1>21, <3>1, <4>1 DEF CloserCheck, netVars
    <3>2. CASE closingList = <<>>
      BY <1>21, <3>2 DEF CloserCheck, netVars
    <3>. QED
      BY <3>1, <3>2
  <2>. QED
    BY <1>21, <2>1, <2>2 DEF CloserCheck, opVars, emptyVars, netVars, Life!LifeTypeOK
<1>22. CASE CloserWait
  <2>1. PcTyped'
    BY <1>22, GotoTyped DEF CloserWait, Labels
  <2>. QED
    BY <1>22, <2>1 DEF CloserWait, opVars, emptyVars, netVars, Life!LifeTypeOK
<1>23. CASE CloserRelease
  <2>1. PcTyped'
    BY <1>23, GotoTyped DEF CloserRelease, Labels
  <2>2. Life!LifeTypeOK'
    BY <1>23, SessionTyped DEF CloserRelease
  <2>. QED
    BY <1>23, <2>1, <2>2, NetworkLifeAssumption
    DEF CloserRelease, Forget, opVars, emptyVars, netVars, Sessions
<1>24. CASE AppDisconnect
  <2>1. PcTyped'
    BY <1>24, GotoTyped DEF AppDisconnect, Labels
  <2>2. Life!LifeTypeOK' /\ on' \in [Threads -> Sessions]
    BY <1>24, SessionTyped DEF AppDisconnect
  <2>. QED
    BY <1>24, <2>1, <2>2 DEF AppDisconnect, opVars, emptyVars, netVars
<1>25. CASE AppDrop
  <2>1. "idle" \in Labels /\ on[App] \in Sessions /\ 0 \in Sessions
    BY NetworkLifeAssumption DEF Labels, Sessions
  <2>2. Life!LifeTypeOK' /\ List' /\ PcTyped'
    BY <1>25, <2>1, ReleaseTyped DEF AppDrop
  <2>. QED
    BY <1>25, <2>1, <2>2 DEF AppDrop, Forget, opVars, emptyVars, netVars
<1>26. CASE UNCHANGED vars
  BY <1>26 DEF vars, opVars, emptyVars, netVars, Life!LifeTypeOK, PcTyped
<1>. HIDE DEF Typed
<1>27. CASE Shutdown
  <2>1. "joinProc" \in Labels /\ "notify" \in Labels /\ "destroy" \in Labels
    BY DEF Labels
  <2>. QED
    BY <1>27, <2>1, <1>3, <1>4, <1>5, <1>6, <1>7, <1>8, <1>9, <1>10, <1>11, <1>12 DEF Shutdown
<1>28. CASE \E t \in Workers : WorkerGoesOn(t) \/ \E s \in Sessions : WorkerTakes(t, s)
  BY <1>28, <1>16, <1>17, <1>18, <1>19, <1>20 DEF WorkerGoesOn, WorkerTakes
<1>. QED
  BY <1>1, <1>2, <1>13, <1>14, <1>15, <1>21, <1>22, <1>23, <1>24, <1>25, <1>26, <1>27, <1>28
  DEF Next, AcceptorStep, CloserStep

\* Thread t goes to l, and may wake the closing thread; nobody else moves.
Moves(t, l) == Goto(t, l) \/ GotoAndNotify(t, l)

\* A move of t leaves the other threads where they are, but for a closer that it wakes.
LEMMA MoveEffect ==
    ASSUME PcTyped, NEW t \in Threads, NEW l, Moves(t, l)
    PROVE  /\ pc'[t] = l \/ t = Closer
           /\ \A u \in Threads : u # t =>
                  pc'[u] = pc[u] \/ (u = Closer /\ pc[u] = "wait" /\ pc'[u] = "check")
           /\ Goto(t, l) => pc'[t] = l
BY DEF PcTyped, Moves, Goto, GotoAndNotify

\* A move to a label of its own program leaves the thread in its program.
LEMMA PlacedMove ==
    ASSUME PcTyped, Placed, NEW t \in Threads, NEW l, Moves(t, l),
           \/ t = Main /\ l \in MainLabels
           \/ t = Acceptor /\ l \in AcceptorLabels
           \/ t = Closer /\ l \in CloserLabels /\ Goto(t, l)
           \/ t = App /\ l \in AppLabels
           \/ t \in Workers /\ l \in WorkerLabels /\ (l = "post" => t \notin ProcThreads)
    PROVE  Placed'
<1>1. "check" \in CloserLabels
  BY DEF CloserLabels
<1>. QED
  BY <1>1, MoveEffect, ThreadsDiffer DEF Placed, Threads, Workers

\* Every thread stays within its own program.
LEMMA PlacedStep ==
    ASSUME NetworkLifeTypeOK, Placed, [Next]_vars
    PROVE  Placed'
<1>0. /\ PcTyped
      /\ Main \in Threads /\ Acceptor \in Threads /\ Closer \in Threads /\ App \in Threads
      /\ \A t \in Workers : t \in Threads
      /\ IoThreads \subseteq Workers /\ ProcThreads \subseteq Workers
      /\ \A t \in IoThreads : t \notin ProcThreads
  BY NetworkLifeAssumption DEF NetworkLifeTypeOK, PcTyped, Threads, Workers
<1>. USE <1>0
<1>1. CASE Start
  BY <1>1, ThreadsDiffer DEF Start, PcTyped, Placed, MainLabels, WorkerLabels, CloserLabels
<1>2. CASE StartAcceptor
  BY <1>2, PlacedMove DEF StartAcceptor, Moves, AcceptorLabels, Placed
<1>3. CASE JoinAcceptor
  BY <1>3, ThreadsDiffer DEF JoinAcceptor, PcTyped, Placed, MainLabels, AcceptorLabels
<1>4. CASE StopAcceptor \/ DisconnectedAll \/ StopRunning \/ EnqueueEmpty \/ NotifyCloser
           \/ DestroySessionPool
  <2>1. PICK l \in MainLabels : Moves(Main, l)
    BY <1>4 DEF StopAcceptor, DisconnectedAll, StopRunning, EnqueueEmpty, NotifyCloser,
       DestroySessionPool, Moves, MainLabels
  <2>. QED
    BY <2>1, PlacedMove
<1>5. CASE DisconnectSlot \/ DropSlot \/ WaitForClosedSession
  <2>1. UNCHANGED pc \/ \E l \in MainLabels : Moves(Main, l)
    BY <1>5 DEF DisconnectSlot, DropSlot, WaitForClosedSession, ReleaseRef, Moves, MainLabels
  <2>2. CASE UNCHANGED pc
    BY <2>2 DEF Placed
  <2>. QED
    BY <2>1, <2>2, PlacedMove
<1>6. ASSUME NEW l, NEW T, NEW next \in MainLabels, Join(l, T, next),
             T \subseteq Workers \/ T = {Closer}
      PROVE  Placed'
  <2>1. "none" \in WorkerLabels /\ "none" \in CloserLabels
    BY DEF WorkerLabels, CloserLabels
  <2>. QED
    BY <1>6, <2>1, ThreadsDiffer DEF Join, PcTyped, Placed
<1>7. CASE Shutdown
  <2>1. "joinProc" \in MainLabels /\ "notify" \in MainLabels /\ "destroy" \in MainLabels
    BY DEF MainLabels
  <2>. QED
    BY <1>3, <1>4, <1>5, <1>6, <1>7, <2>1 DEF Shutdown
<1>8. CASE AcceptorStep
  <2>1. PICK l \in AcceptorLabels : Moves(Acceptor, l)
    BY <1>8 DEF AcceptorStep, AcceptorTest, Accept, AllocateSession, AcceptorPostRecv, Moves,
       AcceptorLabels
  <2>. QED
    BY <2>1, PlacedMove
<1>9. CASE CloserStep
  <2>1. PICK l \in CloserLabels : Goto(Closer, l)
    BY <1>9 DEF CloserStep, CloserCheck, CloserWait, CloserRelease, CloserLabels
  <2>. QED
    BY <2>1, PlacedMove DEF Moves
<1>10. CASE AppDisconnect \/ AppDrop
  <2>1. PICK l \in AppLabels : Moves(App, l)
    BY <1>10 DEF AppDisconnect, AppDrop, ReleaseRef, Moves, AppLabels
  <2>. QED
    BY <2>1, PlacedMove
<1>11. ASSUME NEW t \in Workers,
              WorkerGoesOn(t) \/ \E s \in Sessions : WorkerTakes(t, s)
       PROVE  Placed'
  <2>1. PICK l \in WorkerLabels : Moves(t, l) /\ (l = "post" => t \notin ProcThreads)
    <3>1. CASE WorkerTest(t) \/ DequeueEmpty(t) \/ DequeueNothing(t) \/ Dispatched(t)
      BY <3>1 DEF WorkerTest, DequeueEmpty, DequeueNothing, Dispatched, Moves, WorkerLabels, Holding
    <3>2. CASE PostProcess(t)
      BY <3>2 DEF PostProcess, Moves, WorkerLabels, Holding
    <3>3. CASE PostRecv(t) \/ WorkerDisconnect(t)
      BY <3>3 DEF PostRecv, WorkerDisconnect, Moves, WorkerLabels, Holding
    <3>4. CASE WorkerRelease(t)
      BY <3>4 DEF WorkerRelease, ReleaseRef, Moves, WorkerLabels, Holding
    <3>5. CASE \E s \in Sessions : WorkerTakes(t, s)
      BY <3>5 DEF WorkerTakes, DequeueIO, DequeueProcess, Moves, WorkerLabels, Holding
    <3>. QED
      BY <1>11, <3>1, <3>2, <3>3, <3>4, <3>5 DEF WorkerGoesOn
  <2>. QED
    BY <2>1, PlacedMove
<1>12. CASE UNCHANGED vars
  BY <1>12 DEF vars, Placed
<1>. QED
  BY <1>1, <1>2, <1>7, <1>8, <1>9, <1>10, <1>11, <1>12 DEF Next

------------------------------------------------------------------------------
(* The reference counts                                                    *)

\* Thread u neither works for a session nor owes a reference, before and after
\* a step, or it stays where it is.
Rests(u) ==
    \/ pc[u] \notin Holding /\ pc'[u] \notin Holding
    \/ pc'[u] = pc[u] /\ on'[u] = on[u] /\ (u = Main => slot' = slot)

\* The references of the session itself and of what is posted for it.
Posted(s) == (IF phase[s] = "open" THEN 1 ELSE 0) + ioOps[s] + procOps[s]
HeldBy(t, s) == IF t \in Held(s) THEN 1 ELSE 0
OwedBy(t, s) == IF t \in Owing(s) THEN 1 ELSE 0

\* Who holds or owes a reference is a thread.
LEMMA SetsTyped ==
    ASSUME NEW s
    PROVE  Held(s) \in SUBSET Threads /\ Owing(s) \in SUBSET Threads
           /\ Held(s)' \in SUBSET Threads /\ Owing(s)' \in SUBSET Threads
BY DEF Held, Owing, Threads

\* When all threads but t rest, the cardinalities change by what t does.
LEMMA OneMember ==
    ASSUME NEW S \in SUBSET Threads, NEW R \in SUBSET Threads, NEW t \in Threads,
           \A u \in Threads : u # t => (u \in R <=> u \in S)
    PROVE  Cardinality(R) = Cardinality(S) + (IF t \in R THEN 1 ELSE 0) - (IF t \in S THEN 1 ELSE 0)
<1>. /\ Cardinality(S) \in Nat /\ Cardinality(R) \in Nat
  BY SomeThreads
<1>1. CASE t \in R /\ t \notin S
  <2>1. R = S \cup {t}
    BY <1>1
  <2>. QED
    BY <1>1, <2>1, SomeThreads
<1>2. CASE t \notin R /\ t \in S
  <2>1. R = S \ {t}
    BY <1>2
  <2>. QED
    BY <1>2, <2>1, SomeThreads
<1>3. CASE t \in R <=> t \in S
  <2>1. R = S
    BY <1>3
  <2>. QED
    BY <1>3, <2>1
<1>. QED
  BY <1>1, <1>2, <1>3

\* When all threads but t rest, holders and debtors are counted by what t does.
LEMMA CountsMove ==
    ASSUME NEW t \in Threads, \A u \in Threads : u # t => Rests(u), NEW s
    PROVE  /\ Cardinality(Held(s)') = Cardinality(Held(s)) + HeldBy(t, s)' - HeldBy(t, s)
           /\ Cardinality(Owing(s)') = Cardinality(Owing(s)) + OwedBy(t, s)' - OwedBy(t, s)
           /\ \A u \in Threads : u # t => (u \in Held(s)' <=> u \in Held(s))
           /\ \A u \in Threads : u # t => (u \in Owing(s)' <=> u \in Owing(s))
<1>1. ASSUME NEW u \in Threads, u # t
      PROVE  (u \in Held(s)' <=> u \in Held(s)) /\ (u \in Owing(s)' <=> u \in Owing(s))
  BY <1>1 DEF Rests, Held, Owing, Of, At, Holding
<1>2. /\ Cardinality(Held(s)') = Cardinality(Held(s)) + HeldBy(t, s)' - HeldBy(t, s)
  BY <1>1, SetsTyped, OneMember DEF HeldBy
<1>3. /\ Cardinality(Owing(s)') = Cardinality(Owing(s)) + OwedBy(t, s)' - OwedBy(t, s)
  BY <1>1, SetsTyped, OneMember DEF OwedBy
<1>. QED
  BY <1>1, <1>2, <1>3

\* The counts that RefsExact adds are numbers.
LEMMA CountsTyped ==
    NetworkLifeTypeOK =>
        \A s \in Sessions : /\ phase[s] \in Life!Phases /\ refs[s] \in Nat
                            /\ ioOps[s] \in 0 .. 1 /\ procOps[s] \in 0 .. 1
BY DEF NetworkLifeTypeOK, Life!LifeTypeOK

\* The same behind a step.
LEMMA CountsTypedNext ==
    NetworkLifeTypeOK' =>
        \A s \in Sessions : /\ phase'[s] \in Life!Phases /\ refs'[s] \in Nat
                            /\ ioOps'[s] \in 0 .. 1 /\ procOps'[s] \in 0 .. 1
BY DEF NetworkLifeTypeOK, Life!LifeTypeOK

\* A step of thread t in which the count of s changes by as much as what it counts.
Balances(t, s) ==
    refs'[s] - refs[s] = (Posted(s)' - Posted(s)) + (HeldBy(t, s)' - HeldBy(t, s))
                            + (OwedBy(t, s)' - OwedBy(t, s))

\* A step of one thread that balances for every session keeps the counts exact.
LEMMA Balanced ==
    ASSUME NetworkLifeTypeOK, NetworkLifeTypeOK', RefsExact,
           NEW t \in Threads, \A u \in Threads : u # t => Rests(u),
           \A s \in Sessions : Balances(t, s)
    PROVE  RefsExact'
<1>. SUFFICES ASSUME NEW s \in Sessions
              PROVE  refs'[s] = Posted(s)' + Cardinality(Held(s)') + Cardinality(Owing(s)')
  BY DEF RefsExact, Posted
<1>1. refs[s] = Posted(s) + Cardinality(Held(s)) + Cardinality(Owing(s))
  BY DEF RefsExact, Posted
<1>2. refs[s] \in Int /\ refs'[s] \in Int
  BY CountsTyped, CountsTypedNext
<1>3. Posted(s) \in Int /\ Posted(s)' \in Int
  BY CountsTyped, CountsTypedNext DEF Posted
<1>4. Cardinality(Held(s)) \in Int /\ Cardinality(Owing(s)) \in Int
  BY SetsTyped, SomeThreads
<1>5. /\ HeldBy(t, s) \in Int /\ HeldBy(t, s)' \in Int
      /\ OwedBy(t, s) \in Int /\ OwedBy(t, s)' \in Int
  BY DEF HeldBy, OwedBy
<1>6. /\ Cardinality(Held(s)') = Cardinality(Held(s)) + HeldBy(t, s)' - HeldBy(t, s)
      /\ Cardinality(Owing(s)') = Cardinality(Owing(s)) + OwedBy(t, s)' - OwedBy(t, s)
  BY CountsMove
<1>7. refs'[s] - refs[s] = (Posted(s)' - Posted(s)) + (HeldBy(t, s)' - HeldBy(t, s))
                               + (OwedBy(t, s)' - OwedBy(t, s))
  BY DEF Balances
<1>8. refs'[s] = Posted(s)' + (Cardinality(Held(s)) + HeldBy(t, s)' - HeldBy(t, s))
                     + (Cardinality(Owing(s)) + OwedBy(t, s)' - OwedBy(t, s))
  BY <1>1, <1>2, <1>3, <1>4, <1>5, <1>7
<1>. QED
  BY <1>6, <1>8

\* A session that is referenced by anybody is not free; a session that is free
\* has nothing on its way.
LEMMA Referenced ==
    ASSUME NetworkLifeTypeOK, RefsExact, PhasesSound, NEW s \in Sessions
    PROVE  /\ phase[s] \in {"free", "closing"} =>
                  ioOps[s] = 0 /\ procOps[s] = 0 /\ Held(s) = {} /\ Owing(s) = {}
           /\ Held(s) # {} \/ Owing(s) # {} =>
                  /\ phase[s] \in {"open", "draining"} /\ refs[s] > 0
                  /\ phase[s] = "open" => refs[s] > 1
<1>1. /\ refs[s] \in Nat /\ ioOps[s] \in 0 .. 1 /\ procOps[s] \in 0 .. 1
      /\ phase[s] \in Life!Phases
  BY CountsTyped
<1>2. /\ Cardinality(Held(s)) \in Nat /\ Cardinality(Owing(s)) \in Nat
      /\ Cardinality(Held(s)) = 0 <=> Held(s) = {}
      /\ Cardinality(Owing(s)) = 0 <=> Owing(s) = {}
  BY SetsTyped, SomeThreads
<1>. QED
  BY <1>1, <1>2 DEF RefsExact, PhasesSound, Life!Phases

SessionInv == RefsExact /\ PhasesSound /\ OneReceiver /\ ListSound

\* A step that leaves the sessions alone.
LEMMA QuietStep ==
    ASSUME SessionInv, UNCHANGED <<phase, refs, ioOps, procOps, closingList>>,
           \A u \in Threads : Rests(u)
    PROVE  SessionInv'
<1>1. \A s : Held(s)' = Held(s) /\ Owing(s)' = Owing(s)
  BY DEF Rests, Held, Owing, Of, At, Holding, Threads
<1>2. RefsExact' /\ PhasesSound'
  BY <1>1 DEF SessionInv, RefsExact, PhasesSound
<1>3. \A t \in IoThreads : \A s : Receives(t, s)' <=> Receives(t, s)
  BY DEF Rests, Receives, Holding, Threads, Workers
<1>4. OneReceiver'
  BY <1>1, <1>3 DEF SessionInv, OneReceiver, Rests, At, Holding, Threads
<1>5. ListSound'
  BY DEF SessionInv, ListSound, Rests, At, Holding, Threads
<1>. QED
  BY <1>2, <1>4, <1>5 DEF SessionInv

\* The threads that a step does not move rest.
LEMMA OthersRest ==
    ASSUME PcTyped, on \in [Threads -> Sessions], NEW t \in Threads, NEW l, Moves(t, l),
           on' = on \/ \E x : on' = [on EXCEPT ![t] = x],
           t = Main \/ UNCHANGED slot
    PROVE  \A u \in Threads : u # t => Rests(u)
<1>1. \A u \in Threads : u # t => on'[u] = on[u]
  OBVIOUS
<1>. QED
  BY <1>1, MoveEffect DEF Rests, Holding

\* The receives that are left when thread t may have stopped receiving.
LEMMA ReceiversRest ==
    ASSUME NEW t \in Threads, \A u \in Threads : u # t => Rests(u)
    PROVE  \A u \in IoThreads : u # t => \A s : Receives(u, s)' <=> Receives(u, s)
BY DEF Rests, Receives, Holding, Threads, Workers

\* t gives one reference back, or moves it.
Gives(t, r, s) ==
    (HeldBy(t, r)' - HeldBy(t, r)) + (OwedBy(t, r)' - OwedBy(t, r)) = IF r = s THEN -1 ELSE 0

\* Session::Release of a thread that gives its reference back keeps the sessions sound.
LEMMA ReleaseStep ==
    ASSUME NetworkLifeTypeOK, NetworkLifeTypeOK', SessionInv,
           NEW t \in Threads, t # Closer, t # Acceptor, \A u \in Threads : u # t => Rests(u),
           NEW s \in Sessions, NEW l, l \notin {"work", "post"}, ReleaseRef(t, s, l), UNCHANGED opVars,
           \A r \in Sessions : Gives(t, r, s) /\ (t \in Held(r)' => t \in Held(r))
    PROVE  SessionInv'
<1>0. PcTyped /\ Moves(t, l)
  BY DEF NetworkLifeTypeOK, PcTyped, ReleaseRef, Moves
<1>1. /\ \A r \in Sessions : phase[r] \in Life!Phases /\ refs[r] \in Nat
      /\ \A r \in Sessions : refs'[r] = IF r = s THEN refs[s] - 1 ELSE refs[r]
      /\ \A r \in Sessions : r # s => phase'[r] = phase[r]
      /\ \/ phase'[s] = phase[s] /\ phase[s] \in {"open", "draining"} /\ refs[s] > 1
         \/ phase[s] = "draining" /\ phase'[s] = "closing" /\ refs[s] = 1
  BY DEF NetworkLifeTypeOK, Life!LifeTypeOK, ReleaseRef, Life!Release, Life!Go
<1>2. RefsExact'
  <2>1. ASSUME NEW r \in Sessions
        PROVE  Balances(t, r)
    <3>1. refs'[r] - refs[r] = IF r = s THEN -1 ELSE 0
      BY <1>1
    <3>2. Posted(r)' = Posted(r) /\ Posted(r) \in Int
      BY <1>1, CountsTyped DEF Posted, opVars
    <3>3. Gives(t, r, s)
      OBVIOUS
    <3>4. /\ HeldBy(t, r) \in Int /\ HeldBy(t, r)' \in Int
          /\ OwedBy(t, r) \in Int /\ OwedBy(t, r)' \in Int
      BY DEF HeldBy, OwedBy
    <3>. QED
      BY <3>1, <3>2, <3>3, <3>4 DEF Balances, Gives
  <2>. QED
    BY <2>1, Balanced DEF SessionInv
<1>3. PhasesSound'
  BY <1>1 DEF SessionInv, PhasesSound, Life!Phases
<1>4. OneReceiver'
  <2>1. \A u \in IoThreads, r \in Sessions : Receives(u, r)' => Receives(u, r)
    BY <1>0, MoveEffect, ReceiversRest DEF Receives
  <2>2. At(Acceptor, "post")' => At(Acceptor, "post") /\ on'[Acceptor] = on[Acceptor]
    BY DEF Rests, At, Threads, Holding
  <2>3. \A r \in Sessions : Held(r)' \subseteq Held(r)
    BY CountsMove, SetsTyped
  <2>. QED
    BY <2>1, <2>2, <2>3 DEF SessionInv, OneReceiver, opVars
<1>5. ListSound'
  <2>1. At(Closer, "release")' => At(Closer, "release") /\ on'[Closer] = on[Closer]
    BY DEF Rests, At, Threads, Holding
  <2>2. closingList \in Seq(Sessions) /\ on[Closer] \in Sessions
    BY DEF NetworkLifeTypeOK, Threads
  <2>3. CASE phase'[s] = "closing"
    <3>1. closingList' = Append(closingList, s)
      BY <2>3 DEF ReleaseRef
    <3>2. /\ Len(closingList') = Len(closingList) + 1
          /\ \A i \in 1 .. Len(closingList) : closingList'[i] = closingList[i]
          /\ closingList'[Len(closingList) + 1] = s
      BY <2>2, <3>1, AppendProperties
    <3>3. /\ DOMAIN closingList = 1 .. Len(closingList)
          /\ DOMAIN closingList' = 1 .. Len(closingList) + 1
          /\ Len(closingList) \in Nat
      BY <2>2, <3>1, <3>2, LenProperties
    <3>4. \A i \in DOMAIN closingList : closingList[i] # s /\ closingList[i] \in Sessions
      BY <1>1, <2>2, ElementOfSeq DEF SessionInv, ListSound
    <3>5. \A i \in DOMAIN closingList' :
              i \in DOMAIN closingList \/ (i = Len(closingList) + 1 /\ closingList'[i] = s)
      BY <3>2, <3>3
    <3>6. \A i \in DOMAIN closingList : closingList'[i] = closingList[i]
      BY <3>2, <3>3
    <3>7. \A i \in DOMAIN closingList' : phase'[closingList'[i]] = "closing"
      BY <1>1, <2>3, <3>4, <3>5, <3>6 DEF SessionInv, ListSound
    <3>8. \A i, j \in DOMAIN closingList' : closingList'[i] = closingList'[j] => i = j
      BY <3>4, <3>5, <3>6 DEF SessionInv, ListSound
    <3>9. At(Closer, "release")' =>
              /\ phase'[on'[Closer]] = "closing"
              /\ \A i \in DOMAIN closingList' : closingList'[i] # on'[Closer]
      BY <1>1, <2>1, <2>2, <3>4, <3>5, <3>6 DEF SessionInv, ListSound
    <3>. QED
      BY <3>7, <3>8, <3>9 DEF ListSound
  <2>4. CASE phase'[s] # "closing"
    <3>1. closingList' = closingList
      BY <2>4 DEF ReleaseRef
    <3>2. \A i \in DOMAIN closingList : closingList[i] \in Sessions
      BY <2>2, ElementOfSeq
    <3>. QED
      BY <1>1, <2>1, <2>2, <2>4, <3>1, <3>2 DEF SessionInv, ListSound
  <2>. QED
    BY <2>3, <2>4
<1>. QED
  BY <1>2, <1>3, <1>4, <1>5 DEF SessionInv

\* So does a move between two labels at which a thread holds nothing.
LEMMA QuietMove ==
    ASSUME NetworkLifeTypeOK, SessionInv, NEW t \in Threads, NEW l, Moves(t, l),
           l \notin Holding, pc[t] \notin Holding, UNCHANGED on, t = Main \/ UNCHANGED slot,
           UNCHANGED <<phase, refs, ioOps, procOps, closingList>>
    PROVE  SessionInv'
<1>1. PcTyped /\ on \in [Threads -> Sessions]
  BY DEF NetworkLifeTypeOK, PcTyped
<1>2. \A u \in Threads : u # t => Rests(u)
  BY <1>1, OthersRest
<1>3. pc'[t] \notin Holding
  BY <1>1, MoveEffect DEF Holding, Moves, Goto, GotoAndNotify, PcTyped
<1>4. Rests(t)
  BY <1>3 DEF Rests
<1>. QED
  BY <1>2, <1>4, QuietStep

\* So do the steps of Start and Shutdown that touch no session.
LEMMA MainQuiet ==
    ASSUME NetworkLifeTypeOK, SessionInv, Placed, Next,
           \/ Start \/ StartAcceptor \/ StopAcceptor \/ JoinAcceptor \/ DisconnectedAll
           \/ WaitForClosedSession \/ StopRunning \/ EnqueueEmpty
           \/ Join("joinIo", IoThreads, "joinProc") \/ Join("joinProc", ProcThreads, "notify")
           \/ NotifyCloser \/ Join("joinCloser", {Closer}, "destroy") \/ DestroySessionPool,
           At(Main, "idle") => \A t \in Workers \cup {Acceptor, Closer} : At(t, "none")
    PROVE  SessionInv'
<1>0. /\ PcTyped /\ Main \in Threads /\ Acceptor \in Threads /\ Closer \in Threads
      /\ App \in Threads /\ Workers \subseteq Threads
  BY DEF NetworkLifeTypeOK, PcTyped, Threads
<1>1. CASE Start
  <2>1. \A u \in Threads : Rests(u)
    BY <1>0, <1>1, ThreadsDiffer DEF Start, Rests, At, Holding, PcTyped, Threads
  <2>. QED
    BY <1>1, <2>1, QuietStep DEF Start, opVars
<1>2. CASE StartAcceptor
  <2>1. \A u \in Threads : Rests(u)
    BY <1>0, <1>2, ThreadsDiffer DEF StartAcceptor, Rests, At, Goto, Holding, PcTyped
  <2>. QED
    BY <1>2, <2>1, QuietStep DEF StartAcceptor, opVars
<1>3. CASE JoinAcceptor
  <2>1. \A u \in Threads : Rests(u)
    BY <1>0, <1>3, ThreadsDiffer DEF JoinAcceptor, Rests, Holding, PcTyped
  <2>. QED
    BY <1>3, <2>1, QuietStep DEF JoinAcceptor, opVars
<1>4. ASSUME NEW l, NEW T, NEW next, l \notin Holding, next \notin Holding, Join(l, T, next)
      PROVE  SessionInv'
  <2>1. \A u \in Threads : Rests(u)
    BY <1>0, <1>4, ThreadsDiffer DEF Join, Rests, At, Holding, PcTyped
  <2>. QED
    BY <1>4, <2>1, QuietStep DEF Join, opVars
<1>5. CASE WaitForClosedSession
  <2>1. \A u \in Threads : Rests(u)
    BY <1>0, <1>5 DEF WaitForClosedSession, Rests, At, Holding
  <2>. QED
    BY <1>5, <2>1, QuietStep DEF WaitForClosedSession, opVars
<1>6. CASE StopAcceptor \/ DisconnectedAll \/ StopRunning \/ EnqueueEmpty \/ NotifyCloser
           \/ DestroySessionPool
  <2>1. /\ pc[Main] \notin Holding /\ \E l : Moves(Main, l) /\ l \notin Holding
        /\ UNCHANGED <<phase, refs, ioOps, procOps, closingList, on>>
    BY <1>6 DEF StopAcceptor, DisconnectedAll, StopRunning, EnqueueEmpty, NotifyCloser,
       DestroySessionPool, Moves, Holding, At, opVars
  <2>. QED
    BY <1>0, <2>1, QuietMove
<1>. QED
  BY <1>1, <1>2, <1>3, <1>4, <1>5, <1>6 DEF Holding

\* So do the tests, waits and empty dequeues of the other threads.
LEMMA OthersQuiet ==
    ASSUME NetworkLifeTypeOK, SessionInv, Placed,
           \/ AcceptorTest \/ Accept \/ CloserWait
           \/ \E t \in Workers : WorkerTest(t) \/ DequeueEmpty(t) \/ DequeueNothing(t)
    PROVE  SessionInv'
<1>0. Acceptor \in Threads /\ Closer \in Threads /\ Workers \subseteq Threads
  BY DEF Threads
<1>1. PICK t \in Threads :
          /\ pc[t] \notin Holding /\ \E l : Moves(t, l) /\ l \notin Holding
          /\ UNCHANGED <<phase, refs, ioOps, procOps, closingList, on, slot>>
  <2>1. CASE AcceptorTest \/ Accept
    BY <1>0, <2>1 DEF AcceptorTest, Accept, Moves, Holding, At, opVars, netVars
  <2>2. CASE CloserWait
    BY <1>0, <2>2 DEF CloserWait, Moves, Holding, At, opVars, netVars
  <2>3. CASE \E t \in Workers : WorkerTest(t) \/ DequeueEmpty(t) \/ DequeueNothing(t)
    BY <1>0, <2>3 DEF WorkerTest, DequeueEmpty, DequeueNothing, Moves, Holding, At, opVars, netVars
  <2>. QED
    BY <2>1, <2>2, <2>3
<1>. QED
  BY <1>1, QuietMove

\* The entry of a queue brings its reference to the worker that takes it.
LEMMA TakeStep ==
    ASSUME NetworkLifeTypeOK, NetworkLifeTypeOK', SessionInv, Placed,
           NEW t \in Workers, NEW s \in Sessions, DequeueIO(t, s) \/ DequeueProcess(t, s)
    PROVE  SessionInv'
<1>0. /\ PcTyped /\ on \in [Threads -> Sessions] /\ t \in Threads
      /\ t # Main /\ t # Closer /\ t # Acceptor
  BY ThreadsDiffer DEF NetworkLifeTypeOK, PcTyped, Threads
<1>1. /\ pc[t] = "dequeue" /\ Goto(t, "work") /\ on' = [on EXCEPT ![t] = s]
      /\ pc'[t] = "work" /\ on'[t] = s
      /\ UNCHANGED <<phase, refs, closingList, slot>>
  BY <1>0 DEF DequeueIO, DequeueProcess, At, Goto, PcTyped, netVars
<1>2. \A u \in Threads : u # t => Rests(u)
  BY <1>0, <1>1, OthersRest DEF Moves
<1>3. \A r \in Sessions : /\ ioOps[r] \in 0 .. 1 /\ procOps[r] \in 0 .. 1
                          /\ ioOps'[r] \in 0 .. 1 /\ procOps'[r] \in 0 .. 1
  BY CountsTyped, CountsTypedNext
<1>4. \A r \in Sessions : /\ t \notin Held(r) /\ t \notin Owing(r) /\ t \notin Owing(r)'
                          /\ t \in Held(r)' <=> r = s
  BY <1>0, <1>1 DEF Held, Owing, Holding, At
<1>5. RefsExact'
  <2>1. ASSUME NEW r \in Sessions
        PROVE  Balances(t, r)
    <3>1. Posted(r)' - Posted(r) = IF r = s THEN -1 ELSE 0
      BY <1>1, <1>3 DEF Posted, DequeueIO, DequeueProcess, NetworkLifeTypeOK
    <3>2. /\ HeldBy(t, r) = 0 /\ HeldBy(t, r)' = IF r = s THEN 1 ELSE 0
          /\ OwedBy(t, r) = 0 /\ OwedBy(t, r)' = 0
      BY <1>4 DEF HeldBy, OwedBy
    <3>3. Posted(r) \in Int /\ Posted(r)' \in Int /\ refs[r] \in Int
      BY CountsTyped, CountsTypedNext DEF Posted
    <3>. QED
      BY <1>1, <3>1, <3>2, <3>3 DEF Balances
  <2>. QED
    BY <1>0, <1>2, <2>1, Balanced DEF SessionInv
<1>6. PhasesSound'
  BY <1>1 DEF SessionInv, PhasesSound
<1>7. OneReceiver'
  <2>1. ~(At(Acceptor, "post") /\ on[Acceptor] = s)
    BY DEF SessionInv, OneReceiver, DequeueIO, DequeueProcess
  <2>2. /\ At(Acceptor, "post")' => At(Acceptor, "post") /\ on'[Acceptor] = on[Acceptor]
    BY <1>0, <1>2 DEF Rests, At, Threads, Holding
  <2>3. \A r \in Sessions : r # s => /\ Held(r)' = Held(r)
                                     /\ ioOps'[r] = ioOps[r] /\ procOps'[r] = procOps[r]
    <3>1. ASSUME NEW r \in Sessions, r # s
          PROVE  Held(r)' = Held(r)
      <4>1. \A u \in Threads : u \in Held(r)' <=> u \in Held(r)
        BY <1>0, <1>2, <1>4, <3>1, CountsMove
      <4>. QED
        BY <4>1, SetsTyped
    <3>. QED
      BY <3>1 DEF DequeueIO, DequeueProcess, NetworkLifeTypeOK
  <2>4. \A r \in Sessions : At(Acceptor, "post")' /\ on'[Acceptor] = r =>
            ioOps'[r] = 0 /\ procOps'[r] = 0 /\ Held(r)' = {}
    BY <2>1, <2>2, <2>3 DEF SessionInv, OneReceiver
  <2>5. \A u \in IoThreads : u # t => \A r : Receives(u, r)' <=> Receives(u, r)
    BY <1>0, <1>2, ReceiversRest
  <2>6. CASE DequeueIO(t, s)
    <3>1. \A u \in IoThreads : ~Receives(u, s)
      BY <2>6 DEF DequeueIO, SessionInv, OneReceiver
    <3>2. ioOps'[s] = 0 /\ \A r \in Sessions : Receives(t, r)' => r = s
      BY <1>1, <2>6 DEF DequeueIO, Receives, NetworkLifeTypeOK
    <3>. QED
      BY <2>3, <2>4, <2>5, <3>1, <3>2 DEF SessionInv, OneReceiver
  <2>7. CASE DequeueProcess(t, s)
    <3>1. t \notin IoThreads /\ ioOps' = ioOps
      BY <2>7, NetworkLifeAssumption DEF DequeueProcess
    <3>. QED
      BY <2>4, <2>5, <3>1 DEF SessionInv, OneReceiver
  <2>. QED
    BY <2>6, <2>7
<1>8. ListSound'
  BY <1>0, <1>1, <1>2 DEF SessionInv, ListSound, Rests, At, Threads, Holding
<1>. QED
  BY <1>5, <1>6, <1>7, <1>8 DEF SessionInv

\* What a step that moves no reference between threads leaves.
LEMMA SameHolders ==
    ASSUME NEW t \in Threads, \A u \in Threads : u # t => Rests(u),
           \A r \in Sessions : t \in Held(r)' <=> t \in Held(r)
    PROVE  \A r \in Sessions : Held(r)' = Held(r)
<1>1. \A r \in Sessions : \A u \in Threads : u \in Held(r)' <=> u \in Held(r)
  BY CountsMove
<1>. QED
  BY <1>1, SetsTyped

\* A handler posts something, or nothing, for the session it works for.
LEMMA WorkStep ==
    ASSUME NetworkLifeTypeOK, NetworkLifeTypeOK', SessionInv, Placed,
           NEW t \in Workers, PostProcess(t) \/ PostRecv(t) \/ Dispatched(t)
    PROVE  SessionInv'
<1>0. /\ PcTyped /\ on \in [Threads -> Sessions] /\ t \in Threads
      /\ t # Main /\ t # Closer /\ t # Acceptor
  BY ThreadsDiffer DEF NetworkLifeTypeOK, PcTyped, Threads
<1>00. PICK s \in Sessions : s = on[t]
  BY <1>0
<1>1. /\ pc[t] \in {"work", "post"} /\ pc'[t] \in {"post", "release"} /\ UNCHANGED on
      /\ \E l : Goto(t, l)
      /\ UNCHANGED <<closingList, slot>>
  BY <1>0 DEF PostProcess, PostRecv, Dispatched, At, Goto, PcTyped, netVars
<1>2. \A u \in Threads : u # t => Rests(u)
  BY <1>0, <1>1, OthersRest DEF Moves
<1>3. /\ phase' = phase
      /\ \/ UNCHANGED <<refs, ioOps, procOps>>
         \/ /\ phase[s] = "open" /\ refs' = [refs EXCEPT ![s] = @ + 1]
            /\ \/ ioOps' = [ioOps EXCEPT ![s] = 1] /\ procOps' = procOps /\ PostRecv(t)
               \/ procOps' = [procOps EXCEPT ![s] = 1] /\ ioOps' = ioOps /\ procOps[s] = 0
  BY <1>00 DEF PostProcess, PostRecv, Dispatched, Life!Acquire, opVars
<1>33. \A r \in Sessions :
          /\ phase'[r] = phase[r]
          /\ r # s => refs'[r] = refs[r] /\ ioOps'[r] = ioOps[r] /\ procOps'[r] = procOps[r]
  BY <1>3 DEF NetworkLifeTypeOK, Life!LifeTypeOK
<1>34. \/ refs'[s] = refs[s] /\ ioOps'[s] = ioOps[s] /\ procOps'[s] = procOps[s]
      \/ /\ phase[s] = "open" /\ refs'[s] = refs[s] + 1
         /\ \/ ioOps'[s] = 1 /\ procOps'[s] = procOps[s] /\ PostRecv(t)
            \/ procOps'[s] = 1 /\ ioOps'[s] = ioOps[s] /\ procOps[s] = 0
  BY <1>0, <1>00, <1>3 DEF NetworkLifeTypeOK, Life!LifeTypeOK
<1>4. \A r \in Sessions : /\ t \in Held(r) <=> r = s
                          /\ t \in Held(r)' <=> r = s
                          /\ t \notin Owing(r) /\ t \notin Owing(r)'
  BY <1>0, <1>00, <1>1 DEF Held, Owing, Holding, At
<1>5. PostRecv(t) => Receives(t, s) /\ ioOps[s] = 0 /\ \A r : ~Receives(t, r)'
  BY <1>0, <1>00 DEF PostRecv, Receives, SessionInv, OneReceiver, Goto, PcTyped
<1>6. RefsExact'
  <2>1. ASSUME NEW r \in Sessions
        PROVE  Balances(t, r)
    <3>1. /\ HeldBy(t, r)' = HeldBy(t, r) /\ OwedBy(t, r)' = OwedBy(t, r)
          /\ HeldBy(t, r) \in Int /\ OwedBy(t, r) \in Int
      BY <1>4 DEF HeldBy, OwedBy
    <3>2. /\ ioOps[r] \in 0 .. 1 /\ procOps[r] \in 0 .. 1 /\ refs[r] \in Nat
      BY CountsTyped
    <3>3. refs'[r] - refs[r] = Posted(r)' - Posted(r)
      <4>1. CASE r # s
        BY <1>33, <3>2, <4>1 DEF Posted
      <4>2. CASE r = s
        BY <1>33, <1>34, <1>5, <3>2, <4>2 DEF Posted
      <4>. QED
        BY <4>1, <4>2
    <3>4. Posted(r) \in Int /\ Posted(r)' \in Int
      BY CountsTyped, CountsTypedNext DEF Posted
    <3>. QED
      BY <3>1, <3>3, <3>4 DEF Balances
  <2>. QED
    BY <1>0, <1>2, <2>1, Balanced DEF SessionInv
<1>7. PhasesSound'
  BY <1>0, <1>3, CountsTyped DEF SessionInv, PhasesSound, NetworkLifeTypeOK, Life!LifeTypeOK
<1>8. OneReceiver'
  <2>1. ~(At(Acceptor, "post") /\ on[Acceptor] = s)
    BY <1>0, <1>4 DEF SessionInv, OneReceiver
  <2>2. At(Acceptor, "post")' => At(Acceptor, "post") /\ on'[Acceptor] = on[Acceptor]
    BY <1>0, <1>2 DEF Rests, At, Threads, Holding
  <2>3. \A r \in Sessions : Held(r)' = Held(r)
    BY <1>0, <1>2, <1>4, SameHolders
  <2>4. \A r \in Sessions : r # s => ioOps'[r] = ioOps[r] /\ procOps'[r] = procOps[r]
    BY <1>33
  <2>5. \A u \in IoThreads, r \in Sessions : Receives(u, r)' => Receives(u, r)
    <3>1. \A r : Receives(t, r)' => Receives(t, r)
      BY <1>1 DEF Receives
    <3>. QED
      BY <1>0, <1>2, <3>1, ReceiversRest
  <2>6. ioOps'[s] = ioOps[s] \/ \A u \in IoThreads : ~Receives(u, s)'
    <3>1. ASSUME PostRecv(t), NEW u \in IoThreads, Receives(u, s)'
          PROVE  FALSE
      <4>1. t \in IoThreads /\ Receives(t, s) /\ \A r : ~Receives(t, r)'
        BY <1>5, <3>1 DEF PostRecv
      <4>2. Receives(u, s)
        BY <1>0, <2>5, <3>1
      <4>3. u = t
        BY <1>0, <4>1, <4>2, <3>1 DEF SessionInv, OneReceiver
      <4>. QED
        BY <3>1, <4>1, <4>3
    <3>2. CASE ~PostRecv(t)
      BY <1>34, <3>2
    <3>. QED
      BY <3>1, <3>2
  <2>7. ASSUME NEW r \in Sessions, NEW u \in IoThreads, NEW v \in IoThreads, Receives(u, r)'
        PROVE  ioOps'[r] = 0 /\ (Receives(v, r)' => v = u)
    <3>1. Receives(u, r) /\ (Receives(v, r)' => Receives(v, r))
      BY <2>5, <2>7
    <3>2. ioOps[r] = 0 /\ (Receives(v, r) => v = u)
      BY <3>1 DEF SessionInv, OneReceiver
    <3>3. ioOps'[r] = ioOps[r]
      BY <2>4, <2>6, <2>7
    <3>. QED
      BY <3>1, <3>2, <3>3
  <2>8. \A r \in Sessions : At(Acceptor, "post")' /\ on'[Acceptor] = r =>
            ioOps'[r] = 0 /\ procOps'[r] = 0 /\ Held(r)' = {}
    BY <2>1, <2>2, <2>3, <2>4 DEF SessionInv, OneReceiver
  <2>. QED
    BY <2>7, <2>8 DEF OneReceiver
<1>9. ListSound'
  BY <1>0, <1>1, <1>2, <1>3 DEF SessionInv, ListSound, Rests, At, Threads, Holding
<1>. QED
  BY <1>6, <1>7, <1>8, <1>9 DEF SessionInv

\* Disconnect: the session's own reference becomes that of the thread.
LEMMA DisconnectStep ==
    ASSUME NetworkLifeTypeOK, NetworkLifeTypeOK', SessionInv, Placed,
           NEW t \in Threads, t # Closer, t # Acceptor, NEW s \in Sessions,
           Life!Disconnect(s), Goto(t, "drop"), UNCHANGED <<ioOps, procOps, closingList>>,
           \A u \in Threads : u # t => Rests(u),
           \A r \in Sessions : /\ t \in Held(r)' <=> t \in Held(r)
                               /\ t \notin Owing(r)
                               /\ t \in Owing(r)' <=> r = s
    PROVE  SessionInv'
<1>1. /\ PcTyped /\ phase[s] = "open" /\ phase' = [phase EXCEPT ![s] = "draining"] /\ refs' = refs
  BY DEF NetworkLifeTypeOK, PcTyped, Life!Disconnect, Life!Go
<1>2. pc'[t] = "drop"
  BY <1>1 DEF Goto, PcTyped
<1>3. RefsExact'
  <2>1. ASSUME NEW r \in Sessions
        PROVE  Balances(t, r)
    <3>1. /\ HeldBy(t, r)' = HeldBy(t, r) /\ HeldBy(t, r) \in Int
          /\ OwedBy(t, r) = 0 /\ OwedBy(t, r)' = IF r = s THEN 1 ELSE 0
      BY DEF HeldBy, OwedBy
    <3>2. Posted(r)' - Posted(r) = IF r = s THEN -1 ELSE 0
      <4>1. /\ phase'[r] = IF r = s THEN "draining" ELSE phase[r]
            /\ ioOps'[r] = ioOps[r] /\ procOps'[r] = procOps[r]
        BY <1>1 DEF NetworkLifeTypeOK, Life!LifeTypeOK
      <4>2. ioOps[r] \in 0 .. 1 /\ procOps[r] \in 0 .. 1
        BY CountsTyped
      <4>. QED
        BY <1>1, <4>1, <4>2 DEF Posted
    <3>3. Posted(r) \in Int /\ Posted(r)' \in Int /\ refs[r] \in Int
      BY CountsTyped, CountsTypedNext DEF Posted
    <3>. QED
      BY <1>1, <3>1, <3>2, <3>3 DEF Balances
  <2>. QED
    BY <2>1, Balanced DEF SessionInv
<1>4. PhasesSound'
  BY <1>1 DEF SessionInv, PhasesSound, NetworkLifeTypeOK, Life!LifeTypeOK
<1>5. OneReceiver'
  <2>1. At(Acceptor, "post")' => At(Acceptor, "post") /\ on'[Acceptor] = on[Acceptor]
    BY DEF Rests, At, Threads, Holding
  <2>2. \A r \in Sessions : Held(r)' = Held(r)
    BY SameHolders
  <2>3. \A u \in IoThreads, r \in Sessions : Receives(u, r)' => Receives(u, r)
    BY <1>2, ReceiversRest DEF Receives
  <2>. QED
    BY <2>1, <2>2, <2>3 DEF SessionInv, OneReceiver
<1>6. ListSound'
  BY <1>1, ElementOfSeq DEF SessionInv, ListSound, Rests, At, Threads, Holding, NetworkLifeTypeOK,
     Life!LifeTypeOK
<1>. QED
  BY <1>3, <1>4, <1>5, <1>6 DEF SessionInv

\* The acceptor opens a free session, which nothing and nobody refers to.
LEMMA AllocateStep ==
    ASSUME NetworkLifeTypeOK, NetworkLifeTypeOK', SessionInv, Placed, AllocateSession
    PROVE  SessionInv'
<1>0. /\ PcTyped /\ on \in [Threads -> Sessions] /\ Acceptor \in Threads
      /\ Acceptor # Main /\ Acceptor # Closer /\ Acceptor \notin Workers
      /\ pc[Acceptor] = "allocate" /\ UNCHANGED <<opVars, closingList, slot>>
  BY ThreadsDiffer DEF NetworkLifeTypeOK, PcTyped, Threads, AllocateSession, At, netVars
<1>1. CASE Goto(Acceptor, "test") /\ UNCHANGED <<phase, refs, on>>
  BY <1>0, <1>1, QuietMove DEF Moves, Holding, opVars
<1>2. ASSUME NEW s \in Sessions, Life!Open(s), on' = [on EXCEPT ![Acceptor] = s],
             Goto(Acceptor, "post")
      PROVE  SessionInv'
  <2>1. \A u \in Threads : u # Acceptor => Rests(u)
    BY <1>0, <1>2, OthersRest DEF Moves
  <2>2. /\ phase[s] = "free" /\ phase' = [phase EXCEPT ![s] = "open"]
        /\ refs' = [refs EXCEPT ![s] = 1]
        /\ pc'[Acceptor] = "post" /\ on'[Acceptor] = s
    BY <1>0, <1>2 DEF Life!Open, Life!Go, Goto, PcTyped
  <2>22. \A r \in Sessions :
            /\ phase'[r] = IF r = s THEN "open" ELSE phase[r]
            /\ refs'[r] = IF r = s THEN 1 ELSE refs[r]
            /\ ioOps'[r] = ioOps[r] /\ procOps'[r] = procOps[r]
    BY <1>0, <2>2 DEF NetworkLifeTypeOK, Life!LifeTypeOK, opVars
  <2>3. /\ ioOps[s] = 0 /\ procOps[s] = 0 /\ Held(s) = {} /\ Owing(s) = {} /\ refs[s] = 0
    BY <2>2, Referenced DEF SessionInv, PhasesSound
  <2>4. \A r : /\ Acceptor \notin Held(r) /\ Acceptor \notin Held(r)'
               /\ Acceptor \notin Owing(r) /\ Acceptor \notin Owing(r)'
    BY <1>0, <2>2 DEF Held, Owing, At
  <2>5. RefsExact'
    <3>1. ASSUME NEW r \in Sessions
          PROVE  Balances(Acceptor, r)
      <4>1. /\ HeldBy(Acceptor, r)' = 0 /\ OwedBy(Acceptor, r)' = 0
            /\ HeldBy(Acceptor, r) = 0 /\ OwedBy(Acceptor, r) = 0
        BY <2>4 DEF HeldBy, OwedBy
      <4>2. ioOps[r] \in 0 .. 1 /\ procOps[r] \in 0 .. 1 /\ refs[r] \in Nat
        BY CountsTyped
      <4>3. refs'[r] - refs[r] = Posted(r)' - Posted(r)
        BY <2>2, <2>22, <2>3, <4>2 DEF Posted
      <4>4. Posted(r) \in Int /\ Posted(r)' \in Int
        BY CountsTyped, CountsTypedNext DEF Posted
      <4>. QED
        BY <4>1, <4>3, <4>4 DEF Balances
    <3>. QED
      BY <1>0, <2>1, <3>1, Balanced DEF SessionInv
  <2>6. PhasesSound'
    BY <2>22, <2>2 DEF SessionInv, PhasesSound
  <2>7. OneReceiver'
    <3>1. \A r \in Sessions : Held(r)' = Held(r)
      BY <1>0, <2>1, <2>4, SameHolders
    <3>2. \A u \in IoThreads, r \in Sessions : Receives(u, r)' <=> Receives(u, r)
      BY <1>0, <2>1, ReceiversRest DEF Workers
    <3>. QED
      BY <2>2, <2>22, <2>3, <3>1, <3>2 DEF SessionInv, OneReceiver
  <2>8. ListSound'
    <3>1. At(Closer, "release")' => At(Closer, "release") /\ on'[Closer] = on[Closer]
      BY <1>0, <2>1 DEF Rests, At, Threads, Holding
    <3>2. on[Closer] \in Sessions /\ \A i \in DOMAIN closingList : closingList[i] \in Sessions
      BY ElementOfSeq DEF NetworkLifeTypeOK, Threads
    <3>. QED
      BY <1>0, <2>2, <2>22, <3>1, <3>2 DEF SessionInv, ListSound
  <2>. QED
    BY <2>5, <2>6, <2>7, <2>8 DEF SessionInv
<1>. QED
  BY <1>1, <1>2 DEF AllocateSession

\* The acceptor posts the first receive of the session it has opened, unless
\* somebody has disconnected it.
LEMMA FirstRecvStep ==
    ASSUME NetworkLifeTypeOK, NetworkLifeTypeOK', SessionInv, Placed, AcceptorPostRecv
    PROVE  SessionInv'
<1>0. /\ PcTyped /\ on \in [Threads -> Sessions] /\ Acceptor \in Threads
      /\ Acceptor # Main /\ Acceptor # Closer /\ Acceptor \notin Workers
      /\ pc[Acceptor] = "post" /\ UNCHANGED <<procOps, closingList, slot>>
      /\ Goto(Acceptor, "test") /\ on' = [on EXCEPT ![Acceptor] = 0]
  BY ThreadsDiffer
  DEF NetworkLifeTypeOK, PcTyped, Threads, AcceptorPostRecv, At, netVars, Forget
<1>00. PICK s \in Sessions : s = on[Acceptor]
  BY <1>0
<1>1. \A u \in Threads : u # Acceptor => Rests(u)
  BY <1>0, OthersRest DEF Moves
<1>2. ioOps[s] = 0 /\ procOps[s] = 0 /\ Held(s) = {} /\ pc'[Acceptor] = "test"
  BY <1>0, <1>00 DEF SessionInv, OneReceiver, At, Goto, PcTyped
<1>3. /\ phase' = phase
      /\ \/ UNCHANGED <<refs, ioOps>>
         \/ /\ phase[s] = "open" /\ refs' = [refs EXCEPT ![s] = @ + 1]
            /\ ioOps' = [ioOps EXCEPT ![s] = 1]
  BY <1>00 DEF AcceptorPostRecv, Life!Acquire
<1>33. /\ \A r \in Sessions :
              /\ phase'[r] = phase[r] /\ procOps'[r] = procOps[r]
              /\ r # s => refs'[r] = refs[r] /\ ioOps'[r] = ioOps[r]
       /\ \/ refs'[s] = refs[s] /\ ioOps'[s] = ioOps[s]
          \/ phase[s] = "open" /\ refs'[s] = refs[s] + 1 /\ ioOps'[s] = 1
  BY <1>0, <1>3 DEF NetworkLifeTypeOK, Life!LifeTypeOK
<1>4. \A r : /\ Acceptor \notin Held(r) /\ Acceptor \notin Held(r)'
             /\ Acceptor \notin Owing(r) /\ Acceptor \notin Owing(r)'
  BY <1>0, <1>2 DEF Held, Owing, At
<1>5. RefsExact'
  <2>1. ASSUME NEW r \in Sessions
        PROVE  Balances(Acceptor, r)
    <3>1. /\ HeldBy(Acceptor, r)' = 0 /\ OwedBy(Acceptor, r)' = 0
          /\ HeldBy(Acceptor, r) = 0 /\ OwedBy(Acceptor, r) = 0
      BY <1>4 DEF HeldBy, OwedBy
    <3>2. ioOps[r] \in 0 .. 1 /\ procOps[r] \in 0 .. 1 /\ refs[r] \in Nat
      BY CountsTyped
    <3>3. refs'[r] - refs[r] = Posted(r)' - Posted(r)
      <4>1. CASE r # s
        BY <1>33, <3>2, <4>1 DEF Posted
      <4>2. CASE r = s
        BY <1>2, <1>33, <3>2, <4>2 DEF Posted
      <4>. QED
        BY <4>1, <4>2
    <3>4. Posted(r) \in Int /\ Posted(r)' \in Int
      BY CountsTyped, CountsTypedNext DEF Posted
    <3>. QED
      BY <3>1, <3>3, <3>4 DEF Balances
  <2>. QED
    BY <1>0, <1>1, <2>1, Balanced DEF SessionInv
<1>6. PhasesSound'
  <2>1. \A r \in Sessions : refs[r] \in Nat
    BY CountsTyped
  <2>. QED
    BY <1>33, <2>1 DEF SessionInv, PhasesSound
<1>7. OneReceiver'
  <2>1. \A u \in IoThreads, r \in Sessions : Receives(u, r)' <=> Receives(u, r)
    BY <1>0, <1>1, ReceiversRest DEF Workers
  <2>2. \A u \in IoThreads : ~Receives(u, s)
    BY <1>2 DEF Receives, Held, Holding, Workers
  <2>. QED
    BY <1>2, <1>33, <2>1, <2>2 DEF SessionInv, OneReceiver, At
<1>8. ListSound'
  BY <1>0, <1>1, <1>3 DEF SessionInv, ListSound, Rests, At, Threads, Holding
<1>. QED
  BY <1>5, <1>6, <1>7, <1>8 DEF SessionInv

\* The three places that disconnect a session.
LEMMA DisconnectsStep ==
    ASSUME NetworkLifeTypeOK, NetworkLifeTypeOK', SessionInv, Placed,
           \/ DisconnectSlot \/ AppDisconnect
           \/ \E t \in Workers : WorkerDisconnect(t)
    PROVE  SessionInv'
<1>0. /\ PcTyped /\ on \in [Threads -> Sessions]
      /\ Main \in Threads /\ App \in Threads /\ Workers \subseteq Threads
      /\ Main # App /\ Main # Closer /\ Main # Acceptor /\ App # Closer /\ App # Acceptor
      /\ Main \notin Workers /\ App \notin Workers
      /\ Closer \notin Workers /\ Acceptor \notin Workers
  BY ThreadsDiffer DEF NetworkLifeTypeOK, PcTyped, Threads
<1>1. CASE DisconnectSlot
  <2>1. CASE phase[slot] = "open"
    <3>1. /\ pc[Main] = "disconnect" /\ Goto(Main, "drop") /\ Life!Disconnect(slot)
          /\ UNCHANGED <<ioOps, procOps, closingList, slot, on>> /\ slot \in Sessions
      BY <1>1, <2>1 DEF DisconnectSlot, At, opVars
    <3>2. \A u \in Threads : u # Main => Rests(u)
      BY <1>0, <3>1, OthersRest DEF Moves
    <3>3. pc'[Main] = "drop"
      BY <1>0, <3>1 DEF Goto, PcTyped
    <3>4. \A r \in Sessions : /\ Main \notin Held(r)' /\ Main \notin Held(r)
                              /\ Main \notin Owing(r)
                              /\ Main \in Owing(r)' <=> r = slot
      BY <1>0, <3>1, <3>3 DEF Held, Owing, Of, At
    <3>. QED
      BY <1>0, <3>1, <3>2, <3>4, DisconnectStep
  <2>2. CASE phase[slot] # "open"
    <3>1. /\ pc[Main] = "disconnect" /\ UNCHANGED <<phase, refs, pc, on>>
          /\ UNCHANGED <<ioOps, procOps, closingList>>
      BY <1>1, <2>2 DEF DisconnectSlot, At, opVars
    <3>2. \A u \in Threads : Rests(u)
      BY <3>1 DEF Rests, Holding
    <3>. QED
      BY <3>1, <3>2, QuietStep
  <2>. QED
    BY <2>1, <2>2
<1>2. CASE AppDisconnect
  <2>1. PICK s \in Sessions : Life!Disconnect(s) /\ on' = [on EXCEPT ![App] = s]
    BY <1>2 DEF AppDisconnect
  <2>2. /\ pc[App] = "idle" /\ Goto(App, "drop")
        /\ UNCHANGED <<ioOps, procOps, closingList, slot>>
    BY <1>2 DEF AppDisconnect, At, opVars, netVars
  <2>3. \A u \in Threads : u # App => Rests(u)
    BY <1>0, <2>1, <2>2, OthersRest DEF Moves
  <2>4. pc'[App] = "drop" /\ on'[App] = s
    BY <1>0, <2>1, <2>2 DEF Goto, PcTyped
  <2>5. \A r \in Sessions : /\ App \notin Held(r)' /\ App \notin Held(r)
                            /\ App \notin Owing(r)
                            /\ App \in Owing(r)' <=> r = s
    BY <1>0, <2>2, <2>4 DEF Held, Owing, Of, At
  <2>. QED
    BY <1>0, <2>1, <2>2, <2>3, <2>5, DisconnectStep
<1>3. ASSUME NEW t \in Workers, WorkerDisconnect(t)
      PROVE  SessionInv'
  <2>1. PICK s \in Sessions : s = on[t]
    BY <1>0
  <2>2. /\ pc[t] \in {"work", "post"} /\ Goto(t, "drop") /\ Life!Disconnect(s)
        /\ UNCHANGED <<ioOps, procOps, closingList, slot, on>>
    BY <1>3, <2>1 DEF WorkerDisconnect, opVars, netVars
  <2>3. \A u \in Threads : u # t => Rests(u)
    BY <1>0, <2>2, OthersRest DEF Moves
  <2>4. pc'[t] = "drop"
    BY <1>0, <2>2 DEF Goto, PcTyped
  <2>5. \A r \in Sessions : /\ t \in Held(r)' <=> t \in Held(r)
                            /\ t \notin Owing(r)
                            /\ t \in Owing(r)' <=> r = s
    BY <1>0, <2>1, <2>2, <2>4 DEF Held, Owing, Of, At, Holding
  <2>. QED
    BY <1>0, <2>2, <2>3, <2>5, DisconnectStep
<1>. QED
  BY <1>1, <1>2, <1>3

\* The three places that give a reference back.
LEMMA ReleasesStep ==
    ASSUME NetworkLifeTypeOK, NetworkLifeTypeOK', SessionInv, Placed, Stages,
           \/ DropSlot \/ AppDrop
           \/ \E t \in Workers : WorkerRelease(t)
    PROVE  SessionInv'
<1>0. /\ PcTyped /\ on \in [Threads -> Sessions]
      /\ Main \in Threads /\ App \in Threads /\ Workers \subseteq Threads
      /\ Main # App /\ Main # Closer /\ Main # Acceptor /\ App # Closer /\ App # Acceptor
      /\ Main \notin Workers /\ App \notin Workers
      /\ Closer \notin Workers /\ Acceptor \notin Workers
  BY ThreadsDiffer DEF NetworkLifeTypeOK, PcTyped, Threads
<1>00. \A t \in Threads : \A s, l : t # Closer /\ ReleaseRef(t, s, l) => Moves(t, l) /\ pc'[t] = l
  BY <1>0, MoveEffect DEF ReleaseRef, Moves
<1>1. CASE DropSlot
  <2>1. /\ pc[Main] = "drop" /\ ReleaseRef(Main, slot, "disconnect") /\ slot \in Sessions
        /\ UNCHANGED <<opVars, on>>
    BY <1>1 DEF DropSlot, At, Stages
  <2>2. Moves(Main, "disconnect") /\ pc'[Main] = "disconnect"
    BY <1>0, <1>00, <2>1
  <2>3. \A u \in Threads : u # Main => Rests(u)
    BY <1>0, <2>1, <2>2, OthersRest
  <2>4. \A r \in Sessions : /\ Main \notin Held(r)' /\ Main \notin Held(r)
                            /\ Main \in Owing(r) <=> r = slot
                            /\ Main \notin Owing(r)'
    BY <1>0, <2>1, <2>2 DEF Held, Owing, Of, At
  <2>5. \A r \in Sessions : Gives(Main, r, slot)
    BY <2>4 DEF Gives, HeldBy, OwedBy
  <2>. QED
    BY <1>0, <2>1, <2>3, <2>4, <2>5, ReleaseStep
<1>2. CASE AppDrop
  <2>1. PICK s \in Sessions : s = on[App]
    BY <1>0
  <2>2. /\ pc[App] = "drop" /\ ReleaseRef(App, s, "idle")
        /\ on' = [on EXCEPT ![App] = 0] /\ UNCHANGED <<opVars, slot>>
    BY <1>2, <2>1 DEF AppDrop, At, Forget, netVars
  <2>3. Moves(App, "idle") /\ pc'[App] = "idle"
    BY <1>0, <1>00, <2>2
  <2>4. \A u \in Threads : u # App => Rests(u)
    BY <1>0, <2>2, <2>3, OthersRest
  <2>5. \A r \in Sessions : /\ App \notin Held(r)' /\ App \notin Held(r)
                            /\ App \in Owing(r) <=> r = s
                            /\ App \notin Owing(r)'
    BY <1>0, <2>1, <2>2, <2>3 DEF Held, Owing, Of, At
  <2>6. \A r \in Sessions : Gives(App, r, s)
    BY <2>5 DEF Gives, HeldBy, OwedBy
  <2>. QED
    BY <1>0, <2>2, <2>4, <2>5, <2>6, ReleaseStep
<1>3. ASSUME NEW t \in Workers, WorkerRelease(t)
      PROVE  SessionInv'
  <2>1. PICK s \in Sessions : s = on[t]
    BY <1>0
  <2>2. CASE At(t, "drop")
    <3>1. /\ pc[t] = "drop" /\ ReleaseRef(t, s, "release") /\ UNCHANGED <<opVars, slot, on>>
      BY <1>3, <2>1, <2>2 DEF WorkerRelease, At, netVars
    <3>2. Moves(t, "release") /\ pc'[t] = "release"
      BY <1>0, <1>00, <3>1
    <3>3. \A u \in Threads : u # t => Rests(u)
      BY <1>0, <3>1, <3>2, OthersRest
    <3>4. \A r \in Sessions : /\ t \in Held(r)' <=> t \in Held(r)
                              /\ t \in Owing(r) <=> r = s
                              /\ t \notin Owing(r)'
      BY <1>0, <2>1, <3>1, <3>2 DEF Held, Owing, Of, At, Holding
    <3>5. \A r \in Sessions : Gives(t, r, s)
      BY <3>4 DEF Gives, HeldBy, OwedBy
    <3>. QED
      BY <1>0, <3>1, <3>3, <3>4, <3>5, ReleaseStep
  <2>3. CASE ~At(t, "drop")
    <3>1. /\ pc[t] = "release" /\ ReleaseRef(t, s, "test") /\ UNCHANGED <<opVars, slot>>
          /\ on' = [on EXCEPT ![t] = 0]
      BY <1>3, <2>1, <2>3 DEF WorkerRelease, At, Forget, netVars
    <3>2. Moves(t, "test") /\ pc'[t] = "test"
      BY <1>0, <1>00, <3>1
    <3>3. \A u \in Threads : u # t => Rests(u)
      BY <1>0, <3>1, <3>2, OthersRest
    <3>4. \A r \in Sessions : /\ t \in Held(r) <=> r = s
                              /\ t \notin Held(r)'
                              /\ t \notin Owing(r) /\ t \notin Owing(r)'
      BY <1>0, <2>1, <3>1, <3>2 DEF Held, Owing, Of, At, Holding
    <3>5. \A r \in Sessions : Gives(t, r, s)
      BY <3>4 DEF Gives, HeldBy, OwedBy
    <3>. QED
      BY <1>0, <3>1, <3>3, <3>4, <3>5, ReleaseStep
  <2>. QED
    BY <2>2, <2>3
<1>. QED
  BY <1>1, <1>2, <1>3

\* The closing thread takes the head of the list, or finds it empty, ...
LEMMA CloserCheckStep ==
    ASSUME NetworkLifeTypeOK, NetworkLifeTypeOK', SessionInv, Placed, CloserCheck
    PROVE  SessionInv'
<1>0. /\ PcTyped /\ on \in [Threads -> Sessions] /\ closingList \in Seq(Sessions)
      /\ Closer \in Threads /\ Acceptor \in Threads /\ Workers \subseteq Threads
      /\ Closer # Acceptor /\ Closer # Main /\ Closer \notin Workers
      /\ pc[Closer] = "check" /\ UNCHANGED <<phase, refs, ioOps, procOps, slot>>
  BY ThreadsDiffer
  DEF NetworkLifeTypeOK, PcTyped, Threads, CloserCheck, At, opVars, netVars
<1>1. CASE closingList = <<>>
  <2>1. UNCHANGED <<closingList, on>> /\ \E l \in {"block", "done"} : Goto(Closer, l)
    BY <1>1 DEF CloserCheck
  <2>. QED
    BY <1>0, <2>1, QuietMove DEF Moves, Holding
<1>2. CASE closingList # <<>>
  <2>1. /\ closingList' = Tail(closingList) /\ on' = [on EXCEPT ![Closer] = Head(closingList)]
        /\ Goto(Closer, "release")
    BY <1>2 DEF CloserCheck
  <2>2. \A u \in Threads : u # Closer => Rests(u)
    BY <1>0, <2>1, OthersRest DEF Moves
  <2>3. pc'[Closer] = "release" /\ on'[Closer] = closingList[1]
    BY <1>0, <1>2, <2>1, HeadTailProperties DEF Goto, PcTyped
  <2>4. \A r : /\ Closer \notin Held(r) /\ Closer \notin Held(r)'
               /\ Closer \notin Owing(r) /\ Closer \notin Owing(r)'
    BY <1>0, <2>3 DEF Held, Owing, At
  <2>5. \A s \in Sessions : Held(s)' = Held(s) /\ Owing(s)' = Owing(s)
    <3>1. ASSUME NEW s \in Sessions
          PROVE  \A u \in Threads : /\ u \in Held(s)' <=> u \in Held(s)
                                    /\ u \in Owing(s)' <=> u \in Owing(s)
      BY <1>0, <2>2, <2>4, CountsMove
    <3>. QED
      BY <3>1, SetsTyped
  <2>6. RefsExact' /\ PhasesSound'
    BY <1>0, <2>5 DEF SessionInv, RefsExact, PhasesSound
  <2>7. OneReceiver'
    <3>1. \A u \in IoThreads, r \in Sessions : Receives(u, r)' <=> Receives(u, r)
      BY <1>0, <2>2, ReceiversRest DEF Workers
    <3>2. At(Acceptor, "post")' => At(Acceptor, "post") /\ on'[Acceptor] = on[Acceptor]
      BY <1>0, <2>2 DEF Rests, At, Holding
    <3>. QED
      BY <1>0, <2>5, <3>1, <3>2 DEF SessionInv, OneReceiver
  <2>8. ListSound'
    <3>1. /\ Len(closingList) \in Nat /\ Len(closingList) >= 1
          /\ DOMAIN closingList = 1 .. Len(closingList)
          /\ Len(closingList') = Len(closingList) - 1
          /\ DOMAIN closingList' = 1 .. Len(closingList) - 1
          /\ \A i \in 1 .. Len(closingList) - 1 : closingList'[i] = closingList[i + 1]
      BY <1>0, <1>2, <2>1, HeadTailProperties, LenProperties, EmptySeq
    <3>2. \A i \in DOMAIN closingList' : /\ i + 1 \in DOMAIN closingList /\ i + 1 # 1
                                         /\ i \in Int
                                         /\ closingList'[i] = closingList[i + 1]
      BY <3>1
    <3>3. 1 \in DOMAIN closingList
      BY <3>1
    <3>4. \A i \in DOMAIN closingList' : phase'[closingList'[i]] = "closing"
      BY <1>0, <3>2 DEF SessionInv, ListSound
    <3>5. ASSUME NEW i \in DOMAIN closingList', NEW j \in DOMAIN closingList',
                 closingList'[i] = closingList'[j]
          PROVE  i = j
      <4>1. i + 1 = j + 1
        BY <3>2, <3>5 DEF SessionInv, ListSound
      <4>. QED
        BY <3>2, <4>1
    <3>6. phase'[on'[Closer]] = "closing"
      BY <1>0, <2>3, <3>3 DEF SessionInv, ListSound
    <3>7. \A i \in DOMAIN closingList' : closingList'[i] # on'[Closer]
      BY <2>3, <3>2, <3>3 DEF SessionInv, ListSound
    <3>. QED
      BY <3>4, <3>5, <3>6, <3>7 DEF ListSound
  <2>. QED
    BY <2>6, <2>7, <2>8 DEF SessionInv
<1>. QED
  BY <1>1, <1>2

\* ... and makes the session free.
LEMMA CloserReleaseStep ==
    ASSUME NetworkLifeTypeOK, NetworkLifeTypeOK', SessionInv, Placed, CloserRelease
    PROVE  SessionInv'
<1>0. /\ PcTyped /\ on \in [Threads -> Sessions] /\ closingList \in Seq(Sessions)
      /\ Closer \in Threads /\ Acceptor \in Threads /\ Workers \subseteq Threads
      /\ Closer # Acceptor /\ Closer # Main /\ Closer \notin Workers
      /\ pc[Closer] = "release" /\ UNCHANGED <<refs, ioOps, procOps, closingList, slot>>
      /\ Goto(Closer, "check") /\ on' = [on EXCEPT ![Closer] = 0]
  BY ThreadsDiffer
  DEF NetworkLifeTypeOK, PcTyped, Threads, CloserRelease, At, Forget, opVars, netVars
<1>00. PICK s \in Sessions : s = on[Closer]
  BY <1>0
<1>1. \A u \in Threads : u # Closer => Rests(u)
  BY <1>0, OthersRest DEF Moves
<1>2. pc'[Closer] = "check" /\ phase[s] = "closing" /\ phase' = [phase EXCEPT ![s] = "free"]
  BY <1>0, <1>00 DEF CloserRelease, Life!Finish, Life!Go, Goto, PcTyped
<1>3. \A r \in Sessions : phase'[r] = IF r = s THEN "free" ELSE phase[r]
  BY <1>2 DEF NetworkLifeTypeOK, Life!LifeTypeOK
<1>4. \A r : /\ Closer \notin Held(r) /\ Closer \notin Held(r)'
             /\ Closer \notin Owing(r) /\ Closer \notin Owing(r)'
  BY <1>0, <1>2 DEF Held, Owing, At
<1>5. \A r \in Sessions : Held(r)' = Held(r) /\ Owing(r)' = Owing(r)
  <2>1. ASSUME NEW r \in Sessions
        PROVE  \A u \in Threads : /\ u \in Held(r)' <=> u \in Held(r)
                                  /\ u \in Owing(r)' <=> u \in Owing(r)
    BY <1>0, <1>1, <1>4, CountsMove
  <2>. QED
    BY <2>1, SetsTyped
<1>6. RefsExact'
  BY <1>0, <1>2, <1>3, <1>5 DEF SessionInv, RefsExact
<1>7. PhasesSound'
  BY <1>0, <1>2, <1>3 DEF SessionInv, PhasesSound
<1>8. OneReceiver'
  <2>1. \A u \in IoThreads, r \in Sessions : Receives(u, r)' <=> Receives(u, r)
    BY <1>0, <1>1, ReceiversRest DEF Workers
  <2>2. At(Acceptor, "post")' => At(Acceptor, "post") /\ on'[Acceptor] = on[Acceptor]
    BY <1>0, <1>1 DEF Rests, At, Holding
  <2>. QED
    BY <1>0, <1>5, <2>1, <2>2 DEF SessionInv, OneReceiver
<1>9. ListSound'
  <2>1. \A i \in DOMAIN closingList : closingList[i] # s /\ closingList[i] \in Sessions
    BY <1>0, <1>00, ElementOfSeq DEF SessionInv, ListSound, At
  <2>. QED
    BY <1>0, <1>2, <1>3, <2>1 DEF SessionInv, ListSound, At
<1>. QED
  BY <1>6, <1>7, <1>8, <1>9 DEF SessionInv

\* Every step keeps the counts exact, the phases sound, one receiver per session and
\* the closing list without repetitions.
LEMMA SessionStep ==
    ASSUME NetworkLifeTypeOK, NetworkLifeTypeOK', SessionInv, Placed, Stages, [Next]_vars
    PROVE  SessionInv'
<1>1. At(Main, "idle") => \A t \in Workers \cup {Acceptor, Closer} : At(t, "none")
  BY DEF Stages, Joined, Serving, At, Workers
<1>2. CASE UNCHANGED vars
  <2>1. \A u \in Threads : Rests(u)
    BY <1>2 DEF vars, netVars, Rests
  <2>. QED
    BY <1>2, <2>1, QuietStep DEF vars, opVars
<1>3. ASSUME NEW t \in Workers, WorkerGoesOn(t) \/ \E s \in Sessions : WorkerTakes(t, s)
      PROVE  SessionInv'
  BY <1>3, OthersQuiet, WorkStep, DisconnectsStep, ReleasesStep, TakeStep
  DEF WorkerGoesOn, WorkerTakes
<1>4. CASE AcceptorStep
  BY <1>4, OthersQuiet, AllocateStep, FirstRecvStep DEF AcceptorStep
<1>5. CASE CloserStep
  BY <1>5, OthersQuiet, CloserCheckStep, CloserReleaseStep DEF CloserStep
<1>6. CASE AppDisconnect \/ AppDrop
  BY <1>6, DisconnectsStep, ReleasesStep
<1>7. CASE Next /\ (Start \/ StartAcceptor \/ Shutdown)
  BY <1>1, <1>7, MainQuiet, DisconnectsStep, ReleasesStep DEF Shutdown
<1>. QED
  BY <1>2, <1>3, <1>4, <1>5, <1>6, <1>7 DEF Next

------------------------------------------------------------------------------
(* How far Shutdown is                                                     *)

\* A step of another thread than Main takes nothing back of what Shutdown has
\* achieved: only the acceptor opens sessions, and threads that were joined do
\* not move.
LEMMA StagesMove ==
    ASSUME PcTyped, Stages, NEW t \in Threads, t # Main, NEW l, Moves(t, l), pc[t] # "none",
           t # Closer \/ Goto(t, l), UNCHANGED <<pool, slot, running>>,
           t = Acceptor \/ \A s \in Sessions : phase[s] = "free" => phase'[s] = "free"
    PROVE  Stages'
<1>0. /\ Main \in Threads /\ Acceptor \in Threads /\ Closer \in Threads /\ Main # Closer
      /\ IoThreads \subseteq Threads /\ ProcThreads \subseteq Threads
  BY ThreadsDiffer DEF Threads, Workers
<1>1. pc'[Main] = pc[Main]
  BY <1>0, MoveEffect
<1>2. \A u \in Threads : pc[u] = "none" => pc'[u] = "none"
  BY MoveEffect
<1>3. t = Acceptor => pc[Main] \in Serving
  BY DEF Stages, At
<1>. QED
  BY <1>0, <1>1, <1>2, <1>3 DEF Stages, Joined, At, Serving, Waiting

\* Only an accept takes a session that is free.
LEMMA FreeStays ==
    ASSUME NetworkLifeTypeOK, NEW s \in Sessions,
           \/ Life!Acquire(s) \/ Life!Release(s) \/ Life!Disconnect(s) \/ Life!Finish(s)
           \/ UNCHANGED phase
    PROVE  \A r \in Sessions : phase[r] = "free" => phase'[r] = "free"
BY DEF NetworkLifeTypeOK, Life!LifeTypeOK, Life!Acquire, Life!Release, Life!Disconnect,
       Life!Finish, Life!Go

\* Start and Shutdown get on in their order.
LEMMA StagesStep ==
    ASSUME NetworkLifeTypeOK, NetworkLifeTypeOK', Stages, [Next]_vars
    PROVE  Stages'
<1>0. /\ PcTyped /\ on \in [Threads -> Sessions] /\ 0 \in Sessions
      /\ Main \in Threads /\ Acceptor \in Threads /\ Closer \in Threads /\ App \in Threads
      /\ Workers \subseteq Threads
      /\ Main # Acceptor /\ Main # Closer /\ Main # App /\ Main \notin Workers
      /\ Acceptor # Closer /\ Acceptor \notin Workers /\ Closer \notin Workers /\ Closer # App
      /\ IoThreads \subseteq Workers /\ ProcThreads \subseteq Workers
  BY ThreadsDiffer, NetworkLifeAssumption
  DEF NetworkLifeTypeOK, PcTyped, Threads, Sessions, Workers
<1>1. CASE Start \/ StopAcceptor
  BY <1>0, <1>1 DEF Start, StopAcceptor, PcTyped, Goto, Stages, At, Serving, Waiting
<1>2. CASE StartAcceptor
  BY <1>0, <1>2 DEF StartAcceptor, PcTyped, Goto, Stages, At, Serving, Waiting
<1>3. CASE JoinAcceptor
  BY <1>0, <1>3 DEF JoinAcceptor, PcTyped, Stages, At, Serving, Waiting
<1>4. CASE DisconnectSlot
  BY <1>0, <1>4 DEF DisconnectSlot, PcTyped, Goto, Stages, At, Serving, Waiting
<1>5. CASE DropSlot
  <2>1. /\ pc[Main] = "drop" /\ Moves(Main, "disconnect") /\ UNCHANGED <<pool, running>>
    BY <1>5 DEF DropSlot, ReleaseRef, At, Moves
  <2>2. pc'[Main] = "disconnect" /\ pc'[Acceptor] = pc[Acceptor]
    BY <1>0, <2>1, MoveEffect
  <2>. QED
    BY <2>1, <2>2 DEF Stages, At, Serving, Waiting
<1>6. CASE DisconnectedAll
  <2>1. \A s \in Sessions : ~(s < 0)
    BY NetworkLifeAssumption DEF Sessions
  <2>. QED
    BY <1>0, <1>6, <2>1 DEF DisconnectedAll, PcTyped, Goto, Stages, At, Serving, Waiting
<1>7. CASE WaitForClosedSession
  <2>1. \A s \in Sessions : s < slot' => phase'[s] = "free"
    <3>1. \A s \in Sessions : s < slot => phase[s] = "free"
      BY <1>7 DEF WaitForClosedSession, Stages
    <3>. QED
      BY <1>7, <3>1, NetworkLifeAssumption DEF WaitForClosedSession, Sessions
  <2>. QED
    BY <1>7, <2>1 DEF WaitForClosedSession, Stages, At, Serving, Waiting
<1>8. CASE StopRunning
  <2>1. \A s \in Sessions : phase[s] = "free"
    <3>1. \A s \in Sessions : s < slot => phase[s] = "free"
      BY <1>8 DEF StopRunning, Stages
    <3>2. slot \in 0 .. MaxSessionCount /\ slot \notin Sessions
      BY <1>8 DEF StopRunning, NetworkLifeTypeOK
    <3>3. \A s \in Sessions : s < slot
      BY <3>2, NetworkLifeAssumption DEF Sessions
    <3>. QED
      BY <3>1, <3>3
  <2>. QED
    BY <1>0, <1>8, <2>1 DEF StopRunning, PcTyped, Goto, Stages, At, Serving, Waiting
<1>9. CASE EnqueueEmpty
  BY <1>0, <1>9
  DEF EnqueueEmpty, PcTyped, Goto, Stages, At, Serving, Waiting, Joined, netVars
<1>10. CASE Join("joinIo", IoThreads, "joinProc")
  <2>1. /\ pc[Main] = "joinIo" /\ pc'[Main] = "joinProc" /\ pc'[Acceptor] = pc[Acceptor]
        /\ \A t \in IoThreads : pc'[t] = "none"
        /\ UNCHANGED <<phase, pool, running>>
    BY <1>0, <1>10 DEF Join, At, netVars
  <2>. QED
    BY <2>1 DEF Stages, At, Serving, Waiting, Joined
<1>11. CASE Join("joinProc", ProcThreads, "notify")
  <2>1. /\ pc[Main] = "joinProc" /\ pc'[Main] = "notify" /\ pc'[Acceptor] = pc[Acceptor]
        /\ \A t \in ProcThreads : pc'[t] = "none"
        /\ \A t \in IoThreads : pc[t] = "none" => pc'[t] = "none"
        /\ UNCHANGED <<phase, pool, running>>
    BY <1>0, <1>11 DEF Join, At, netVars
  <2>. QED
    BY <2>1 DEF Stages, At, Serving, Waiting, Joined
<1>12. CASE NotifyCloser
  <2>1. /\ pc[Main] = "notify" /\ pc'[Main] = "joinCloser" /\ pc'[Acceptor] = pc[Acceptor]
        /\ \A t \in Workers : pc'[t] = pc[t]
        /\ UNCHANGED <<phase, pool, running>>
    BY <1>0, <1>12 DEF NotifyCloser, GotoAndNotify, PcTyped, At, netVars
  <2>. QED
    BY <1>0, <2>1 DEF Stages, At, Serving, Waiting, Joined
<1>13. CASE Join("joinCloser", {Closer}, "destroy")
  <2>1. /\ pc[Main] = "joinCloser" /\ pc'[Main] = "destroy" /\ pc'[Acceptor] = pc[Acceptor]
        /\ \A t \in Workers : pc'[t] = pc[t]
        /\ pc'[Closer] = "none"
        /\ UNCHANGED <<phase, pool, running>>
    BY <1>0, <1>13 DEF Join, At, netVars
  <2>. QED
    BY <1>0, <2>1 DEF Stages, At, Serving, Waiting, Joined
<1>14. CASE DestroySessionPool
  <2>1. /\ pc[Main] = "destroy" /\ pc'[Main] = "idle" /\ pc'[Acceptor] = pc[Acceptor]
        /\ \A t \in Workers : pc'[t] = pc[t]
        /\ pc'[Closer] = pc[Closer]
        /\ pool' = FALSE
        /\ UNCHANGED <<phase, running>>
    BY <1>0, <1>14 DEF DestroySessionPool, Goto, PcTyped, At, netVars
  <2>. QED
    BY <1>0, <2>1 DEF Stages, At, Serving, Waiting, Joined
<1>15. CASE AcceptorStep
  <2>1. /\ pc[Acceptor] # "none" /\ \E l : Goto(Acceptor, l)
        /\ UNCHANGED <<pool, slot, running>>
    BY <1>15 DEF AcceptorStep, AcceptorTest, Accept, AllocateSession, AcceptorPostRecv, At,
       netVars
  <2>. QED
    BY <1>0, <2>1, StagesMove DEF Moves
<1>16. CASE CloserStep
  <2>1. /\ pc[Closer] # "none" /\ \E l : Goto(Closer, l)
        /\ UNCHANGED <<pool, slot, running>>
    BY <1>16 DEF CloserStep, CloserCheck, CloserWait, CloserRelease, At, netVars
  <2>2. \A s \in Sessions : phase[s] = "free" => phase'[s] = "free"
    BY <1>0, <1>16, FreeStays DEF CloserStep, CloserCheck, CloserWait, CloserRelease
  <2>. QED
    BY <1>0, <2>1, <2>2, StagesMove DEF Moves
<1>17. CASE AppDisconnect \/ AppDrop
  <2>1. /\ pc[App] # "none" /\ \E l : Moves(App, l)
        /\ UNCHANGED <<pool, slot, running>>
    BY <1>17 DEF AppDisconnect, AppDrop, ReleaseRef, At, Moves, netVars
  <2>2. \A s \in Sessions : phase[s] = "free" => phase'[s] = "free"
    BY <1>0, <1>17, FreeStays DEF AppDisconnect, AppDrop, ReleaseRef
  <2>. QED
    BY <1>0, <2>1, <2>2, StagesMove
<1>18. ASSUME NEW t \in Workers, WorkerGoesOn(t) \/ \E s \in Sessions : WorkerTakes(t, s)
       PROVE  Stages'
  <2>0. t \in Threads /\ t # Main /\ t # Closer /\ on[t] \in Sessions
    BY <1>0
  <2>1. /\ pc[t] # "none" /\ \E l : Moves(t, l)
        /\ UNCHANGED <<pool, slot, running>>
        /\ \A s \in Sessions : phase[s] = "free" => phase'[s] = "free"
    <3>1. CASE WorkerTest(t) \/ DequeueEmpty(t) \/ DequeueNothing(t) \/ Dispatched(t)
      BY <3>1 DEF WorkerTest, DequeueEmpty, DequeueNothing, Dispatched, At, Moves, netVars
    <3>2. CASE PostProcess(t) \/ PostRecv(t) \/ WorkerDisconnect(t)
      <4>1. \A s \in Sessions : phase[s] = "free" => phase'[s] = "free"
        BY <2>0, <3>2, FreeStays DEF PostProcess, PostRecv, WorkerDisconnect
      <4>. QED
        BY <3>2, <4>1 DEF PostProcess, PostRecv, WorkerDisconnect, At, Moves, netVars
    <3>3. CASE WorkerRelease(t)
      <4>1. \A s \in Sessions : phase[s] = "free" => phase'[s] = "free"
        BY <2>0, <3>3, FreeStays DEF WorkerRelease, ReleaseRef
      <4>. QED
        BY <3>3, <4>1 DEF WorkerRelease, ReleaseRef, At, Moves, netVars
    <3>4. CASE \E s \in Sessions : WorkerTakes(t, s)
      BY <3>4 DEF WorkerTakes, DequeueIO, DequeueProcess, At, Moves, netVars
    <3>. QED
      BY <1>18, <3>1, <3>2, <3>3, <3>4 DEF WorkerGoesOn
  <2>. QED
    BY <1>0, <2>0, <2>1, StagesMove
<1>19. CASE UNCHANGED vars
  BY <1>19 DEF vars, netVars, Stages, At, Joined
<1>. QED
  BY <1>1, <1>2, <1>3, <1>4, <1>5, <1>6, <1>7, <1>8, <1>9, <1>10, <1>11, <1>12, <1>13, <1>14,
     <1>15, <1>16, <1>17, <1>18, <1>19
  DEF Next, Shutdown

------------------------------------------------------------------------------
(* The entries that wake the workers                                       *)

Dequeuing(T) == {t \in T : At(t, "dequeue")}

\* The threads that are about to dequeue can be counted.
LEMMA DequeuingFinite ==
    /\ \A T \in {IoThreads, ProcThreads} :
           /\ IsFiniteSet(Dequeuing(T)) /\ Cardinality(Dequeuing(T)) \in Nat
           /\ IsFiniteSet(Dequeuing(T)') /\ Cardinality(Dequeuing(T)') \in Nat
           /\ Cardinality(Dequeuing(T)') <= Cardinality(T)
           /\ Dequeuing(T)' \subseteq Dequeuing(T) =>
                  Cardinality(Dequeuing(T)') <= Cardinality(Dequeuing(T))
<1>1. ASSUME NEW T \in {IoThreads, ProcThreads}
      PROVE  IsFiniteSet(T) /\ Dequeuing(T) \subseteq T /\ Dequeuing(T)' \subseteq T
  BY ThreadsFinite DEF Dequeuing
<1>2. ASSUME NEW T \in {IoThreads, ProcThreads}
      PROVE  /\ IsFiniteSet(Dequeuing(T)) /\ IsFiniteSet(Dequeuing(T)')
             /\ Cardinality(Dequeuing(T)') <= Cardinality(T)
  BY <1>1, FS_Subset
<1>3. ASSUME NEW T \in {IoThreads, ProcThreads}
      PROVE  Cardinality(Dequeuing(T)) \in Nat /\ Cardinality(Dequeuing(T)') \in Nat
  BY <1>2, FS_CardinalityType
<1>4. ASSUME NEW T \in {IoThreads, ProcThreads}, Dequeuing(T)' \subseteq Dequeuing(T)
      PROVE  Cardinality(Dequeuing(T)') <= Cardinality(Dequeuing(T))
  BY <1>2, <1>4, FS_Subset
<1>. QED
  BY <1>2, <1>3, <1>4

\* The entries still suffice after every step of Main and of the others.
LEMMA EntriesStep ==
    ASSUME NetworkLifeTypeOK, NetworkLifeTypeOK', Stages, EntriesSuffice, [Next]_vars
    PROVE  EntriesSuffice'
<1>0. /\ PcTyped /\ Main \in Threads /\ Acceptor \in Threads /\ Closer \in Threads
      /\ App \in Threads /\ Workers \subseteq Threads
      /\ Main # Acceptor /\ Main # Closer /\ Main # App /\ Main \notin Workers
      /\ Acceptor \notin Workers /\ Closer \notin Workers /\ App \notin Workers
      /\ IoThreads \subseteq Workers /\ ProcThreads \subseteq Workers
      /\ \A t \in IoThreads : t \notin ProcThreads
      /\ ioEmpty \in Nat /\ procEmpty \in Nat /\ ioEmpty' \in Nat /\ procEmpty' \in Nat
  BY ThreadsDiffer, NetworkLifeAssumption DEF NetworkLifeTypeOK, PcTyped, Threads, Workers
<1>00. SUFFICES ASSUME pc'[Main] \in {"joinIo", "joinProc"}
                PROVE  /\ Cardinality(Dequeuing(ProcThreads)') <= procEmpty'
                       /\ supportRIO' \/ Cardinality(Dequeuing(IoThreads)') <= ioEmpty'
  BY DEF EntriesSuffice, Dequeuing
<1>1. pc[Main] \in {"joinIo", "joinProc"} =>
          /\ Cardinality(Dequeuing(ProcThreads)) <= procEmpty
          /\ supportRIO \/ Cardinality(Dequeuing(IoThreads)) <= ioEmpty
  BY DEF EntriesSuffice, Dequeuing
<1>2. ASSUME pc[Main] \in {"joinIo", "joinProc"}, UNCHANGED <<ioEmpty, procEmpty, supportRIO>>,
             \A t \in Workers : pc'[t] = "dequeue" => pc[t] = "dequeue"
      PROVE  /\ Cardinality(Dequeuing(ProcThreads)') <= procEmpty'
             /\ supportRIO' \/ Cardinality(Dequeuing(IoThreads)') <= ioEmpty'
  <2>1. \A T \in {IoThreads, ProcThreads} : Dequeuing(T)' \subseteq Dequeuing(T)
    BY <1>0, <1>2 DEF Dequeuing, At
  <2>2. \A T \in {IoThreads, ProcThreads} :
            Cardinality(Dequeuing(T)') <= Cardinality(Dequeuing(T))
    BY <2>1, DequeuingFinite
  <2>. QED
    BY <1>0, <1>1, <1>2, <2>2, DequeuingFinite
<1>3. CASE EnqueueEmpty
  <2>1. \A T \in {IoThreads, ProcThreads} :
            Cardinality(T) \in Nat /\ Cardinality(Dequeuing(T)') <= Cardinality(T)
            /\ Cardinality(Dequeuing(T)') \in Nat
    BY ThreadsFinite, FS_CardinalityType, DequeuingFinite
  <2>. QED
    BY <1>0, <1>3, <2>1 DEF EnqueueEmpty, netVars
<1>4. CASE Join("joinIo", IoThreads, "joinProc")
  <2>1. \A t \in Workers : pc'[t] = "dequeue" => pc[t] = "dequeue"
    BY <1>0, <1>4 DEF Join
  <2>. QED
    BY <1>2, <1>4, <2>1 DEF Join, At, emptyVars, netVars
\* The other steps of Main go elsewhere.
<1>5. CASE \/ Start \/ StartAcceptor \/ StopAcceptor \/ JoinAcceptor
           \/ DisconnectSlot \/ DropSlot \/ DisconnectedAll \/ WaitForClosedSession
           \/ StopRunning \/ NotifyCloser \/ DestroySessionPool
           \/ Join("joinProc", ProcThreads, "notify") \/ Join("joinCloser", {Closer}, "destroy")
  <2>1. CASE Start \/ StartAcceptor \/ StopAcceptor \/ JoinAcceptor
    BY <1>0, <1>00, <2>1 DEF Start, StartAcceptor, StopAcceptor, JoinAcceptor, Goto, PcTyped, At
  <2>2. CASE DisconnectSlot \/ DisconnectedAll \/ WaitForClosedSession \/ StopRunning
    BY <1>0, <1>00, <2>2
    DEF DisconnectSlot, DisconnectedAll, WaitForClosedSession, StopRunning, Goto, PcTyped, At
  <2>3. CASE DropSlot \/ NotifyCloser \/ DestroySessionPool
    <3>1. \E l \in {"disconnect", "joinCloser", "idle"} : Moves(Main, l)
      BY <2>3 DEF DropSlot, NotifyCloser, DestroySessionPool, ReleaseRef, Moves
    <3>. QED
      BY <1>0, <1>00, <3>1, MoveEffect
  <2>4. CASE Join("joinProc", ProcThreads, "notify") \/ Join("joinCloser", {Closer}, "destroy")
    BY <1>0, <1>00, <2>4 DEF Join
  <2>. QED
    BY <1>5, <2>1, <2>2, <2>3, <2>4
<1>6. ASSUME NEW t \in Threads, t # Main, NEW l, l # "dequeue", Moves(t, l),
             t # Closer \/ t \notin Workers
      PROVE  /\ pc[Main] \in {"joinIo", "joinProc"}
             /\ \A u \in Workers : pc'[u] = "dequeue" => pc[u] = "dequeue"
             /\ t \in Workers => pc'[t] # "dequeue"
  <2>1. /\ \A u \in Threads : u # t => (pc'[u] = "dequeue" => pc[u] = "dequeue")
        /\ t \in Workers => pc'[t] = l
    BY <1>0, <1>6, MoveEffect
  <2>2. pc'[Main] = pc[Main]
    BY <1>0, <1>6, MoveEffect
  <2>. QED
    BY <1>0, <1>00, <1>6, <2>1, <2>2
<1>7. CASE AcceptorStep \/ CloserStep \/ AppDisconnect \/ AppDrop
  <2>1. PICK t \in {Acceptor, Closer, App} : \E l : l # "dequeue" /\ Moves(t, l)
    <3>1. CASE AcceptorStep
      BY <3>1 DEF AcceptorStep, AcceptorTest, Accept, AllocateSession, AcceptorPostRecv, Moves
    <3>2. CASE CloserStep
      BY <3>2 DEF CloserStep, CloserCheck, CloserWait, CloserRelease, Moves
    <3>3. CASE AppDisconnect \/ AppDrop
      BY <3>3 DEF AppDisconnect, AppDrop, ReleaseRef, Moves
    <3>. QED
      BY <1>7, <3>1, <3>2, <3>3
  <2>2. UNCHANGED <<ioEmpty, procEmpty, supportRIO>>
    BY <1>7 DEF AcceptorStep, AcceptorTest, Accept, AllocateSession, AcceptorPostRecv, CloserStep,
       CloserCheck, CloserWait, CloserRelease, AppDisconnect, AppDrop, emptyVars, netVars
  <2>. QED
    BY <1>0, <1>2, <1>6, <2>1, <2>2
<1>8. ASSUME NEW t \in Workers, DequeueEmpty(t)
      PROVE  /\ Cardinality(Dequeuing(ProcThreads)') <= procEmpty'
             /\ supportRIO' \/ Cardinality(Dequeuing(IoThreads)') <= ioEmpty'
  <2>1. /\ pc[t] = "dequeue" /\ Goto(t, "done") /\ UNCHANGED supportRIO
    BY <1>8 DEF DequeueEmpty, At, netVars
  <2>2. /\ pc'[t] = "done" /\ pc'[Main] = pc[Main]
        /\ \A u \in Workers : u # t => pc'[u] = pc[u]
    BY <1>0, <2>1 DEF Goto, PcTyped
  <2>3. ASSUME NEW T \in {IoThreads, ProcThreads}
        PROVE  Dequeuing(T)' = Dequeuing(T) \ {t} /\ (t \in T => t \in Dequeuing(T))
    BY <1>0, <2>1, <2>2 DEF Dequeuing, At
  <2>4. ASSUME NEW T \in {IoThreads, ProcThreads}
        PROVE  Cardinality(Dequeuing(T)') = Cardinality(Dequeuing(T)) - (IF t \in T THEN 1 ELSE 0)
    <3>1. CASE t \in T
      BY <2>3, <3>1, DequeuingFinite, FS_RemoveElement
    <3>2. CASE t \notin T
      <4>1. Dequeuing(T)' = Dequeuing(T)
        BY <2>3, <3>2 DEF Dequeuing
      <4>. QED
        BY <3>2, <4>1, DequeuingFinite
    <3>. QED
      BY <3>1, <3>2
  <2>5. \/ t \in IoThreads /\ t \notin ProcThreads /\ ioEmpty' = ioEmpty - 1 /\ procEmpty' = procEmpty
        \/ t \in ProcThreads /\ t \notin IoThreads /\ procEmpty' = procEmpty - 1 /\ ioEmpty' = ioEmpty
    BY <1>0, <1>8 DEF DequeueEmpty
  <2>6. pc[Main] \in {"joinIo", "joinProc"}
    BY <1>00, <2>2
  <2>. QED
    BY <1>0, <1>1, <2>1, <2>4, <2>5, <2>6, DequeuingFinite
<1>9. ASSUME NEW t \in Workers, WorkerTest(t)
      PROVE  /\ Cardinality(Dequeuing(ProcThreads)') <= procEmpty'
             /\ supportRIO' \/ Cardinality(Dequeuing(IoThreads)') <= ioEmpty'
  <2>1. pc'[Main] = pc[Main]
    BY <1>0, <1>9 DEF WorkerTest, Goto, PcTyped
  <2>2. ~running
    BY <1>00, <2>1 DEF Stages, Serving, Waiting
  <2>3. Goto(t, "done") /\ UNCHANGED <<ioEmpty, procEmpty, supportRIO>>
    BY <1>9, <2>2 DEF WorkerTest, emptyVars, netVars
  <2>. QED
    BY <1>0, <1>2, <1>6, <2>3 DEF Moves
<1>10. ASSUME NEW t \in Workers,
              \/ DequeueNothing(t) \/ PostProcess(t) \/ PostRecv(t) \/ WorkerDisconnect(t)
              \/ Dispatched(t) \/ WorkerRelease(t) \/ \E s \in Sessions : WorkerTakes(t, s)
       PROVE  /\ Cardinality(Dequeuing(ProcThreads)') <= procEmpty'
              /\ supportRIO' \/ Cardinality(Dequeuing(IoThreads)') <= ioEmpty'
  <2>1. (\E l : l # "dequeue" /\ Moves(t, l)) /\ UNCHANGED <<ioEmpty, procEmpty, supportRIO>>
    <3>1. CASE DequeueNothing(t) \/ Dispatched(t) \/ WorkerDisconnect(t) \/ PostRecv(t)
      BY <3>1 DEF DequeueNothing, Dispatched, WorkerDisconnect, PostRecv, Moves, emptyVars, netVars
    <3>2. CASE PostProcess(t)
      BY <3>2 DEF PostProcess, Moves, emptyVars, netVars
    <3>3. CASE WorkerRelease(t)
      BY <3>3 DEF WorkerRelease, ReleaseRef, Moves, emptyVars, netVars
    <3>4. CASE \E s \in Sessions : WorkerTakes(t, s)
      BY <3>4 DEF WorkerTakes, DequeueIO, DequeueProcess, Moves, emptyVars, netVars
    <3>. QED
      BY <1>10, <3>1, <3>2, <3>3, <3>4
  <2>. QED
    BY <1>0, <1>2, <1>6, <2>1
<1>11. CASE UNCHANGED vars
  BY <1>00, <1>2, <1>11 DEF vars, emptyVars, netVars
<1>. QED
  BY <1>3, <1>4, <1>5, <1>7, <1>8, <1>9, <1>10, <1>11 DEF Next, Shutdown, WorkerGoesOn

------------------------------------------------------------------------------
(* The theorems                                                            *)

\* Init satisfies the invariant.
LEMMA IInvInit == Init => IInv
<1>. SUFFICES ASSUME Init PROVE IInv
  OBVIOUS
<1>0. /\ Main \in Threads /\ Acceptor \in Threads /\ Closer \in Threads /\ App \in Threads
      /\ Workers \subseteq Threads
      /\ Main # Acceptor /\ Main # Closer /\ Main \notin Workers /\ App \notin Workers
      /\ Acceptor # App /\ Closer # App /\ Acceptor \notin Workers /\ Closer \notin Workers
      /\ \A t \in Threads : pc[t] = IF t \in {Main, App} THEN "idle" ELSE "none"
  BY ThreadsDiffer DEF Init, Threads
<1>00. /\ \A t \in Workers : pc[t] = "none"
       /\ pc[Main] = "idle" /\ pc[App] = "idle" /\ pc[Acceptor] = "none" /\ pc[Closer] = "none"
  BY <1>0
<1>1. NetworkLifeTypeOK
  <2>1. pc \in [Threads -> Labels] /\ on \in [Threads -> Sessions]
    BY NetworkLifeAssumption DEF Init, Labels, Sessions
  <2>2. Life!LifeTypeOK
    BY DEF Init, Life!Init, Life!LifeTypeOK, Life!Phases
  <2>3. /\ ioOps \in [Sessions -> 0 .. 1] /\ procOps \in [Sessions -> 0 .. 1]
        /\ ioEmpty \in Nat /\ procEmpty \in Nat
        /\ closingList \in Seq(Sessions)
    BY EmptySeq DEF Init
  <2>4. slot \in 0 .. MaxSessionCount /\ starts \in 0 .. MaxStarts
    BY NetworkLifeAssumption DEF Init
  <2>5. /\ running \in BOOLEAN /\ runningAcceptor \in BOOLEAN /\ listening \in BOOLEAN
        /\ pool \in BOOLEAN /\ supportRIO \in BOOLEAN
    BY DEF Init
  <2>. QED
    BY <2>1, <2>2, <2>3, <2>4, <2>5 DEF NetworkLifeTypeOK
<1>2. \A s : Held(s) = {} /\ Owing(s) = {}
  BY <1>0, <1>00 DEF Held, Owing, At, Holding
<1>3. RefsExact /\ PhasesSound
  <2>1. Cardinality({}) = 0
    BY FS_EmptySet
  <2>2. \A s \in Sessions : phase[s] = "free" /\ refs[s] = 0 /\ ioOps[s] = 0 /\ procOps[s] = 0
    BY DEF Init, Life!Init
  <2>3. \A s \in Sessions : Cardinality(Held(s)) = 0 /\ Cardinality(Owing(s)) = 0
    BY <1>2, <2>1
  <2>. QED
    BY <2>2, <2>3 DEF RefsExact, PhasesSound
<1>4. OneReceiver
  BY <1>0, <1>00 DEF OneReceiver, Receives, At, Workers
<1>5. ListSound
  <2>1. DOMAIN <<>> = {}
    OBVIOUS
  <2>2. closingList = <<>>
    BY DEF Init
  <2>. QED
    BY <1>0, <1>00, <2>1, <2>2 DEF ListSound, At
<1>6. Placed
  BY <1>00, NetworkLifeAssumption
  DEF Placed, MainLabels, WorkerLabels, AcceptorLabels, CloserLabels, AppLabels, Workers
<1>7. Stages
  BY <1>0, <1>00
  DEF Stages, Init, Life!Init, Joined, At, Serving, Waiting, Workers
<1>8. EntriesSuffice
  BY <1>0, <1>00 DEF EntriesSuffice
<1>. QED
  BY <1>1, <1>3, <1>4, <1>5, <1>6, <1>7, <1>8 DEF IInv

\* Every step keeps it.
LEMMA IInvNext == IInv /\ [Next]_vars => IInv'
<1>. SUFFICES ASSUME IInv, [Next]_vars PROVE IInv'
  OBVIOUS
<1>1. NetworkLifeTypeOK'
  BY TypeStep DEF IInv
<1>2. SessionInv'
  BY <1>1, SessionStep DEF IInv, SessionInv
<1>3. Placed' /\ Stages' /\ EntriesSuffice'
  BY <1>1, PlacedStep, StagesStep, EntriesStep DEF IInv
<1>. QED
  BY <1>1, <1>2, <1>3 DEF IInv, SessionInv

\* The invariant from which the theorems follow.
THEOREM NetworkLifeInvariant == Spec => []IInv
BY IInvInit, IInvNext, PTL DEF Spec

\* Type correctness, for any number of sessions and workers.
THEOREM NetworkLifeTyped == Spec => []NetworkLifeTypeOK
<1>1. IInv => NetworkLifeTypeOK
  BY DEF IInv
<1>. QED
  BY <1>1, NetworkLifeInvariant, PTL

\* DestroySessionPool deletes the sessions only when none is active, listed or
\* posted, and when every thread that Start started has been joined; before
\* the first Start and after Shutdown it is the same.
THEOREM PoolOutlives == Spec => []PoolOutlivesItsUsers
<1>1. IInv => PoolOutlivesItsUsers
  <2>. SUFFICES ASSUME IInv, pc[Main] \in {"destroy", "idle"}
                PROVE  /\ \A s \in Sessions : phase[s] = "free" /\ ioOps[s] = 0 /\ procOps[s] = 0
                       /\ closingList = <<>>
                       /\ \A t \in Workers \cup {Acceptor, Closer} : At(t, "none")
    BY DEF PoolOutlivesItsUsers, IInv, Stages, At
  <2>1. /\ \A s \in Sessions : phase[s] = "free"
        /\ \A t \in Workers \cup {Acceptor, Closer} : At(t, "none")
    BY DEF IInv, Stages, Joined, Serving, Waiting, Workers
  <2>2. \A s \in Sessions : ioOps[s] = 0 /\ procOps[s] = 0
    BY <2>1, Referenced DEF IInv
  <2>3. closingList = <<>>
    <3>1. closingList \in Seq(Sessions)
      BY DEF IInv, NetworkLifeTypeOK
    <3>2. SUFFICES ASSUME closingList # <<>> PROVE FALSE
      OBVIOUS
    <3>3. 1 \in DOMAIN closingList /\ closingList[1] \in Sessions
      BY <3>1, <3>2, HeadTailProperties, LenProperties, ElementOfSeq, EmptySeq
    <3>. QED
      BY <2>1, <3>3 DEF IInv, ListSound
  <2>. QED
    BY <2>1, <2>2, <2>3
<1>. QED
  BY <1>1, NetworkLifeInvariant, PTL

\* Shutdown queues an entry for every worker that will still wait for one.
THEOREM EntriesAreEnough == Spec => []EntriesSuffice
<1>1. IInv => EntriesSuffice
  BY DEF IInv
<1>. QED
  BY <1>1, NetworkLifeInvariant, PTL

\* A thread that is about to give a reference back finds the session connected
\* with another reference or on its way out: ReleaseRef never takes a count
\* below zero, and never the last reference of a connected session.
ReleasesCovered ==
    \A t \in Threads : pc[t] = "drop" \/ (pc[t] = "release" /\ t \in Workers) =>
        LET s == Of(t) IN
        /\ phase[s] \in {"open", "draining"}
        /\ refs[s] >= 1
        /\ phase[s] = "open" => refs[s] >= 2

\* Every ReleaseRef has a reference to release, in Shutdown too.
THEOREM ReleasesAreCovered == Spec => []ReleasesCovered
<1>1. IInv => ReleasesCovered
  <2>. SUFFICES ASSUME IInv, NEW t \in Threads,
                       pc[t] = "drop" \/ (pc[t] = "release" /\ t \in Workers)
                PROVE  /\ phase[Of(t)] \in {"open", "draining"} /\ refs[Of(t)] >= 1
                       /\ phase[Of(t)] = "open" => refs[Of(t)] >= 2
    BY DEF ReleasesCovered
  <2>1. PICK s \in Sessions : s = Of(t)
    BY ThreadsDiffer DEF IInv, NetworkLifeTypeOK, Of, Stages, Placed, MainLabels, At
  <2>2. t \in Held(s) \/ t \in Owing(s)
    BY <2>1, ThreadsDiffer DEF Held, Owing, Holding, At, Of
  <2>3. refs[s] \in Nat
    BY CountsTyped DEF IInv
  <2>. QED
    BY <2>1, <2>2, <2>3, Referenced DEF IInv
<1>. QED
  BY <1>1, NetworkLifeInvariant, PTL

==============================================================================
