----------------------------- MODULE NetworkLife -----------------------------
(***************************************************************************)
(* Start and Shutdown of NetLib/NetLib/Network.cpp with the threads they   *)
(* start and join: the acceptor, the I/O and process workers, the closing  *)
(* thread with its condition variable, and an application thread.          *)
(*                                                                         *)
(* The sessions are those of SessionLife, which the sessions of Network    *)
(* are checked to implement; here they carry at most one operation of each *)
(* kind.  Every session can be attached.  The application calls Start,     *)
(* StartAcceptor, StopAcceptor and Shutdown from one thread, Main, and     *)
(* makes no connection and no call on a session after Shutdown returns.    *)
(***************************************************************************)
EXTENDS Integers, Sequences, FiniteSets

CONSTANTS MaxSessionCount,
          IoThreads, ProcThreads,       \* m_IOThreads, m_ProcessThreads
          Main, Acceptor, Closer, App,  \* the other threads
          MaxStarts                     \* bound on the calls of Start

Sessions == 0 .. MaxSessionCount - 1
Workers == IoThreads \cup ProcThreads
Threads == Workers \cup {Main, Acceptor, Closer, App}

ASSUME NetworkLifeAssumption ==
    /\ MaxSessionCount \in Nat \ {0}
    /\ IsFiniteSet(Workers)
    /\ IoThreads \cap ProcThreads = {}
    /\ {Main, Acceptor, Closer, App} \cap Workers = {}
    /\ Cardinality({Main, Acceptor, Closer, App}) = 4
    /\ MaxStarts \in Nat

VARIABLES
    phase, refs,      \* the sessions, as in SessionLife
    ioOps,            \* receives and sends posted and not yet dequeued, per session
    procOps,          \* entries of m_ProcessIOCP that carry the session
    ioEmpty,          \* entries without a session in the I/O completion port
    procEmpty,        \* entries without a session in m_ProcessIOCP
    closingList,      \* m_ClosingSessionList
    running,          \* m_Running
    runningAcceptor,  \* m_RunningAcceptor
    listening,        \* m_ListenSocket # INVALID_SOCKET
    pool,             \* m_ActiveSessionList # nullptr
    slot,             \* the loop variable of Shutdown and WaitForClosedSession
    starts,           \* how often Start was called
    supportRIO,       \* SupportRIO: found out once, when the process starts
    pc, on            \* where each thread is, and the session it works on

opVars == <<ioOps, procOps>>
emptyVars == <<ioEmpty, procEmpty>>
netVars == <<running, runningAcceptor, listening, pool, slot, starts, supportRIO>>
vars == <<phase, refs, opVars, emptyVars, closingList, netVars, pc, on>>

Life == INSTANCE SessionLife

Init ==
    /\ Life!Init
    /\ ioOps = [s \in Sessions |-> 0] /\ procOps = [s \in Sessions |-> 0]
    /\ ioEmpty = 0 /\ procEmpty = 0
    /\ closingList = <<>>
    /\ running = TRUE /\ runningAcceptor = FALSE /\ listening = FALSE
    /\ pool = FALSE
    /\ slot = 0 /\ starts = 0 /\ supportRIO \in BOOLEAN
    /\ pc = [t \in Threads |-> IF t \in {Main, App} THEN "idle" ELSE "none"]
    /\ on = [t \in Threads |-> 0]

At(t, l) == pc[t] = l
Goto(t, l) == pc' = [pc EXCEPT ![t] = l]
\* Thread t has done with its session.
Forget(t) == on' = [on EXCEPT ![t] = 0]
\* Thread t goes to l, and wakes the closing thread if it waits for its
\* condition variable.
GotoAndNotify(t, l) ==
    pc' = [pc EXCEPT ![t] = l, ![Closer] = IF @ = "wait" THEN "check" ELSE @]

\* ReleaseRef and, at the last reference, AddClosingSession, which needs
\* m_ClosingSessionListLock: the closing thread has it from the test of its
\* condition until it waits.
ReleaseRef(t, s, l) ==
    /\ Life!Release(s)
    /\ IF phase'[s] = "closing"
       THEN /\ pc[Closer] # "block"
            /\ closingList' = Append(closingList, s)
            /\ GotoAndNotify(t, l)
       ELSE Goto(t, l) /\ UNCHANGED closingList

------------------------------------------------------------------------------
(* Start, StartAcceptor, StopAcceptor                                      *)

\* Start: the pool, and StartThread.
Start ==
    /\ At(Main, "idle") /\ starts < MaxStarts
    /\ starts' = starts + 1
    /\ pool' = TRUE /\ running' = TRUE
    /\ pc' = [t \in Threads |-> CASE t = Main -> "up"
                                  [] t \in Workers -> "test"
                                  [] t = Closer -> "check"
                                  [] OTHER -> pc[t]]
    /\ UNCHANGED <<phase, refs, opVars, emptyVars, closingList, runningAcceptor, listening,
                   slot, on, supportRIO>>

\* StartAcceptor: the socket may fail to listen, the thread is started anyway.
StartAcceptor ==
    /\ At(Main, "up")
    /\ listening' \in {TRUE, listening}
    /\ IF At(Acceptor, "none") THEN runningAcceptor' = TRUE /\ Goto(Acceptor, "test")
                               ELSE UNCHANGED <<runningAcceptor, pc>>
    /\ UNCHANGED <<phase, refs, opVars, emptyVars, closingList, running, pool, slot, starts,
                   on, supportRIO>>

\* StopAcceptor, alone or as the beginning of Shutdown: no more accepts ...
StopAcceptor ==
    /\ At(Main, "up")
    /\ runningAcceptor' = FALSE /\ listening' = FALSE
    /\ \E l \in {"stop", "shutdown"} : Goto(Main, l)
    /\ UNCHANGED <<phase, refs, opVars, emptyVars, closingList, running, pool, slot, starts,
                   on, supportRIO>>

\* Mutant: the acceptor is not joined.
JoinNobody ==
    /\ \/ At(Main, "stop") /\ Goto(Main, "up")
       \/ At(Main, "shutdown") /\ Goto(Main, "disconnect")
    /\ slot' = 0
    /\ UNCHANGED <<phase, refs, opVars, emptyVars, closingList, running, runningAcceptor,
                   listening, pool, starts, on, supportRIO>>

\* ... and the acceptor is joined.
JoinAcceptor ==
    /\ pc[Acceptor] \in {"none", "done"}
    /\ pc' = [pc EXCEPT ![Acceptor] = "none", ![Main] = IF @ = "stop" THEN "up" ELSE "disconnect"]
    /\ pc[Main] \in {"stop", "shutdown"}
    /\ slot' = 0
    /\ UNCHANGED <<phase, refs, opVars, emptyVars, closingList, running, runningAcceptor,
                   listening, pool, starts, on, supportRIO>>

------------------------------------------------------------------------------
(* Shutdown                                                                *)

\* Shutdown holds m_SessionListLock while it disconnects what is active.
ListLocked == pc[Main] \in {"disconnect", "drop"}

\* Disconnect on the session of one slot; Disconnect's ReleaseRef follows.
DisconnectSlot ==
    /\ At(Main, "disconnect") /\ slot \in Sessions
    /\ IF phase[slot] = "open"
       THEN Life!Disconnect(slot) /\ Goto(Main, "drop") /\ UNCHANGED slot
       ELSE slot' = slot + 1 /\ UNCHANGED <<phase, refs, pc>>
    /\ UNCHANGED <<opVars, emptyVars, closingList, running, runningAcceptor, listening, pool,
                   starts, on, supportRIO>>

DropSlot ==
    /\ At(Main, "drop")
    /\ ReleaseRef(Main, slot, "disconnect")
    /\ slot' = slot + 1
    /\ UNCHANGED <<opVars, emptyVars, running, runningAcceptor, listening, pool, starts, on,
                   supportRIO>>

DisconnectedAll ==
    /\ At(Main, "disconnect") /\ slot \notin Sessions
    /\ slot' = 0 /\ Goto(Main, "wait")
    /\ UNCHANGED <<phase, refs, opVars, emptyVars, closingList, running, runningAcceptor,
                   listening, pool, starts, on, supportRIO>>

\* Mutant: a session that is disconnected counts as closed.
WaitForDisconnected ==
    /\ At(Main, "wait") /\ slot \in Sessions
    /\ slot' = IF phase[slot] # "open" THEN slot + 1 ELSE 0
    /\ UNCHANGED <<phase, refs, opVars, emptyVars, closingList, running, runningAcceptor,
                   listening, pool, starts, pc, on, supportRIO>>

\* WaitForClosedSession looks at one slot at a time, and begins again when one
\* is active.
WaitForClosedSession ==
    /\ At(Main, "wait") /\ slot \in Sessions
    /\ slot' = IF phase[slot] = "free" THEN slot + 1 ELSE 0
    /\ UNCHANGED <<phase, refs, opVars, emptyVars, closingList, running, runningAcceptor,
                   listening, pool, starts, pc, on, supportRIO>>

StopRunning ==
    /\ At(Main, "wait") /\ slot \notin Sessions
    /\ running' = FALSE
    /\ slot' = 0 /\ Goto(Main, "enqueue")
    /\ UNCHANGED <<phase, refs, opVars, emptyVars, closingList, runningAcceptor, listening,
                   pool, starts, on, supportRIO>>

\* Mutant: nothing wakes the process threads.
EnqueueForIo ==
    /\ At(Main, "enqueue")
    /\ ioEmpty' = IF supportRIO THEN ioEmpty ELSE ioEmpty + Cardinality(IoThreads)
    /\ Goto(Main, "joinIo")
    /\ UNCHANGED <<phase, refs, opVars, procEmpty, closingList, netVars, on>>

\* IOModel::Shutdown and the loop after it: one entry without a session per
\* worker that may be waiting.
EnqueueEmpty ==
    /\ At(Main, "enqueue")
    /\ ioEmpty' = IF supportRIO THEN ioEmpty ELSE ioEmpty + Cardinality(IoThreads)
    /\ procEmpty' = procEmpty + Cardinality(ProcThreads)
    /\ Goto(Main, "joinIo")
    /\ UNCHANGED <<phase, refs, opVars, closingList, netVars, on>>

\* Main, at l, joins the threads of T and goes on at next.
Join(l, T, next) ==
    /\ At(Main, l) /\ \A t \in T : At(t, "done")
    /\ pc' = [t \in Threads |-> IF t = Main THEN next ELSE IF t \in T THEN "none" ELSE pc[t]]
    /\ UNCHANGED <<phase, refs, opVars, emptyVars, closingList, netVars, on>>

NotifyCloser ==
    /\ At(Main, "notify")
    /\ GotoAndNotify(Main, "joinCloser")
    /\ UNCHANGED <<phase, refs, opVars, emptyVars, closingList, netVars, on>>

DestroySessionPool ==
    /\ At(Main, "destroy")
    /\ pool' = FALSE
    /\ Goto(Main, "idle")
    /\ UNCHANGED <<phase, refs, opVars, emptyVars, closingList, running, runningAcceptor,
                   listening, slot, starts, on, supportRIO>>

Shutdown ==
    \/ StopAcceptor \/ JoinAcceptor
    \/ DisconnectSlot \/ DropSlot \/ DisconnectedAll
    \/ WaitForClosedSession \/ StopRunning \/ EnqueueEmpty
    \/ Join("joinIo", IoThreads, "joinProc")
    \/ Join("joinProc", ProcThreads, "notify")
    \/ NotifyCloser
    \/ Join("joinCloser", {Closer}, "destroy")
    \/ DestroySessionPool

------------------------------------------------------------------------------
(* AcceptThread                                                            *)

AcceptorTest ==
    /\ At(Acceptor, "test")
    /\ Goto(Acceptor, IF runningAcceptor THEN "accept" ELSE "done")
    /\ UNCHANGED <<phase, refs, opVars, emptyVars, closingList, netVars, on>>

\* accept returns a socket, or fails because nothing listens.
Accept ==
    /\ At(Acceptor, "accept")
    /\ \/ listening /\ Goto(Acceptor, "allocate")
       \/ ~listening /\ Goto(Acceptor, "test")
    /\ UNCHANGED <<phase, refs, opVars, emptyVars, closingList, netVars, on>>

\* AllocateSession, or the socket is closed again.
AllocateSession ==
    /\ At(Acceptor, "allocate") /\ ~ListLocked
    /\ \/ \E s \in Sessions : Life!Open(s) /\ on' = [on EXCEPT ![Acceptor] = s]
                              /\ Goto(Acceptor, "post")
       \/ /\ \A s \in Sessions : phase[s] # "free"
          /\ Goto(Acceptor, "test")
          /\ UNCHANGED <<phase, refs, on>>
    /\ UNCHANGED <<opVars, emptyVars, closingList, netVars>>

\* PostRecv after OnAccept.
AcceptorPostRecv ==
    /\ At(Acceptor, "post")
    /\ LET s == on[Acceptor] IN
       IF phase[s] = "open" THEN Life!Acquire(s) /\ ioOps' = [ioOps EXCEPT ![s] = 1]
                            ELSE UNCHANGED <<phase, refs, ioOps>>
    /\ Goto(Acceptor, "test") /\ Forget(Acceptor)
    /\ UNCHANGED <<procOps, emptyVars, closingList, netVars>>

------------------------------------------------------------------------------
(* The workers                                                             *)

WorkerTest(t) ==
    /\ At(t, "test")
    /\ Goto(t, IF running THEN "dequeue" ELSE "done")
    /\ UNCHANGED <<phase, refs, opVars, emptyVars, closingList, netVars, on>>

\* An entry without a session: the worker leaves its loop.
DequeueEmpty(t) ==
    /\ At(t, "dequeue")
    /\ \/ t \in IoThreads /\ ioEmpty > 0 /\ ioEmpty' = ioEmpty - 1 /\ UNCHANGED procEmpty
       \/ t \in ProcThreads /\ procEmpty > 0 /\ procEmpty' = procEmpty - 1 /\ UNCHANGED ioEmpty
    /\ Goto(t, "done")
    /\ UNCHANGED <<phase, refs, opVars, closingList, netVars, on>>

\* RIODequeueCompletion does not wait.
DequeueNothing(t) ==
    /\ supportRIO /\ t \in IoThreads
    /\ At(t, "dequeue")
    /\ Goto(t, "test")
    /\ UNCHANGED <<phase, refs, opVars, emptyVars, closingList, netVars, on>>

DequeueIO(t, s) ==
    /\ t \in IoThreads
    /\ At(t, "dequeue") /\ ioOps[s] > 0
    /\ ioOps' = [ioOps EXCEPT ![s] = 0]
    /\ Goto(t, "work") /\ on' = [on EXCEPT ![t] = s]
    /\ UNCHANGED <<phase, refs, procOps, emptyVars, closingList, netVars>>

DequeueProcess(t, s) ==
    /\ t \in ProcThreads
    /\ At(t, "dequeue") /\ procOps[s] > 0
    /\ procOps' = [procOps EXCEPT ![s] = 0]
    /\ Goto(t, "work") /\ on' = [on EXCEPT ![t] = s]
    /\ UNCHANGED <<phase, refs, ioOps, emptyVars, closingList, netVars>>

\* Mutant: m_ProcPending does not exclude.
PostProcessAlways(t) ==
    /\ At(t, "work") /\ ProcThreads # {}
    /\ LET s == on[t] IN
       /\ Life!Acquire(s)
       /\ procOps' = [procOps EXCEPT ![s] = @ + 1]
    /\ Goto(t, IF t \in IoThreads THEN "post" ELSE "release")
    /\ UNCHANGED <<ioOps, emptyVars, closingList, netVars, on>>

\* The handler of a completion may queue the session for a process thread,
\* unless it is with one already, ...
PostProcess(t) ==
    /\ At(t, "work") /\ ProcThreads # {}
    /\ LET s == on[t] IN
       /\ procOps[s] = 0
       /\ \A p \in ProcThreads \ {t} : ~(At(p, "work") /\ on[p] = s)
       /\ Life!Acquire(s)
       /\ procOps' = [procOps EXCEPT ![s] = 1]
    /\ Goto(t, IF t \in IoThreads THEN "post" ELSE "release")
    /\ UNCHANGED <<ioOps, emptyVars, closingList, netVars, on>>

\* ... then posts the next receive, if the session is connected, ...
PostRecv(t) ==
    /\ pc[t] \in {"work", "post"} /\ t \in IoThreads
    /\ LET s == on[t] IN
       IF phase[s] = "open" THEN Life!Acquire(s) /\ ioOps' = [ioOps EXCEPT ![s] = 1]
                            ELSE UNCHANGED <<phase, refs, ioOps>>
    /\ Goto(t, "release")
    /\ UNCHANGED <<procOps, emptyVars, closingList, netVars, on>>

\* ... or disconnects it: the peer has closed, an operation or a packet has
\* failed, or a callback does so.
WorkerDisconnect(t) ==
    /\ pc[t] \in {"work", "post"} /\ phase[on[t]] = "open"
    /\ Life!Disconnect(on[t])
    /\ Goto(t, "drop")
    /\ UNCHANGED <<opVars, emptyVars, closingList, netVars, on>>

\* A process thread is done with the packets.
Dispatched(t) ==
    /\ At(t, "work") /\ t \in ProcThreads
    /\ Goto(t, "release")
    /\ UNCHANGED <<phase, refs, opVars, emptyVars, closingList, netVars, on>>

\* The release that belongs to Disconnect, then that of the operation.
WorkerRelease(t) ==
    /\ \/ At(t, "drop") /\ ReleaseRef(t, on[t], "release") /\ UNCHANGED on
       \/ At(t, "release") /\ ReleaseRef(t, on[t], "test") /\ Forget(t)
    /\ UNCHANGED <<opVars, emptyVars, netVars>>

WorkerGoesOn(t) ==
    WorkerTest(t) \/ DequeueEmpty(t) \/ DequeueNothing(t) \/ PostProcess(t) \/ PostRecv(t)
        \/ WorkerDisconnect(t) \/ Dispatched(t) \/ WorkerRelease(t)
WorkerTakes(t, s) == DequeueIO(t, s) \/ DequeueProcess(t, s)

------------------------------------------------------------------------------
(* ClosingThreadEntry, and an application thread that disconnects          *)

\* The test of the condition, under m_ClosingSessionListLock.
CloserCheck ==
    /\ At(Closer, "check")
    /\ IF closingList # <<>>
       THEN /\ closingList' = Tail(closingList)
            /\ on' = [on EXCEPT ![Closer] = Head(closingList)]
            /\ Goto(Closer, "release")
       ELSE /\ Goto(Closer, IF running THEN "block" ELSE "done")
            /\ UNCHANGED <<closingList, on>>
    /\ UNCHANGED <<phase, refs, opVars, emptyVars, netVars>>

\* It was false: the thread waits, and gives up the lock.
CloserWait ==
    /\ At(Closer, "block")
    /\ Goto(Closer, "wait")
    /\ UNCHANGED <<phase, refs, opVars, emptyVars, closingList, netVars, on>>

\* ReleaseSession.
CloserRelease ==
    /\ At(Closer, "release") /\ ~ListLocked
    /\ Life!Finish(on[Closer])
    /\ Goto(Closer, "check") /\ Forget(Closer)
    /\ UNCHANGED <<refs, opVars, emptyVars, closingList, netVars>>

AppDisconnect ==
    /\ At(App, "idle")
    /\ \E s \in Sessions : Life!Disconnect(s) /\ on' = [on EXCEPT ![App] = s]
    /\ Goto(App, "drop")
    /\ UNCHANGED <<opVars, emptyVars, closingList, netVars>>

AppDrop ==
    /\ At(App, "drop")
    /\ ReleaseRef(App, on[App], "idle") /\ Forget(App)
    /\ UNCHANGED <<opVars, emptyVars, netVars>>

------------------------------------------------------------------------------
AcceptorStep == AcceptorTest \/ Accept \/ AllocateSession \/ AcceptorPostRecv
CloserStep == CloserCheck \/ CloserWait \/ CloserRelease

Next ==
    \/ Start \/ StartAcceptor \/ Shutdown
    \/ AcceptorStep \/ CloserStep \/ AppDisconnect \/ AppDrop
    \/ \E t \in Workers : WorkerGoesOn(t) \/ \E s \in Sessions : WorkerTakes(t, s)

Spec == Init /\ [][Next]_vars

\* Every thread is scheduled; the operations of a disconnected session
\* complete, and are dequeued in their turn.  Nobody has to call Shutdown.
FairSpec ==
    /\ Spec
    /\ WF_vars(Shutdown /\ ~At(Main, "up"))
    /\ WF_vars(AcceptorStep /\ ~(At(Acceptor, "accept") /\ listening))
    /\ WF_vars(CloserStep) /\ WF_vars(AppDrop)
    /\ \A t \in Workers : WF_vars(WorkerGoesOn(t))
    /\ \A s \in Sessions : SF_vars(phase[s] # "open" /\ \E t \in Workers : WorkerTakes(t, s))

------------------------------------------------------------------------------
(* Properties                                                              *)

Labels == {"none", "idle", "up", "stop", "shutdown", "disconnect", "drop", "wait", "enqueue",
           "joinIo", "joinProc", "notify", "joinCloser", "destroy", "test", "accept",
           "allocate", "post", "dequeue", "work", "release", "check", "block", "done"}

NetworkLifeTypeOK ==
    /\ Life!LifeTypeOK
    /\ ioOps \in [Sessions -> 0 .. 1] /\ procOps \in [Sessions -> 0 .. 1]
    /\ ioEmpty \in Nat /\ procEmpty \in Nat
    /\ closingList \in Seq(Sessions)
    /\ running \in BOOLEAN /\ runningAcceptor \in BOOLEAN /\ listening \in BOOLEAN
    /\ pool \in BOOLEAN /\ supportRIO \in BOOLEAN
    /\ slot \in 0 .. MaxSessionCount
    /\ starts \in 0 .. MaxStarts
    /\ pc \in [Threads -> Labels]
    /\ on \in [Threads -> Sessions]

\* When the sessions are deleted nobody can reach one: none is active, none is
\* listed or carried by an entry of a queue, and every thread of the network has
\* been joined (Network.cpp:389, "wait until all sessions are disconnected").
PoolOutlivesItsUsers ==
    ~pool \/ At(Main, "destroy") =>
        /\ \A s \in Sessions : phase[s] = "free" /\ ioOps[s] = 0 /\ procOps[s] = 0
        /\ closingList = <<>>
        /\ \A t \in Workers \cup {Acceptor, Closer} : At(t, "none")

\* A worker that waits for an entry while Main joins it will get one: there are
\* as many entries without a session as there are workers to wake.
EntriesSuffice ==
    pc[Main] \in {"joinIo", "joinProc"} =>
        /\ Cardinality({t \in ProcThreads : At(t, "dequeue")}) <= procEmpty
        /\ supportRIO \/ Cardinality({t \in IoThreads : At(t, "dequeue")}) <= ioEmpty

\* Start starts the I/O and process threads (iNetwork.h:54): they serve until
\* the next Shutdown.
WorkersServe == At(Main, "up") => \A t \in Workers : ~At(t, "done")

\* Shutdown gets as far as the join of the closing thread: the acceptor and all
\* workers end, and every session is released.
WorkersStop ==
    pc[Main] \notin {"idle", "up", "stop"} ~> pc[Main] \in {"joinCloser", "idle"}

\* The join of the closing thread ends (Network.cpp:417, "shut down the closing
\* thread").
CloserStops == At(Main, "joinCloser") ~> At(Main, "idle")
==============================================================================
