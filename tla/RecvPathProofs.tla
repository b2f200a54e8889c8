---------------------------- MODULE RecvPathProofs ----------------------------
(***************************************************************************)
(* Theorems about RecvPath, for buffers of any size, any number of I/O and *)
(* process threads, any packets and any receives: at most one receive is   *)
(* under way, at most one thread takes packets, and OnDispatch sees the    *)
(* packets of the peer whole, once each and in order.                      *)
(***************************************************************************)
EXTENDS RecvPath, RingBufferProofs

------------------------------------------------------------------------------
(* Plans                                                                   *)

\* What a thread may still have to do, by what it holds: nothing, ...
Quiet == {<<>>, <<"Disconnect">>, <<"PostRecv">>, <<"Disconnect", "PostRecv">>,
          <<"Disconnect", "PostProcess", "PostRecv">>, <<"PostProcess", "PostRecv">>,
          <<"TryProc", "PostRecv">>, <<"Disconnect", "PostProcess">>, <<"PostProcess">>,
          <<"TryProc">>}
\* ... m_RecvPending, without room for what it has received, ...
GapPlans == {<<"Disconnect", "UnlockRecv", "PostRecv">>,
             <<"Disconnect", "UnlockRecv", "PostProcess", "PostRecv">>}
\* ... m_RecvPending, ...
RecvHeld == GapPlans \cup {<<"PostRecvLocked">>, <<"UnlockRecv">>, <<"UnlockRecv", "Disconnect">>,
                           <<"UnlockRecv", "PostRecv">>, <<"UnlockRecv", "PostProcess", "PostRecv">>}
\* ... m_ProcPending, to post or to unlock, ...
ProcHeld == {<<"PostProcessLocked">>, <<"PostProcessLocked", "PostRecv">>,
             <<"UnlockProc", "PostProcess">>, <<"UnlockProc", "Disconnect", "PostProcess">>}
\* ... or it takes packets: under m_ProcPending, or in ProcessPacket.
Taking == {<<"Unmarshall">>, <<"Dispatch">>}

\* The plans of the threads that receive, with and without packets to process.
RecvPlans == {<<>>, <<"Disconnect">>, <<"PostRecv">>, <<"PostRecvLocked">>, <<"UnlockRecv">>,
              <<"UnlockRecv", "Disconnect">>}
UserIoPlans == RecvPlans \cup {<<"Disconnect", "PostRecv">>, <<"UnlockRecv", "PostRecv">>,
                               <<"Disconnect", "UnlockRecv", "PostRecv">>}
OwnIoPlans == RecvPlans \cup GapPlans \cup
              {<<"UnlockRecv", "PostRecv">>, <<"UnlockRecv", "PostProcess", "PostRecv">>,
               <<"Disconnect", "PostRecv">>, <<"Disconnect", "PostProcess", "PostRecv">>,
               <<"PostProcess", "PostRecv">>, <<"TryProc", "PostRecv">>,
               <<"PostProcessLocked", "PostRecv">>}
OwnProcPlans == Taking \cup
                {<<>>, <<"UnlockProc", "PostProcess">>, <<"UnlockProc", "Disconnect", "PostProcess">>,
                 <<"Disconnect", "PostProcess">>, <<"PostProcess">>, <<"TryProc">>,
                 <<"PostProcessLocked">>}
AppPlans == {<<>>, <<"Disconnect">>}

PlansOf(t) ==
    IF t = Allocator THEN RecvPlans
    ELSE IF t = App THEN IF ownMode THEN AppPlans ELSE AppPlans \cup Taking
    ELSE IF t \in IoThreads THEN IF ownMode THEN OwnIoPlans ELSE UserIoPlans
    ELSE IF ownMode THEN OwnProcPlans ELSE {<<>>}

Planned ==
    /\ todo \in [Threads -> Quiet \cup RecvHeld \cup ProcHeld \cup Taking]
    /\ \A t \in Threads : todo[t] \in PlansOf(t)
    /\ ~ownMode => procQ = 0

\* Who holds what.
Gap(t) == todo[t] \in GapPlans
HoldsRecv(t) == todo[t] \in RecvHeld
HoldsProc(t) == todo[t] \in ProcHeld \/ (t \in ProcThreads /\ todo[t] \in Taking)

\* What is left of a plan of one, two, three and four steps, and what is put
\* before it.
LEMMA Joins ==
    /\ \A a : Head(<<a>>) = a /\ Tail(<<a>>) = <<>>
    /\ \A a, b : Head(<<a, b>>) = a /\ Tail(<<a, b>>) = <<b>>
    /\ \A a, b, c : Head(<<a, b, c>>) = a /\ Tail(<<a, b, c>>) = <<b, c>>
    /\ \A a, b, c, d : Head(<<a, b, c, d>>) = a /\ Tail(<<a, b, c, d>>) = <<b, c, d>>
    /\ <<>> \o <<>> = <<>>
    /\ \A a : <<>> \o <<a>> = <<a>> /\ <<a>> \o <<>> = <<a>>
    /\ \A a, b : <<>> \o <<a, b>> = <<a, b>> /\ <<a>> \o <<b>> = <<a, b>> /\ <<a, b>> \o <<>> = <<a, b>>
    /\ \A a, b, c : /\ <<>> \o <<a, b, c>> = <<a, b, c>> /\ <<a>> \o <<b, c>> = <<a, b, c>>
                    /\ <<a, b>> \o <<c>> = <<a, b, c>> /\ <<a, b, c>> \o <<>> = <<a, b, c>>
    /\ \A a, b, c, d : <<a, b>> \o <<c, d>> = <<a, b, c, d>>
<1>1. ASSUME NEW a PROVE Head(<<a>>) = a /\ Tail(<<a>>) = <<>>
  OBVIOUS
<1>2. ASSUME NEW a, NEW b PROVE Head(<<a, b>>) = a /\ Tail(<<a, b>>) = <<b>>
  OBVIOUS
<1>3. ASSUME NEW a, NEW b, NEW c PROVE Head(<<a, b, c>>) = a /\ Tail(<<a, b, c>>) = <<b, c>>
  OBVIOUS
<1>4. ASSUME NEW a, NEW b, NEW c, NEW d
      PROVE  Head(<<a, b, c, d>>) = a /\ Tail(<<a, b, c, d>>) = <<b, c, d>>
  OBVIOUS
<1>5. <<>> \o <<>> = <<>>
  OBVIOUS
<1>6. ASSUME NEW a PROVE <<>> \o <<a>> = <<a>> /\ <<a>> \o <<>> = <<a>>
  OBVIOUS
<1>7. ASSUME NEW a, NEW b
      PROVE  /\ <<>> \o <<a, b>> = <<a, b>> /\ <<a>> \o <<b>> = <<a, b>>
             /\ <<a, b>> \o <<>> = <<a, b>>
  <2>1. <<a, b>> \in Seq({a, b})
    OBVIOUS
  <2>2. <<a>> \o <<b>> = <<a, b>>
    <3>1. /\ <<a>> \in Seq({a, b}) /\ Len(<<a>>) = 1
          /\ <<b>> \in Seq({a, b}) /\ Len(<<b>>) = 1
          /\ <<a, b>> \in Seq({a, b}) /\ Len(<<a, b>>) = Len(<<a>>) + Len(<<b>>)
      OBVIOUS
    <3>2. \A i \in 1 .. Len(<<a>>) : <<a, b>>[i] = <<a>>[i]
      BY <3>1
    <3>3. \A i \in 1 .. Len(<<b>>) : <<a, b>>[Len(<<a>>) + i] = <<b>>[i]
      BY <3>1
    <3>. QED
      BY <3>1, <3>2, <3>3, ConcatIs
  <2>. QED
    BY <2>1, <2>2, ConcatEmptySeq
<1>8. ASSUME NEW a, NEW b, NEW c
      PROVE  /\ <<>> \o <<a, b, c>> = <<a, b, c>> /\ <<a>> \o <<b, c>> = <<a, b, c>>
             /\ <<a, b>> \o <<c>> = <<a, b, c>> /\ <<a, b, c>> \o <<>> = <<a, b, c>>
  <2>1. <<a, b, c>> \in Seq({a, b, c})
    OBVIOUS
  <2>2. <<a>> \o <<b, c>> = <<a, b, c>>
    <3>1. /\ <<a>> \in Seq({a, b, c}) /\ Len(<<a>>) = 1
          /\ <<b, c>> \in Seq({a, b, c}) /\ Len(<<b, c>>) = 2
          /\ <<a, b, c>> \in Seq({a, b, c}) /\ Len(<<a, b, c>>) = Len(<<a>>) + Len(<<b, c>>)
      OBVIOUS
    <3>2. \A i \in 1 .. Len(<<a>>) : <<a, b, c>>[i] = <<a>>[i]
      BY <3>1
    <3>3. \A i \in 1 .. Len(<<b, c>>) : <<a, b, c>>[Len(<<a>>) + i] = <<b, c>>[i]
      BY <3>1
    <3>. QED
      BY <3>1, <3>2, <3>3, ConcatIs
  <2>3. <<a, b>> \o <<c>> = <<a, b, c>>
    <3>1. /\ <<a, b>> \in Seq({a, b, c}) /\ Len(<<a, b>>) = 2
          /\ <<c>> \in Seq({a, b, c}) /\ Len(<<c>>) = 1
          /\ <<a, b, c>> \in Seq({a, b, c}) /\ Len(<<a, b, c>>) = Len(<<a, b>>) + Len(<<c>>)
      OBVIOUS
    <3>2. \A i \in 1 .. Len(<<a, b>>) : <<a, b, c>>[i] = <<a, b>>[i]
      BY <3>1
    <3>3. \A i \in 1 .. Len(<<c>>) : <<a, b, c>>[Len(<<a, b>>) + i] = <<c>>[i]
      BY <3>1
    <3>. QED
      BY <3>1, <3>2, <3>3, ConcatIs
  <2>. QED
    BY <2>1, <2>2, <2>3, ConcatEmptySeq
<1>9. ASSUME NEW a, NEW b, NEW c, NEW d
      PROVE  <<a, b>> \o <<c, d>> = <<a, b, c, d>>
  <2>1. /\ <<a, b>> \in Seq({a, b, c, d}) /\ Len(<<a, b>>) = 2
        /\ <<c, d>> \in Seq({a, b, c, d}) /\ Len(<<c, d>>) = 2
        /\ <<a, b, c, d>> \in Seq({a, b, c, d})
        /\ Len(<<a, b, c, d>>) = Len(<<a, b>>) + Len(<<c, d>>)
    OBVIOUS
  <2>2. \A i \in 1 .. Len(<<a, b>>) : <<a, b, c, d>>[i] = <<a, b>>[i]
    BY <2>1
  <2>3. \A i \in 1 .. Len(<<c, d>>) : <<a, b, c, d>>[Len(<<a, b>>) + i] = <<c, d>>[i]
    BY <2>1
  <2>. QED
    BY <2>1, <2>2, <2>3, ConcatIs
<1>. QED
  BY <1>1, <1>2, <1>3, <1>4, <1>5, <1>6, <1>7, <1>8, <1>9

\* The same for the plans that there are.
LEMMA Tails ==
    /\ Tail(<<"UnlockRecv">>) = <<>>
    /\ Tail(<<"UnlockRecv", "Disconnect">>) = <<"Disconnect">>
    /\ Tail(<<"UnlockRecv", "PostRecv">>) = <<"PostRecv">>
    /\ Tail(<<"UnlockRecv", "PostProcess", "PostRecv">>) = <<"PostProcess", "PostRecv">>
    /\ Tail(<<"Disconnect">>) = <<>>
    /\ Tail(<<"Disconnect", "PostRecv">>) = <<"PostRecv">>
    /\ Tail(<<"Disconnect", "PostProcess">>) = <<"PostProcess">>
    /\ Tail(<<"Disconnect", "PostProcess", "PostRecv">>) = <<"PostProcess", "PostRecv">>
    /\ Tail(<<"Disconnect", "UnlockRecv", "PostRecv">>) = <<"UnlockRecv", "PostRecv">>
    /\ Tail(<<"Disconnect", "UnlockRecv", "PostProcess", "PostRecv">>) = <<"UnlockRecv", "PostProcess", "PostRecv">>
    /\ Tail(<<"PostProcess">>) = <<>>
    /\ Tail(<<"PostProcess", "PostRecv">>) = <<"PostRecv">>
    /\ Tail(<<"TryProc">>) = <<>>
    /\ Tail(<<"TryProc", "PostRecv">>) = <<"PostRecv">>
    /\ Tail(<<"PostProcessLocked">>) = <<>>
    /\ Tail(<<"PostProcessLocked", "PostRecv">>) = <<"PostRecv">>
    /\ Tail(<<"UnlockProc", "PostProcess">>) = <<"PostProcess">>
    /\ Tail(<<"UnlockProc", "Disconnect", "PostProcess">>) = <<"Disconnect", "PostProcess">>
    /\ <<"TryProc">> \o <<>> = <<"TryProc">> /\ <<"TryProc">> \o <<"PostRecv">> = <<"TryProc", "PostRecv">>
    /\ <<"PostProcessLocked">> \o <<>> = <<"PostProcessLocked">> /\ <<"PostProcessLocked">> \o <<"PostRecv">> = <<"PostProcessLocked", "PostRecv">>
BY Joins

\* The kinds of plans exclude one another.
LEMMA KindsDiffer ==
    /\ Quiet \cap RecvHeld = {} /\ Quiet \cap ProcHeld = {} /\ Quiet \cap Taking = {}
    /\ RecvHeld \cap ProcHeld = {} /\ RecvHeld \cap Taking = {} /\ ProcHeld \cap Taking = {}
    /\ GapPlans \subseteq RecvHeld
BY DEF Quiet, GapPlans, RecvHeld, ProcHeld, Taking

\* With a plan a thread may have what remains of it.
LEMMA Remains ==
    ASSUME NEW t, NEW S, S = PlansOf(t)
    PROVE  /\ /\ <<"UnlockRecv">> \in S => <<>> \in S
              /\ <<"UnlockRecv", "Disconnect">> \in S => <<"Disconnect">> \in S
              /\ <<"UnlockRecv", "PostRecv">> \in S => <<"PostRecv">> \in S
              /\ <<"UnlockRecv", "PostProcess", "PostRecv">> \in S => <<"PostProcess", "PostRecv">> \in S
           /\ /\ <<"Disconnect">> \in S => <<>> \in S
              /\ <<"Disconnect", "PostRecv">> \in S => <<"PostRecv">> \in S
              /\ <<"Disconnect", "PostProcess">> \in S => <<"PostProcess">> \in S
              /\ <<"Disconnect", "PostProcess", "PostRecv">> \in S => <<"PostProcess", "PostRecv">> \in S
              /\ <<"Disconnect", "UnlockRecv", "PostRecv">> \in S => <<"UnlockRecv", "PostRecv">> \in S
              /\ <<"Disconnect", "UnlockRecv", "PostProcess", "PostRecv">> \in S => <<"UnlockRecv", "PostProcess", "PostRecv">> \in S
           /\ /\ <<"PostProcess">> \in S => <<>> \in S /\ <<"TryProc">> \in S
              /\ <<"PostProcess", "PostRecv">> \in S => <<"PostRecv">> \in S /\ <<"TryProc", "PostRecv">> \in S
           /\ /\ <<"TryProc">> \in S => <<>> \in S /\ <<"PostProcessLocked">> \in S
              /\ <<"TryProc", "PostRecv">> \in S => <<"PostRecv">> \in S /\ <<"PostProcessLocked", "PostRecv">> \in S
           /\ /\ <<"PostProcessLocked">> \in S => <<>> \in S
              /\ <<"PostProcessLocked", "PostRecv">> \in S => <<"PostRecv">> \in S
           /\ /\ <<"UnlockProc", "PostProcess">> \in S => <<"PostProcess">> \in S
              /\ <<"UnlockProc", "Disconnect", "PostProcess">> \in S => <<"Disconnect", "PostProcess">> \in S
<1>0. S \in {RecvPlans, AppPlans, AppPlans \cup Taking, OwnIoPlans, UserIoPlans, OwnProcPlans, {<<>>}}
  BY DEF PlansOf
<1>1. /\ <<"UnlockRecv">> \in S => <<>> \in S
      /\ <<"UnlockRecv", "Disconnect">> \in S => <<"Disconnect">> \in S
      /\ <<"UnlockRecv", "PostRecv">> \in S => <<"PostRecv">> \in S
      /\ <<"UnlockRecv", "PostProcess", "PostRecv">> \in S => <<"PostProcess", "PostRecv">> \in S
  BY <1>0 DEF RecvPlans, OwnIoPlans, UserIoPlans, OwnProcPlans, AppPlans, GapPlans, Taking
<1>2. /\ <<"Disconnect">> \in S => <<>> \in S
      /\ <<"Disconnect", "PostRecv">> \in S => <<"PostRecv">> \in S
      /\ <<"Disconnect", "PostProcess">> \in S => <<"PostProcess">> \in S
      /\ <<"Disconnect", "PostProcess", "PostRecv">> \in S => <<"PostProcess", "PostRecv">> \in S
      /\ <<"Disconnect", "UnlockRecv", "PostRecv">> \in S => <<"UnlockRecv", "PostRecv">> \in S
      /\ <<"Disconnect", "UnlockRecv", "PostProcess", "PostRecv">> \in S => <<"UnlockRecv", "PostProcess", "PostRecv">> \in S
  BY <1>0 DEF RecvPlans, OwnIoPlans, UserIoPlans, OwnProcPlans, AppPlans, GapPlans, Taking
<1>3. /\ <<"PostProcess">> \in S => <<>> \in S /\ <<"TryProc">> \in S
      /\ <<"PostProcess", "PostRecv">> \in S => <<"PostRecv">> \in S /\ <<"TryProc", "PostRecv">> \in S
  BY <1>0 DEF RecvPlans, OwnIoPlans, UserIoPlans, OwnProcPlans, AppPlans, GapPlans, Taking
<1>4. /\ <<"TryProc">> \in S => <<>> \in S /\ <<"PostProcessLocked">> \in S
      /\ <<"TryProc", "PostRecv">> \in S => <<"PostRecv">> \in S /\ <<"PostProcessLocked", "PostRecv">> \in S
  BY <1>0 DEF RecvPlans, OwnIoPlans, UserIoPlans, OwnProcPlans, AppPlans, GapPlans, Taking
<1>5. /\ <<"PostProcessLocked">> \in S => <<>> \in S
      /\ <<"PostProcessLocked", "PostRecv">> \in S => <<"PostRecv">> \in S
  BY <1>0 DEF RecvPlans, OwnIoPlans, UserIoPlans, OwnProcPlans, AppPlans, GapPlans, Taking
<1>6. /\ <<"UnlockProc", "PostProcess">> \in S => <<"PostProcess">> \in S
      /\ <<"UnlockProc", "Disconnect", "PostProcess">> \in S => <<"Disconnect", "PostProcess">> \in S
  BY <1>0 DEF RecvPlans, OwnIoPlans, UserIoPlans, OwnProcPlans, AppPlans, GapPlans, Taking
<1>. QED
  BY <1>1, <1>2, <1>3, <1>4, <1>5, <1>6

\* The first step of a plan tells the plan, or what kind of plan it is, and what
\* remains of it is again a plan of the thread.
LEMMA Plans ==
    ASSUME Planned, NEW t \in Threads
    PROVE  /\ Idle(t) <=> todo[t] = <<>>
           /\ At(t, "PostRecv") => todo[t] = <<"PostRecv">> /\ RecvPlans \subseteq PlansOf(t)
           /\ At(t, "PostRecvLocked") =>
                  todo[t] = <<"PostRecvLocked">> /\ RecvPlans \subseteq PlansOf(t)
           /\ At(t, "UnlockRecv") =>
                  todo[t] \in RecvHeld \ GapPlans /\ Tail(todo[t]) \in Quiet \cap PlansOf(t)
           /\ At(t, "Disconnect") =>
                  /\ Tail(todo[t]) \in PlansOf(t)
                  /\ \/ todo[t] \in GapPlans /\ Tail(todo[t]) \in RecvHeld \ GapPlans
                     \/ todo[t] \in Quiet /\ Tail(todo[t]) \in Quiet
           /\ At(t, "PostProcess") =>
                  /\ todo[t] \in Quiet /\ Tail(todo[t]) \in Quiet \cap PlansOf(t)
                  /\ <<"TryProc">> \o Tail(todo[t]) \in Quiet \cap PlansOf(t)
           /\ At(t, "TryProc") =>
                  /\ todo[t] \in Quiet /\ Tail(todo[t]) \in Quiet \cap PlansOf(t)
                  /\ <<"PostProcessLocked">> \o Tail(todo[t]) \in ProcHeld \cap PlansOf(t)
           /\ At(t, "PostProcessLocked") =>
                  todo[t] \in ProcHeld /\ ownMode /\ Tail(todo[t]) \in Quiet \cap PlansOf(t)
           /\ At(t, "UnlockProc") =>
                  todo[t] \in ProcHeld /\ Tail(todo[t]) \in Quiet \cap PlansOf(t)
           /\ At(t, "Unmarshall") <=> todo[t] = <<"Unmarshall">>
           /\ At(t, "Dispatch") <=> todo[t] = <<"Dispatch">>
<1>0. /\ todo[t] \in PlansOf(t) /\ todo[t] \in Quiet \cup RecvHeld \cup ProcHeld \cup Taking
  BY DEF Planned
<1>1. Idle(t) <=> todo[t] = <<>>
  BY DEF Idle
<1>2. ASSUME At(t, "PostRecv")
      PROVE  todo[t] = <<"PostRecv">> /\ RecvPlans \subseteq PlansOf(t)
  <2>1. todo[t] = <<"PostRecv">>
    BY <1>0, <1>2, Joins DEF At, Idle, Quiet, RecvHeld, GapPlans, ProcHeld, Taking
  <2>. QED
    BY <1>0, <2>1 DEF PlansOf, RecvPlans, OwnIoPlans, UserIoPlans, OwnProcPlans, AppPlans, Taking
<1>3. ASSUME At(t, "PostRecvLocked")
      PROVE  todo[t] = <<"PostRecvLocked">> /\ RecvPlans \subseteq PlansOf(t)
  <2>1. todo[t] = <<"PostRecvLocked">>
    BY <1>0, <1>3, Joins DEF At, Idle, Quiet, RecvHeld, GapPlans, ProcHeld, Taking
  <2>. QED
    BY <1>0, <2>1 DEF PlansOf, RecvPlans, OwnIoPlans, UserIoPlans, OwnProcPlans, AppPlans, Taking
<1>4. ASSUME At(t, "UnlockRecv")
      PROVE  todo[t] \in RecvHeld \ GapPlans /\ Tail(todo[t]) \in Quiet \cap PlansOf(t)
  <2>1. todo[t] \in {<<"UnlockRecv">>, <<"UnlockRecv", "Disconnect">>, <<"UnlockRecv", "PostRecv">>,
                     <<"UnlockRecv", "PostProcess", "PostRecv">>}
    BY <1>0, <1>4, Joins DEF At, Idle, Quiet, RecvHeld, GapPlans, ProcHeld, Taking
  <2>2. Tail(todo[t]) \in Quiet
    BY <2>1, Tails DEF Quiet
  <2>3. todo[t] \in RecvHeld \ GapPlans
    BY <2>1 DEF RecvHeld, GapPlans
  <2>4. Tail(todo[t]) \in PlansOf(t)
    BY <1>0, <2>1, Tails, Remains
  <2>. QED
    BY <2>2, <2>3, <2>4

<1>5. ASSUME At(t, "Disconnect")
      PROVE  /\ Tail(todo[t]) \in PlansOf(t)
             /\ \/ todo[t] \in GapPlans /\ Tail(todo[t]) \in RecvHeld \ GapPlans
                \/ todo[t] \in Quiet /\ Tail(todo[t]) \in Quiet
  <2>1. todo[t] \in GapPlans \cup
            {<<"Disconnect">>, <<"Disconnect", "PostRecv">>, <<"Disconnect", "PostProcess">>,
             <<"Disconnect", "PostProcess", "PostRecv">>}
    BY <1>0, <1>5, Joins DEF At, Idle, Quiet, RecvHeld, GapPlans, ProcHeld, Taking
  <2>2. Tail(todo[t]) \in PlansOf(t)
    BY <1>0, <2>1, Tails, Remains DEF GapPlans
  <2>3. CASE todo[t] \in GapPlans
    <3>1. Tail(todo[t]) \in {<<"UnlockRecv", "PostRecv">>, <<"UnlockRecv", "PostProcess", "PostRecv">>}
      BY <2>3, Tails DEF GapPlans
    <3>. QED
      BY <2>2, <2>3, <3>1 DEF RecvHeld, GapPlans
  <2>4. CASE todo[t] \notin GapPlans
    <3>0. todo[t] \in {<<"Disconnect">>, <<"Disconnect", "PostRecv">>, <<"Disconnect", "PostProcess">>,
                       <<"Disconnect", "PostProcess", "PostRecv">>}
      BY <2>1, <2>4
    <3>1. /\ todo[t] \in Quiet
          /\ Tail(todo[t]) \in {<<>>, <<"PostRecv">>, <<"PostProcess">>, <<"PostProcess", "PostRecv">>}
      BY <3>0, Tails DEF Quiet
    <3>. QED
      BY <2>2, <3>1 DEF Quiet
  <2>. QED
    BY <2>3, <2>4
<1>6. ASSUME At(t, "PostProcess")
      PROVE  /\ todo[t] \in Quiet /\ Tail(todo[t]) \in Quiet \cap PlansOf(t)
             /\ <<"TryProc">> \o Tail(todo[t]) \in Quiet \cap PlansOf(t)
  <2>1. todo[t] \in {<<"PostProcess">>, <<"PostProcess", "PostRecv">>}
    BY <1>0, <1>6, Joins DEF At, Idle, Quiet, RecvHeld, GapPlans, ProcHeld, Taking
  <2>2. Tail(todo[t]) \in {<<>>, <<"PostRecv">>} /\ todo[t] \in Quiet
    BY <2>1, Tails DEF Quiet
  <2>3. /\ Tail(todo[t]) \in PlansOf(t)
        /\ <<"TryProc">> \o Tail(todo[t]) \in PlansOf(t)
    BY <1>0, <2>1, Tails, Remains
  <2>4. <<"TryProc">> \o Tail(todo[t]) \in Quiet
    BY <2>2, Tails DEF Quiet
  <2>. QED
    BY <2>2, <2>3, <2>4 DEF Quiet
<1>7. ASSUME At(t, "TryProc")
      PROVE  /\ todo[t] \in Quiet /\ Tail(todo[t]) \in Quiet \cap PlansOf(t)
             /\ <<"PostProcessLocked">> \o Tail(todo[t]) \in ProcHeld \cap PlansOf(t)
  <2>1. todo[t] \in {<<"TryProc">>, <<"TryProc", "PostRecv">>}
    BY <1>0, <1>7, Joins DEF At, Idle, Quiet, RecvHeld, GapPlans, ProcHeld, Taking
  <2>2. Tail(todo[t]) \in {<<>>, <<"PostRecv">>} /\ todo[t] \in Quiet
    BY <2>1, Tails DEF Quiet
  <2>3. /\ Tail(todo[t]) \in PlansOf(t)
        /\ <<"PostProcessLocked">> \o Tail(todo[t]) \in PlansOf(t)
    BY <1>0, <2>1, Tails, Remains
  <2>4. <<"PostProcessLocked">> \o Tail(todo[t]) \in ProcHeld
    BY <2>2, Tails DEF ProcHeld
  <2>. QED
    BY <2>2, <2>3, <2>4 DEF Quiet
<1>8. ASSUME At(t, "PostProcessLocked")
      PROVE  todo[t] \in ProcHeld /\ ownMode /\ Tail(todo[t]) \in Quiet \cap PlansOf(t)
  <2>1. todo[t] \in {<<"PostProcessLocked">>, <<"PostProcessLocked", "PostRecv">>}
    BY <1>0, <1>8, Joins DEF At, Idle, Quiet, RecvHeld, GapPlans, ProcHeld, Taking
  <2>2. Tail(todo[t]) \in {<<>>, <<"PostRecv">>} /\ todo[t] \in ProcHeld
    BY <2>1, Tails DEF ProcHeld
  <2>3. Tail(todo[t]) \in PlansOf(t)
    BY <1>0, <2>1, Tails, Remains
  <2>4. ownMode
    BY <1>0, <2>1
    DEF PlansOf, RecvPlans, UserIoPlans, AppPlans, Taking
  <2>. QED
    BY <2>2, <2>3, <2>4 DEF Quiet
<1>9. ASSUME At(t, "UnlockProc")
      PROVE  todo[t] \in ProcHeld /\ Tail(todo[t]) \in Quiet \cap PlansOf(t)
  <2>1. todo[t] \in {<<"UnlockProc", "PostProcess">>, <<"UnlockProc", "Disconnect", "PostProcess">>}
    BY <1>0, <1>9, Joins DEF At, Idle, Quiet, RecvHeld, GapPlans, ProcHeld, Taking
  <2>2. /\ Tail(todo[t]) \in {<<"PostProcess">>, <<"Disconnect", "PostProcess">>}
        /\ todo[t] \in ProcHeld
    BY <2>1, Tails DEF ProcHeld
  <2>3. Tail(todo[t]) \in PlansOf(t)
    BY <1>0, <2>1, Tails, Remains
  <2>. QED
    BY <2>2, <2>3 DEF Quiet
<1>10. /\ At(t, "Unmarshall") <=> todo[t] = <<"Unmarshall">>
       /\ At(t, "Dispatch") <=> todo[t] = <<"Dispatch">>
  BY <1>0, Joins DEF At, Idle, Quiet, RecvHeld, GapPlans, ProcHeld, Taking
<1>. QED
  BY <1>1, <1>2, <1>3, <1>4, <1>5, <1>6, <1>7, <1>8, <1>9, <1>10

\* Every plan is of one of the kinds.
LEMMA PlansHaveKinds ==
    ASSUME NEW t
    PROVE  PlansOf(t) \subseteq Quiet \cup RecvHeld \cup ProcHeld \cup Taking
<1>1. RecvPlans \subseteq Quiet \cup RecvHeld
  BY DEF RecvPlans, Quiet, RecvHeld
<1>2. UserIoPlans \subseteq Quiet \cup RecvHeld
  BY <1>1 DEF UserIoPlans, Quiet, RecvHeld, GapPlans
<1>3. OwnIoPlans \subseteq Quiet \cup RecvHeld \cup ProcHeld
  BY <1>1 DEF OwnIoPlans, Quiet, RecvHeld, ProcHeld
<1>4. OwnProcPlans \subseteq Quiet \cup ProcHeld \cup Taking
  BY DEF OwnProcPlans, Quiet, ProcHeld
<1>5. AppPlans \subseteq Quiet /\ {<<>>} \subseteq Quiet
  BY DEF AppPlans, Quiet
<1>. QED
  BY <1>1, <1>2, <1>3, <1>4, <1>5 DEF PlansOf

\* A step of one thread leaves everybody with a plan of his own.
LEMMA PlanMoves ==
    ASSUME Planned, NEW t \in Threads, NEW k \in PlansOf(t), Goto(t, k), ownMode' = ownMode,
           ~ownMode => procQ' = 0
    PROVE  /\ Planned'
           /\ todo'[t] = k
           /\ \A u \in Threads : u # t => todo'[u] = todo[u]
<1>1. /\ todo' \in [Threads -> Quiet \cup RecvHeld \cup ProcHeld \cup Taking]
      /\ todo'[t] = k /\ \A u \in Threads : u # t => todo'[u] = todo[u]
  BY PlansHaveKinds DEF Planned, Goto
<1>2. \A u : PlansOf(u)' = PlansOf(u)
  BY DEF PlansOf
<1>3. ASSUME NEW u \in Threads PROVE todo'[u] \in PlansOf(u)'
  BY <1>1, <1>2 DEF Planned
<1>. QED
  BY <1>1, <1>3 DEF Planned

\* After its packets a process thread unlocks m_ProcPending, and the application
\* is done.
LEMMA PlansAfterPackets ==
    ASSUME NEW t \in Threads, NEW d \in {<<>>, <<"Disconnect">>},
           PlansOf(t) \cap Taking # {}
    PROVE  /\ AfterPackets(t, d) \in PlansOf(t) /\ Taking \subseteq PlansOf(t)
           /\ AfterPackets(t, d) \in IF t \in ProcThreads THEN ProcHeld ELSE Quiet
           /\ t \in ProcThreads <=> ownMode
           /\ t \notin ProcThreads => t = App
<1>1. /\ <<"UnlockProc">> \o <<>> \o <<"PostProcess">> = <<"UnlockProc", "PostProcess">>
      /\ <<"UnlockProc">> \o <<"Disconnect">> \o <<"PostProcess">>
             = <<"UnlockProc", "Disconnect", "PostProcess">>
  <2>1. <<"UnlockProc">> \o <<>> = <<"UnlockProc">>
    BY Joins
  <2>2. <<"UnlockProc">> \o <<"PostProcess">> = <<"UnlockProc", "PostProcess">>
    BY Joins
  <2>3. <<"UnlockProc">> \o <<"Disconnect">> = <<"UnlockProc", "Disconnect">>
    BY Joins
  <2>4. <<"UnlockProc", "Disconnect">> \o <<"PostProcess">>
            = <<"UnlockProc", "Disconnect", "PostProcess">>
    BY Joins
  <2>. QED
    BY <2>1, <2>2, <2>3, <2>4
<1>2. /\ <<"Unmarshall">> \notin RecvPlans /\ <<"Dispatch">> \notin RecvPlans
      /\ <<"Unmarshall">> \notin OwnIoPlans /\ <<"Dispatch">> \notin OwnIoPlans
      /\ <<"Unmarshall">> \notin UserIoPlans /\ <<"Dispatch">> \notin UserIoPlans
      /\ <<"Unmarshall">> \notin AppPlans /\ <<"Dispatch">> \notin AppPlans
      /\ <<"Unmarshall">> \notin {<<>>} /\ <<"Dispatch">> \notin {<<>>}
  BY DEF RecvPlans, OwnIoPlans, UserIoPlans, AppPlans, GapPlans
<1>3. CASE t = App /\ ~ownMode
  <2>1. PlansOf(t) = AppPlans \cup Taking /\ t \notin ProcThreads
    BY <1>3, RecvPathAssumption DEF PlansOf
  <2>2. AfterPackets(t, d) = d
    BY <2>1 DEF AfterPackets
  <2>. QED
    BY <1>3, <2>1, <2>2 DEF AppPlans, Quiet
<1>4. CASE t \in ProcThreads /\ ownMode
  <2>1. PlansOf(t) = OwnProcPlans
    BY <1>4, RecvPathAssumption DEF PlansOf
  <2>2. AfterPackets(t, d) \in {<<"UnlockProc", "PostProcess">>,
                                <<"UnlockProc", "Disconnect", "PostProcess">>}
    BY <1>1, <1>4 DEF AfterPackets
  <2>. QED
    BY <1>4, <2>1, <2>2 DEF OwnProcPlans, ProcHeld
<1>5. CASE ~(t = App /\ ~ownMode) /\ ~(t \in ProcThreads /\ ownMode)
  <2>1. PlansOf(t) \in {RecvPlans, OwnIoPlans, UserIoPlans, AppPlans, {<<>>}}
    BY <1>5 DEF PlansOf, Threads
  <2>. QED
    BY <1>2, <2>1 DEF Taking
<1>. QED
  BY <1>3, <1>4, <1>5


\* Plans are sequences of steps.
LEMMA PlansAreSteps == Quiet \cup RecvHeld \cup ProcHeld \cup Taking \subseteq Seq(Ops)
<1>1. \A x, y, z, w \in Ops :
          /\ <<>> \in Seq(Ops) /\ <<x>> \in Seq(Ops) /\ <<x, y>> \in Seq(Ops)
          /\ <<x, y, z>> \in Seq(Ops) /\ <<x, y, z, w>> \in Seq(Ops)
  OBVIOUS
<1>2. /\ "PostRecv" \in Ops /\ "PostRecvLocked" \in Ops /\ "UnlockRecv" \in Ops
      /\ "Disconnect" \in Ops /\ "PostProcess" \in Ops /\ "TryProc" \in Ops
      /\ "PostProcessLocked" \in Ops /\ "Unmarshall" \in Ops /\ "Dispatch" \in Ops
      /\ "UnlockProc" \in Ops
  BY DEF Ops
<1>3. Quiet \subseteq Seq(Ops)
  BY <1>1, <1>2 DEF Quiet
<1>4. RecvHeld \subseteq Seq(Ops)
  BY <1>1, <1>2 DEF RecvHeld, GapPlans
<1>5. ProcHeld \subseteq Seq(Ops)
  BY <1>1, <1>2 DEF ProcHeld
<1>6. Taking \subseteq Seq(Ops)
  BY <1>1, <1>2 DEF Taking
<1>. QED
  BY <1>3, <1>4, <1>5, <1>6

\* What is left to do after the steps of Run.
LEMMA NextPlan ==
    ASSUME Planned, NEW t \in Threads
    PROVE  /\ PostRecv(t) =>
                  \E k \in PlansOf(t) :
                      /\ Goto(t, k) /\ todo[t] \in Quiet
                      /\ IF recvPending THEN k \in Quiet ELSE k = <<"PostRecvLocked">>
           /\ PostRecvLocked(t) =>
                  \E k \in PlansOf(t) :
                      /\ Goto(t, k) /\ todo[t] = <<"PostRecvLocked">>
                      /\ \/ k \in RecvHeld \ GapPlans /\ UNCHANGED posted
                         \/ k \in Quiet /\ connected /\ posted' = posted + 1
           /\ UnlockRecv(t) =>
                  \E k \in PlansOf(t) \cap Quiet : Goto(t, k) /\ todo[t] \in RecvHeld \ GapPlans
           /\ Disconnect(t) =>
                  \E k \in PlansOf(t) :
                      /\ Goto(t, k)
                      /\ \/ todo[t] \in GapPlans /\ k \in RecvHeld \ GapPlans
                         \/ todo[t] \in Quiet /\ k \in Quiet
           /\ PostProcess(t) =>
                  \E k \in PlansOf(t) \cap Quiet : Goto(t, k) /\ todo[t] \in Quiet
           /\ TryProc(t) =>
                  \E k \in PlansOf(t) :
                      /\ Goto(t, k) /\ todo[t] \in Quiet
                      /\ IF procPending THEN k \in Quiet ELSE k \in ProcHeld
           /\ PostProcessLocked(t) =>
                  \E k \in PlansOf(t) \cap Quiet : Goto(t, k) /\ todo[t] \in ProcHeld /\ ownMode
           /\ UnlockProc(t) =>
                  \E k \in PlansOf(t) \cap Quiet : Goto(t, k) /\ todo[t] \in ProcHeld
<1>0. ASSUME ~Idle(t) PROVE <<>> \o Tail(todo[t]) = Tail(todo[t])
  <2>1. todo[t] \in Seq(Ops) /\ todo[t] # <<>>
    BY <1>0, PlansAreSteps DEF Planned, Idle
  <2>2. Tail(todo[t]) \in Seq(Ops)
    BY <2>1, HeadTailProperties
  <2>. QED
    BY <2>2, ConcatEmptySeq
<1>1. /\ <<"PostRecv">> \in Quiet /\ <<>> \in Quiet /\ <<"Disconnect">> \in Quiet
      /\ <<"UnlockRecv">> \in RecvHeld \ GapPlans
      /\ <<"UnlockRecv", "Disconnect">> \in RecvHeld \ GapPlans
      /\ <<>> \in RecvPlans /\ <<"PostRecvLocked">> \in RecvPlans /\ <<"UnlockRecv">> \in RecvPlans
      /\ <<"UnlockRecv", "Disconnect">> \in RecvPlans
  BY DEF Quiet, RecvHeld, GapPlans, RecvPlans
<1>2. ASSUME PostRecv(t)
      PROVE  \E k \in PlansOf(t) :
                 /\ Goto(t, k) /\ todo[t] \in Quiet
                 /\ IF recvPending THEN k \in Quiet ELSE k = <<"PostRecvLocked">>
  <2>1. /\ todo[t] = <<"PostRecv">> /\ RecvPlans \subseteq PlansOf(t)
        /\ Continue(t, IF recvPending THEN <<>> ELSE <<"PostRecvLocked">>)
    BY <1>2, Plans DEF PostRecv
  <2>2. Goto(t, IF recvPending THEN <<>> ELSE <<"PostRecvLocked">>)
    BY <2>1, Joins DEF Continue
  <2>. QED
    BY <1>1, <2>1, <2>2
<1>3. ASSUME PostRecvLocked(t)
      PROVE  \E k \in PlansOf(t) :
                 /\ Goto(t, k) /\ todo[t] = <<"PostRecvLocked">>
                 /\ \/ k \in RecvHeld \ GapPlans /\ UNCHANGED posted
                    \/ k \in Quiet /\ connected /\ posted' = posted + 1
  <2>1. /\ todo[t] = <<"PostRecvLocked">> /\ RecvPlans \subseteq PlansOf(t)
        /\ \/ Continue(t, <<"UnlockRecv">>) /\ UNCHANGED posted
           \/ connected /\ posted' = posted + 1 /\ Continue(t, <<>>)
           \/ Continue(t, <<"UnlockRecv", "Disconnect">>) /\ UNCHANGED posted
    BY <1>3, Plans DEF PostRecvLocked
  <2>2. \A k \in RecvPlans : Continue(t, k) => Goto(t, k)
    <3>1. \A k \in RecvPlans : k \o Tail(todo[t]) = k
      BY <2>1, Joins DEF RecvPlans
    <3>. QED
      BY <3>1 DEF Continue
  <2>. QED
    BY <1>1, <2>1, <2>2
<1>4. ASSUME UnlockRecv(t)
      PROVE  \E k \in PlansOf(t) \cap Quiet : Goto(t, k) /\ todo[t] \in RecvHeld \ GapPlans
  BY <1>0, <1>4, Plans DEF UnlockRecv, At, Continue
<1>5. ASSUME Disconnect(t)
      PROVE  \E k \in PlansOf(t) :
                 /\ Goto(t, k)
                 /\ \/ todo[t] \in GapPlans /\ k \in RecvHeld \ GapPlans
                    \/ todo[t] \in Quiet /\ k \in Quiet
  BY <1>0, <1>5, Plans DEF Disconnect, At, Continue
<1>6. ASSUME PostProcess(t)
      PROVE  \E k \in PlansOf(t) \cap Quiet : Goto(t, k) /\ todo[t] \in Quiet
  <2>1. Continue(t, <<"TryProc">>) \/ Continue(t, <<>>)
    BY <1>6 DEF PostProcess
  <2>. QED
    BY <1>0, <1>6, <2>1, Plans DEF PostProcess, At, Continue
<1>7. ASSUME TryProc(t)
      PROVE  \E k \in PlansOf(t) :
                 /\ Goto(t, k) /\ todo[t] \in Quiet
                 /\ IF procPending THEN k \in Quiet ELSE k \in ProcHeld
  <2>1. Continue(t, IF procPending THEN <<>> ELSE <<"PostProcessLocked">>)
    BY <1>7 DEF TryProc
  <2>. QED
    BY <1>0, <1>7, <2>1, Plans DEF TryProc, At, Continue
<1>8. ASSUME PostProcessLocked(t)
      PROVE  \E k \in PlansOf(t) \cap Quiet : Goto(t, k) /\ todo[t] \in ProcHeld /\ ownMode
  BY <1>0, <1>8, Plans DEF PostProcessLocked, At, Continue
<1>9. ASSUME UnlockProc(t)
      PROVE  \E k \in PlansOf(t) \cap Quiet : Goto(t, k) /\ todo[t] \in ProcHeld
  BY <1>0, <1>9, Plans DEF UnlockProc, At, Continue
<1>. QED
  BY <1>2, <1>3, <1>4, <1>5, <1>6, <1>7, <1>8, <1>9

\* What is left to do after the steps on packets.
LEMMA NextPacketPlan ==
    ASSUME Planned, NEW t \in Threads
    PROVE  /\ Unmarshall(t) =>
                  /\ todo[t] = <<"Unmarshall">> /\ PlansOf(t) \cap Taking # {}
                  /\ \/ /\ IsCompletedPacket /\ Goto(t, <<"Dispatch">>)
                        /\ packet' = [packet EXCEPT ![t] = Get(ring, PacketSize)]
                        /\ ring' = Pop(ring, PacketSize)
                     \/ /\ Goto(t, AfterPackets(t, <<>>))
                        /\ UNCHANGED <<packet, ring>>
           /\ Dispatch(t) =>
                  /\ todo[t] = <<"Dispatch">> /\ PlansOf(t) \cap Taking # {}
                  /\ \/ Goto(t, <<"Unmarshall">>)
                     \/ Goto(t, AfterPackets(t, <<"Disconnect">>))
<1>1. \A k \in {<<"Dispatch">>, <<"Unmarshall">>, AfterPackets(t, <<>>), AfterPackets(t, <<"Disconnect">>)} :
          k \o <<>> = k
  <2>1. \A d \in {<<>>, <<"Disconnect">>} : AfterPackets(t, d) \in Seq(Ops)
    <3>1. <<"UnlockProc">> \in Seq(Ops) /\ <<"PostProcess">> \in Seq(Ops) /\ <<>> \in Seq(Ops)
          /\ <<"Disconnect">> \in Seq(Ops)
      BY DEF Ops
    <3>2. \A d \in {<<>>, <<"Disconnect">>} : <<"UnlockProc">> \o d \o <<"PostProcess">> \in Seq(Ops)
      BY <3>1, ConcatProperties
    <3>. QED
      BY <3>1, <3>2 DEF AfterPackets
  <2>2. <<"Dispatch">> \in Seq(Ops) /\ <<"Unmarshall">> \in Seq(Ops)
    BY DEF Ops
  <2>. QED
    BY <2>1, <2>2, ConcatEmptySeq
<1>2. ASSUME todo[t] \in Taking PROVE Tail(todo[t]) = <<>> /\ PlansOf(t) \cap Taking # {}
  <2>1. Tail(todo[t]) = <<>>
    BY <1>2, Joins DEF Taking
  <2>. QED
    BY <1>2, <2>1 DEF Planned
<1>3. ASSUME Unmarshall(t)
      PROVE  /\ todo[t] = <<"Unmarshall">> /\ PlansOf(t) \cap Taking # {}
             /\ \/ /\ IsCompletedPacket /\ Goto(t, <<"Dispatch">>)
                   /\ packet' = [packet EXCEPT ![t] = Get(ring, PacketSize)]
                   /\ ring' = Pop(ring, PacketSize)
                \/ /\ Goto(t, AfterPackets(t, <<>>))
                   /\ UNCHANGED <<packet, ring>>
  <2>1. todo[t] = <<"Unmarshall">>
    BY <1>3, Plans DEF Unmarshall
  <2>2. Tail(todo[t]) = <<>> /\ PlansOf(t) \cap Taking # {}
    BY <1>2, <2>1 DEF Taking
  <2>3. \/ /\ IsCompletedPacket /\ Continue(t, <<"Dispatch">>)
           /\ packet' = [packet EXCEPT ![t] = Get(ring, PacketSize)]
           /\ ring' = Pop(ring, PacketSize)
        \/ /\ Continue(t, AfterPackets(t, <<>>))
           /\ UNCHANGED <<packet, ring>>
    BY <1>3, Zenon DEF Unmarshall
  <2>. QED
    BY <1>1, <2>1, <2>2, <2>3 DEF Continue
<1>4. ASSUME Dispatch(t)
      PROVE  /\ todo[t] = <<"Dispatch">> /\ PlansOf(t) \cap Taking # {}
             /\ \/ Goto(t, <<"Unmarshall">>)
                \/ Goto(t, AfterPackets(t, <<"Disconnect">>))
  <2>1. todo[t] = <<"Dispatch">>
    BY <1>4, Plans DEF Dispatch
  <2>2. Tail(todo[t]) = <<>> /\ PlansOf(t) \cap Taking # {}
    BY <1>2, <2>1 DEF Taking
  <2>3. Continue(t, <<"Unmarshall">>) \/ Continue(t, AfterPackets(t, <<"Disconnect">>))
    BY <1>4 DEF Dispatch
  <2>. QED
    BY <1>1, <2>1, <2>2, <2>3 DEF Continue
<1>. QED
  BY <1>3, <1>4


\* What an idle thread takes up.
LEMMA FirstPlan ==
    ASSUME Planned, NEW t \in Threads
    PROVE  /\ t \in IoThreads /\ CompletedRecv(t) =>
                  /\ todo[t] = <<>> /\ completed # <<>>
                  /\ \E k \in PlansOf(t) :
                         /\ Goto(t, k)
                         /\ \/ /\ Head(completed) > 0 /\ CanPutData(ring, Head(completed))
                               /\ ring' = Put(ring, SubSeq(ioBuffer, 1, Head(completed)))
                               /\ recvPending' = FALSE /\ k \in Quiet
                            \/ /\ k \in GapPlans
                               /\ UNCHANGED <<ring, recvPending>>
                            \/ /\ Head(completed) = 0
                               /\ recvPending' = FALSE /\ k \in Quiet
                               /\ UNCHANGED ring
           /\ t \in IoThreads /\ RecvFailed(t) =>
                  todo[t] = <<>> /\ \E k \in PlansOf(t) \cap Quiet : Goto(t, k)
           /\ t \in ProcThreads /\ DequeueProcess(t) =>
                  todo[t] = <<>> /\ ownMode /\ <<"Unmarshall">> \in PlansOf(t) /\ Goto(t, <<"Unmarshall">>)
           /\ AppCall("Disconnect") =>
                  todo[App] = <<>> /\ \E k \in PlansOf(App) \cap Quiet : Goto(App, k)
           /\ ~ownMode /\ AppCall("Unmarshall") =>
                  todo[App] = <<>> /\ <<"Unmarshall">> \in PlansOf(App) /\ Goto(App, <<"Unmarshall">>)
<1>1. ASSUME t \in IoThreads
      PROVE  /\ <<"Disconnect">> \in PlansOf(t) \cap Quiet
             /\ AfterRecv \in PlansOf(t) \cap Quiet
             /\ <<"Disconnect">> \o AfterRecv \in PlansOf(t) \cap Quiet
             /\ <<"Disconnect", "UnlockRecv">> \o AfterRecv \in PlansOf(t) \cap GapPlans
  <2>1. PlansOf(t) = IF ownMode THEN OwnIoPlans ELSE UserIoPlans
    BY <1>1, RecvPathAssumption DEF PlansOf
  <2>2. CASE ownMode
    <3>1. AfterRecv = <<"PostProcess", "PostRecv">>
      BY <2>2, Joins DEF AfterRecv
    <3>2. /\ <<"Disconnect">> \o AfterRecv = <<"Disconnect", "PostProcess", "PostRecv">>
          /\ <<"Disconnect", "UnlockRecv">> \o AfterRecv
                 = <<"Disconnect", "UnlockRecv", "PostProcess", "PostRecv">>
      BY <3>1, Joins
    <3>. QED
      BY <2>1, <2>2, <3>1, <3>2 DEF OwnIoPlans, RecvPlans, GapPlans, Quiet
  <2>3. CASE ~ownMode
    <3>1. AfterRecv = <<"PostRecv">>
      BY <2>3, Joins DEF AfterRecv
    <3>2. /\ <<"Disconnect">> \o AfterRecv = <<"Disconnect", "PostRecv">>
          /\ <<"Disconnect", "UnlockRecv">> \o AfterRecv = <<"Disconnect", "UnlockRecv", "PostRecv">>
      BY <3>1, Joins
    <3>. QED
      BY <2>1, <2>3, <3>1, <3>2 DEF UserIoPlans, RecvPlans, GapPlans, Quiet
  <2>. QED
    BY <2>2, <2>3
<1>2. ASSUME t \in IoThreads, CompletedRecv(t)
      PROVE  /\ todo[t] = <<>> /\ completed # <<>>
             /\ \E k \in PlansOf(t) :
                    /\ Goto(t, k)
                    /\ \/ /\ Head(completed) > 0 /\ CanPutData(ring, Head(completed))
                          /\ ring' = Put(ring, SubSeq(ioBuffer, 1, Head(completed)))
                          /\ recvPending' = FALSE /\ k \in Quiet
                       \/ /\ k \in GapPlans
                          /\ UNCHANGED <<ring, recvPending>>
                       \/ /\ Head(completed) = 0
                          /\ recvPending' = FALSE /\ k \in Quiet
                          /\ UNCHANGED ring
  <2>1. PICK g \in PlansOf(t) \cap GapPlans : g = <<"Disconnect", "UnlockRecv">> \o AfterRecv
    BY <1>1, <1>2
  <2>2. PICK d \in PlansOf(t) \cap Quiet : d = <<"Disconnect">> \o AfterRecv
    BY <1>1, <1>2
  <2>3. PICK a \in PlansOf(t) \cap Quiet : a = AfterRecv
    BY <1>1, <1>2
  <2>4. <<"Disconnect", "UnlockRecv">> \o AfterRecv = <<"Disconnect", "UnlockRecv">> \o a
    BY <2>3
  <2>5. \/ /\ Head(completed) > 0 /\ CanPutData(ring, Head(completed))
           /\ ring' = Put(ring, SubSeq(ioBuffer, 1, Head(completed)))
           /\ recvPending' = FALSE
           /\ Goto(t, a)
        \/ /\ Goto(t, g)
           /\ UNCHANGED <<ring, recvPending>>
        \/ /\ Head(completed) = 0
           /\ recvPending' = FALSE
           /\ Goto(t, d)
           /\ UNCHANGED ring
    BY <1>2, <2>1, <2>2, <2>3, Zenon DEF CompletedRecv
  <2>6. todo[t] = <<>> /\ completed # <<>>
    BY <1>2 DEF CompletedRecv, Idle
  <2>. QED
    BY <2>5, <2>6
<1>3. ASSUME t \in IoThreads, RecvFailed(t)
      PROVE  todo[t] = <<>> /\ \E k \in PlansOf(t) \cap Quiet : Goto(t, k)
  BY <1>1, <1>3 DEF RecvFailed, Idle
<1>4. ASSUME t \in ProcThreads, DequeueProcess(t)
      PROVE  todo[t] = <<>> /\ ownMode /\ <<"Unmarshall">> \in PlansOf(t) /\ Goto(t, <<"Unmarshall">>)
  <2>1. ownMode /\ todo[t] = <<>> /\ Goto(t, <<"Unmarshall">>)
    BY <1>4 DEF DequeueProcess, Planned, Idle
  <2>2. PlansOf(t) = OwnProcPlans
    BY <1>4, <2>1, RecvPathAssumption DEF PlansOf
  <2>. QED
    BY <2>1, <2>2 DEF OwnProcPlans, Taking
<1>5. ASSUME AppCall("Disconnect")
      PROVE  todo[App] = <<>> /\ \E k \in PlansOf(App) \cap Quiet : Goto(App, k)
  <2>1. <<"Disconnect">> \in PlansOf(App) \cap Quiet
    BY RecvPathAssumption DEF PlansOf, AppPlans, Quiet
  <2>. QED
    BY <1>5, <2>1 DEF AppCall, Idle
<1>6. ASSUME ~ownMode, AppCall("Unmarshall")
      PROVE  todo[App] = <<>> /\ <<"Unmarshall">> \in PlansOf(App) /\ Goto(App, <<"Unmarshall">>)
  BY <1>6, RecvPathAssumption DEF PlansOf, Taking, AppCall, Idle
<1>. QED
  BY <1>2, <1>3, <1>4, <1>5, <1>6


------------------------------------------------------------------------------
(* Who receives and who takes packets                                      *)

\* Whoever has m_RecvPending, a thread, the kernel or a result that is not yet
\* dequeued, is the only one.
OneReceiver ==
    /\ posted + Len(completed) <= 1
    /\ posted > 0 \/ completed # <<>> => recvPending /\ \A t \in Threads : ~HoldsRecv(t)
    /\ \A t, u \in Threads : HoldsRecv(t) => recvPending /\ (HoldsRecv(u) => u = t)

\* Whoever has m_ProcPending, a thread or an entry of m_ProcessIOCP, is the only
\* one.
OneProcessor ==
    /\ procQ <= 1
    /\ procQ > 0 => procPending /\ \A t \in Threads : ~HoldsProc(t)
    /\ \A t, u \in Threads : HoldsProc(t) => procPending /\ (HoldsProc(u) => u = t)

\* The types, but for the plans.
Typed ==
    /\ ring \in Rings
    /\ ownMode \in BOOLEAN /\ connected \in BOOLEAN
    /\ recvPending \in BOOLEAN /\ procPending \in BOOLEAN
    /\ posted \in Nat /\ completed \in Seq(0 .. IoBufSize) /\ ioBuffer \in Seq(Byte)
    /\ procQ \in Nat
    /\ packet \in [Threads -> Seq(Byte)]
    /\ sent \in Seq(Seq(Byte)) /\ wire \in Seq(Byte) /\ dispatched \in Seq(Seq(Byte))

\* A step of thread t from one plan to another, seen from both tokens.
LEMMA HoldersMove ==
    ASSUME Planned, NEW t \in Threads, NEW k \in PlansOf(t), Goto(t, k), ownMode' = ownMode,
           ~ownMode => procQ' = 0
    PROVE  /\ \A u \in Threads : u # t =>
                  (HoldsRecv(u)' <=> HoldsRecv(u)) /\ (HoldsProc(u)' <=> HoldsProc(u))
           /\ HoldsRecv(t)' <=> k \in RecvHeld
           /\ HoldsProc(t)' <=> k \in ProcHeld \/ (t \in ProcThreads /\ k \in Taking)
BY PlanMoves DEF HoldsRecv, HoldsProc

\* The steps that plans of thread t can disturb keep one receiver.
LEMMA ReceiverMoves ==
    ASSUME OneReceiver, Typed, Typed', NEW t \in Threads,
           \A u \in Threads : u # t => (HoldsRecv(u)' <=> HoldsRecv(u)),
           \/ /\ UNCHANGED <<recvPending, posted, completed>>
              /\ HoldsRecv(t)' <=> HoldsRecv(t)
           \/ /\ ~recvPending /\ recvPending' = TRUE
              /\ UNCHANGED <<posted, completed>>
           \/ /\ HoldsRecv(t) /\ ~HoldsRecv(t)' /\ UNCHANGED completed
              /\ \/ posted' = posted + 1 /\ UNCHANGED recvPending
                 \/ UNCHANGED posted
           \/ /\ posted > 0 /\ posted' = posted - 1
              /\ UNCHANGED <<completed, recvPending>> /\ ~HoldsRecv(t)'
           \/ /\ completed # <<>> /\ completed' = Tail(completed) /\ UNCHANGED posted
              /\ ~HoldsRecv(t)' \/ UNCHANGED recvPending
    PROVE  OneReceiver'
<1>1. /\ posted \in Nat /\ Len(completed) \in Nat
      /\ completed # <<>> => Len(completed) > 0 /\ Len(Tail(completed)) = Len(completed) - 1
      /\ completed = <<>> => Len(completed) = 0
      /\ completed' # <<>> => Len(completed') > 0
      /\ Len(completed') \in Nat
  <2>1. completed \in Seq(0 .. IoBufSize) /\ completed' \in Seq(0 .. IoBufSize) /\ posted \in Nat
    BY DEF Typed
  <2>2. ASSUME completed # <<>> PROVE Len(completed) > 0 /\ Len(Tail(completed)) = Len(completed) - 1
    BY <2>1, <2>2, EmptySeq, LenProperties, HeadTailProperties
  <2>3. completed' # <<>> => Len(completed') > 0
    BY <2>1, EmptySeq, LenProperties
  <2>. QED
    BY <2>1, <2>2, <2>3, EmptySeq, LenProperties
<1>2. /\ recvPending \in BOOLEAN /\ recvPending' \in BOOLEAN
      /\ \A u \in Threads : HoldsRecv(u) \in BOOLEAN /\ HoldsRecv(u)' \in BOOLEAN
  BY DEF Typed, HoldsRecv
<1>3. /\ posted + Len(completed) <= 1
      /\ posted > 0 \/ completed # <<>> => recvPending /\ \A u \in Threads : ~HoldsRecv(u)
      /\ \A u, v \in Threads : HoldsRecv(u) => recvPending /\ (HoldsRecv(v) => v = u)
  BY DEF OneReceiver
<1>4. CASE UNCHANGED <<recvPending, posted, completed>> /\ (HoldsRecv(t)' <=> HoldsRecv(t))
  BY <1>3, <1>4 DEF OneReceiver
<1>5. CASE /\ ~recvPending /\ recvPending' = TRUE
           /\ UNCHANGED <<posted, completed>>
  <2>1. posted = 0 /\ completed = <<>> /\ \A u \in Threads : ~HoldsRecv(u)
    BY <1>1, <1>3, <1>5
  <2>2. \A u \in Threads : HoldsRecv(u)' => u = t
    BY <2>1
  <2>. QED
    BY <1>1, <1>3, <1>5, <2>1, <2>2 DEF OneReceiver
<1>6. CASE /\ HoldsRecv(t) /\ ~HoldsRecv(t)' /\ UNCHANGED completed
           /\ \/ posted' = posted + 1 /\ UNCHANGED recvPending
              \/ UNCHANGED posted
  <2>1. /\ posted = 0 /\ completed = <<>> /\ recvPending
        /\ \A u \in Threads : ~HoldsRecv(u)'
    BY <1>1, <1>3, <1>6
  <2>a. Len(completed') = 0
    BY <1>1, <1>6, <2>1
  <2>b. ASSUME posted' = posted + 1, UNCHANGED recvPending
        PROVE  posted' + Len(completed') <= 1 /\ (posted' > 0 => recvPending')
    <3>1. posted' = 1 /\ recvPending'
      BY <2>1, <2>b
    <3>. QED
      BY <2>a, <3>1
  <2>c. ASSUME UNCHANGED posted
        PROVE  posted' + Len(completed') <= 1 /\ (posted' > 0 => recvPending')
    <3>1. posted' = 0
      BY <2>1, <2>c
    <3>. QED
      BY <2>a, <3>1
  <2>2. posted' + Len(completed') <= 1 /\ (posted' > 0 => recvPending')
    BY <1>6, <2>b, <2>c
  <2>. QED
    BY <1>6, <2>1, <2>2 DEF OneReceiver
<1>7. CASE /\ posted > 0 /\ posted' = posted - 1
           /\ UNCHANGED <<completed, recvPending>> /\ ~HoldsRecv(t)'
  <2>1. recvPending /\ \A u \in Threads : ~HoldsRecv(u)'
    BY <1>3, <1>7
  <2>2. posted' + Len(completed') <= 1
    BY <1>1, <1>3, <1>7
  <2>. QED
    BY <1>7, <2>1, <2>2 DEF OneReceiver
<1>8. CASE /\ completed # <<>> /\ completed' = Tail(completed) /\ UNCHANGED posted
           /\ ~HoldsRecv(t)' \/ UNCHANGED recvPending
  <2>a. Len(completed) = 1 /\ posted = 0 /\ recvPending
    <3>1. Len(completed) > 0 /\ posted + Len(completed) <= 1 /\ posted \in Nat /\ Len(completed) \in Nat
      BY <1>1, <1>3, <1>8
    <3>2. recvPending
      BY <1>3, <1>8
    <3>3. \A m, n \in Nat : n > 0 /\ m + n <= 1 => n = 1 /\ m = 0
      OBVIOUS
    <3>4. Len(completed) = 1 /\ posted = 0
      BY <3>1, <3>3
    <3>. QED
      BY <3>2, <3>4
  <2>b. Len(completed') = 0
    BY <1>1, <1>8, <2>a
  <2>1. posted = 0 /\ Len(completed') = 0 /\ completed' = <<>> /\ recvPending
    BY <1>1, <2>a, <2>b
  <2>2. \A u \in Threads : ~HoldsRecv(u)
    BY <1>3, <1>8
  <2>3. \A u \in Threads : HoldsRecv(u)' => u = t /\ recvPending'
    BY <1>8, <2>1, <2>2
  <2>4. posted' + Len(completed') <= 1 /\ ~(posted' > 0)
    BY <1>8, <2>1
  <2>. QED
    BY <2>1, <2>3, <2>4 DEF OneReceiver
<1>. QED
  BY <1>4, <1>5, <1>6, <1>7, <1>8

\* The same for one processing thread.
LEMMA ProcessorMoves ==
    ASSUME OneProcessor, Typed, Typed', NEW t \in Threads,
           \A u \in Threads : u # t => (HoldsProc(u)' <=> HoldsProc(u)),
           \/ UNCHANGED <<procPending, procQ>> /\ (HoldsProc(t)' <=> HoldsProc(t))
           \/ ~procPending /\ procPending' = TRUE /\ UNCHANGED procQ
           \/ /\ HoldsProc(t) /\ ~HoldsProc(t)'
              /\ \/ procQ' = procQ + 1 /\ UNCHANGED procPending
                 \/ UNCHANGED procQ
           \/ procQ > 0 /\ procQ' = procQ - 1 /\ UNCHANGED procPending
    PROVE  OneProcessor'
<1>1. /\ procQ \in Nat /\ procPending \in BOOLEAN /\ procPending' \in BOOLEAN
      /\ \A u \in Threads : HoldsProc(u) \in BOOLEAN /\ HoldsProc(u)' \in BOOLEAN
  BY DEF Typed, HoldsProc
<1>2. /\ procQ <= 1
      /\ procQ > 0 => procPending /\ \A u \in Threads : ~HoldsProc(u)
      /\ \A u, v \in Threads : HoldsProc(u) => procPending /\ (HoldsProc(v) => v = u)
  BY DEF OneProcessor
<1>3. CASE UNCHANGED <<procPending, procQ>> /\ (HoldsProc(t)' <=> HoldsProc(t))
  BY <1>2, <1>3 DEF OneProcessor
<1>4. CASE ~procPending /\ procPending' = TRUE /\ UNCHANGED procQ
  <2>1. procQ = 0 /\ \A u \in Threads : ~HoldsProc(u)
    BY <1>1, <1>2, <1>4
  <2>2. \A u \in Threads : HoldsProc(u)' => u = t
    BY <2>1
  <2>. QED
    BY <1>4, <2>1, <2>2 DEF OneProcessor
<1>5. CASE /\ HoldsProc(t) /\ ~HoldsProc(t)'
           /\ \/ procQ' = procQ + 1 /\ UNCHANGED procPending
              \/ UNCHANGED procQ
  <2>1. procQ = 0 /\ procPending /\ \A u \in Threads : ~HoldsProc(u)'
    BY <1>1, <1>2, <1>5
  <2>a. ASSUME procQ' = procQ + 1, UNCHANGED procPending PROVE procQ' = 1 /\ procPending'
    BY <2>1, <2>a
  <2>b. ASSUME UNCHANGED procQ PROVE procQ' = 0
    BY <2>1, <2>b
  <2>2. procQ' <= 1 /\ (procQ' > 0 => procPending')
    BY <1>5, <2>a, <2>b
  <2>. QED
    BY <2>1, <2>2 DEF OneProcessor
<1>6. CASE procQ > 0 /\ procQ' = procQ - 1 /\ UNCHANGED procPending
  <2>1. procQ' = 0 /\ procPending' /\ \A u \in Threads : ~HoldsProc(u)
    BY <1>1, <1>2, <1>6
  <2>2. \A u \in Threads : HoldsProc(u)' => u = t
    BY <2>1
  <2>. QED
    BY <2>1, <2>2 DEF OneProcessor
<1>. QED
  BY <1>3, <1>4, <1>5, <1>6


------------------------------------------------------------------------------
(* Packets in a stream of bytes                                            *)

\* x consists of the packets of s behind the n-th, one behind another: the i-th
\* ends after f[i] bytes.
EndsAt(f, x, n, s) ==
    /\ f \in [n .. Len(s) -> 0 .. Len(x)]
    /\ f[n] = 0 /\ f[Len(s)] = Len(x)
    /\ \A i, j \in n .. Len(s) : i <= j => f[i] <= f[j]
    /\ \A i \in n + 1 .. Len(s) :
          /\ f[i] = f[i - 1] + Len(s[i])
          /\ \A j \in 1 .. Len(s[i]) : x[f[i - 1] + j] = s[i][j]
Framed(x, n, s) == \E f : EndsAt(f, x, n, s)

\* Without packets there are no bytes.
LEMMA NothingFramed == Framed(<<>>, 0, <<>>)
<1>1. Len(<<>>) = 0
  OBVIOUS
<1>. DEFINE f == [i \in 0 .. 0 |-> 0]
<1>2. EndsAt(f, <<>>, 0, <<>>)
  BY <1>1 DEF EndsAt
<1>. QED
  BY <1>2 DEF Framed

\* Bytes are of a packet, the first one begins with the first of them, and what
\* is behind it are the other packets.
LEMMA FirstPacket ==
    ASSUME NEW s \in Seq(Seq(Byte)), NEW n \in Nat, n <= Len(s), NEW x \in Seq(Byte),
           Framed(x, n, s), x # <<>>
    PROVE  /\ n + 1 \in 1 .. Len(s)
           /\ Len(s[n + 1]) <= Len(x)
           /\ \A j \in 1 .. Len(s[n + 1]) : x[j] = s[n + 1][j]
           /\ Framed(SubSeq(x, Len(s[n + 1]) + 1, Len(x)), n + 1, s)
<1>1. PICK f : EndsAt(f, x, n, s)
  BY DEF Framed
<1>2. Len(x) \in Nat /\ Len(x) > 0 /\ Len(s) \in Nat
  BY EmptySeq, LenProperties
<1>3. n # Len(s)
  BY <1>1, <1>2 DEF EndsAt
<1>4. n + 1 \in 1 .. Len(s) /\ n + 1 \in n + 1 .. Len(s) /\ n + 1 \in n .. Len(s) /\ n + 1 - 1 = n
  BY <1>2, <1>3
<1>5. PICK p \in Seq(Byte) : p = s[n + 1]
  BY <1>4, ElementOfSeq
<1>6. Len(p) \in Nat
  BY LenProperties
<1>7. f[n] = 0 /\ f[n + 1] = Len(p) /\ f[n + 1] \in 0 .. Len(x)
  BY <1>1, <1>4, <1>5, <1>6 DEF EndsAt
<1>8. \A j \in 1 .. Len(p) : x[j] = p[j]
  <2>1. \A j \in 1 .. Len(p) : x[f[n] + j] = p[j]
    <3>1. PICK m \in n + 1 .. Len(s) : m = n + 1
      BY <1>4
    <3>2. \A j \in 1 .. Len(s[m]) : x[f[m - 1] + j] = s[m][j]
      BY <1>1 DEF EndsAt
    <3>3. m - 1 = n /\ s[m] = p
      BY <1>5, <3>1
    <3>. QED
      BY <3>2, <3>3
  <2>2. \A j \in 1 .. Len(p) : f[n] + j = j
    BY <1>6, <1>7
  <2>. QED
    BY <2>1, <2>2
<1>. DEFINE y == SubSeq(x, Len(p) + 1, Len(x))
            g == [i \in n + 1 .. Len(s) |-> f[i] - Len(p)]
<1>9. /\ Len(y) = Len(x) - Len(p) /\ Len(y) \in Nat
      /\ \A k \in 1 .. Len(x) - Len(p) : y[k] = x[Len(p) + k]
  BY <1>2, <1>6, <1>7
<1>10. \A i \in n + 1 .. Len(s) : f[i] \in 0 .. Len(x) /\ f[i] >= Len(p) /\ i \in n .. Len(s)
  <2>1. ASSUME NEW i \in n + 1 .. Len(s)
        PROVE  f[i] \in 0 .. Len(x) /\ f[i] >= Len(p) /\ i \in n .. Len(s)
    <3>1. i \in n .. Len(s) /\ n + 1 <= i
      BY <1>2
    <3>2. f[i] \in 0 .. Len(x) /\ f[n + 1] <= f[i]
      BY <1>1, <1>4, <3>1 DEF EndsAt
    <3>. QED
      BY <1>2, <1>6, <1>7, <3>1, <3>2
  <2>. QED
    BY <2>1
<1>11. EndsAt(g, y, n + 1, s)
  <2>. HIDE DEF y
  <2>1. g \in [n + 1 .. Len(s) -> 0 .. Len(y)]
    BY <1>2, <1>6, <1>9, <1>10
  <2>2. g[n + 1] = 0 /\ g[Len(s)] = Len(y)
    <3>1. Len(s) \in n + 1 .. Len(s) /\ n + 1 \in n + 1 .. Len(s)
      BY <1>4
    <3>2. f[Len(s)] = Len(x)
      BY <1>1 DEF EndsAt
    <3>3. g[n + 1] = f[n + 1] - Len(p) /\ g[Len(s)] = Len(x) - Len(p)
      BY <3>1, <3>2
    <3>. QED
      BY <1>6, <1>7, <1>9, <3>3
  <2>3. \A i, j \in n + 1 .. Len(s) : i <= j => g[i] <= g[j]
    <3>1. \A i, j \in n + 1 .. Len(s) : i <= j => f[i] <= f[j]
      BY <1>1, <1>10 DEF EndsAt
    <3>. QED
      BY <1>2, <1>6, <1>10, <3>1
  <2>4. ASSUME NEW i \in n + 2 .. Len(s)
        PROVE  /\ g[i] = g[i - 1] + Len(s[i])
               /\ \A j \in 1 .. Len(s[i]) : y[g[i - 1] + j] = s[i][j]
    <3>1. i \in n + 1 .. Len(s) /\ i - 1 \in n + 1 .. Len(s) /\ i \in 1 .. Len(s)
      BY <1>2
    <3>2. PICK q \in Seq(Byte) : q = s[i]
      BY <3>1, ElementOfSeq
    <3>3. Len(q) \in Nat
      BY LenProperties
    <3>4. f[i] = f[i - 1] + Len(q) /\ \A j \in 1 .. Len(q) : x[f[i - 1] + j] = q[j]
      BY <1>1, <3>1, <3>2 DEF EndsAt
    <3>5. /\ g[i] = f[i] - Len(p) /\ g[i - 1] = f[i - 1] - Len(p)
          /\ f[i] \in 0 .. Len(x) /\ f[i - 1] \in 0 .. Len(x) /\ f[i - 1] >= Len(p)
      BY <1>10, <3>1
    <3>. HIDE DEF g
    <3>6. g[i] = g[i - 1] + Len(q)
      BY <1>2, <1>6, <3>3, <3>4, <3>5
    <3>7. ASSUME NEW j \in 1 .. Len(q) PROVE y[g[i - 1] + j] = q[j]
      <4>0. \A a, b, c, d \in Nat :
                j <= d /\ b = a + d /\ b <= c /\ Len(p) <= a =>
                    a - Len(p) + j \in 1 .. c - Len(p) /\ Len(p) + (a - Len(p) + j) = a + j
        BY <1>6, <3>3
      <4>1. /\ g[i - 1] + j \in 1 .. Len(x) - Len(p)
            /\ Len(p) + (g[i - 1] + j) = f[i - 1] + j
        <5>1. /\ f[i - 1] \in Nat /\ f[i] \in Nat /\ j <= Len(q) /\ f[i] <= Len(x)
              /\ Len(p) <= f[i - 1]
          BY <1>2, <3>3, <3>5
        <5>. QED
          BY <1>2, <3>3, <3>4, <3>5, <4>0, <5>1
      <4>. QED
        BY <1>9, <3>4, <4>1
    <3>. QED
      BY <3>2, <3>6, <3>7
  <2>5. \A i \in n + 1 + 1 .. Len(s) : i \in n + 2 .. Len(s)
    BY <1>2
  <2>. HIDE DEF g
  <2>. QED
    BY <2>1, <2>2, <2>3, <2>4, <2>5 DEF EndsAt
<1>12. Framed(y, n + 1, s)
  BY <1>11 DEF Framed
<1>. QED
  BY <1>4, <1>5, <1>7, <1>8, <1>12

\* One packet more in the stream and behind it.
LEMMA OneMorePacket ==
    ASSUME NEW s \in Seq(Seq(Byte)), NEW n \in Nat, n <= Len(s), NEW x \in Seq(Byte),
           Framed(x, n, s), NEW p \in Seq(Byte)
    PROVE  Framed(x \o p, n, Append(s, p))
<1>1. PICK f : EndsAt(f, x, n, s)
  BY DEF Framed
<1>2. PICK t \in Seq(Seq(Byte)) : t = Append(s, p)
  BY AppendProperties
<1>3. /\ Len(t) = Len(s) + 1 /\ t[Len(s) + 1] = p /\ \A i \in 1 .. Len(s) : t[i] = s[i]
      /\ Len(s) \in Nat
  BY <1>2, AppendProperties, LenProperties
<1>4. PICK y \in Seq(Byte) : y = x \o p
  BY ConcatProperties
<1>5. /\ Len(y) = Len(x) + Len(p) /\ Len(x) \in Nat /\ Len(p) \in Nat
      /\ \A k \in 1 .. Len(x) : y[k] = x[k]
      /\ \A k \in 1 .. Len(p) : y[Len(x) + k] = p[k]
  <2>1. \A k \in 1 .. Len(x) + Len(p) : y[k] = IF k <= Len(x) THEN x[k] ELSE p[k - Len(x)]
    BY <1>4, ConcatProperties
  <2>2. Len(y) = Len(x) + Len(p) /\ Len(x) \in Nat /\ Len(p) \in Nat
    BY <1>4, ConcatProperties, LenProperties
  <2>3. \A k \in 1 .. Len(p) : Len(x) + k \in 1 .. Len(x) + Len(p) /\ ~(Len(x) + k <= Len(x))
                               /\ Len(x) + k - Len(x) = k
    BY <2>2
  <2>4. \A k \in 1 .. Len(x) : k \in 1 .. Len(x) + Len(p) /\ k <= Len(x)
    BY <2>2
  <2>. QED
    BY <2>1, <2>2, <2>3, <2>4
<1>. DEFINE g == [i \in n .. Len(t) |-> IF i <= Len(s) THEN f[i] ELSE Len(y)]
<1>6. /\ f \in [n .. Len(s) -> 0 .. Len(x)] /\ f[n] = 0 /\ f[Len(s)] = Len(x)
      /\ \A i, j \in n .. Len(s) : i <= j => f[i] <= f[j]
  BY <1>1 DEF EndsAt
<1>7. EndsAt(g, y, n, t)
  <2>1. \A i \in n .. Len(t) : IF i <= Len(s) THEN i \in n .. Len(s) /\ f[i] \in 0 .. Len(x)
                                              ELSE i = Len(s) + 1
    BY <1>3, <1>6
  <2>2. g \in [n .. Len(t) -> 0 .. Len(y)]
    <3>1. ASSUME NEW i \in n .. Len(t) PROVE g[i] \in 0 .. Len(y)
      BY <1>5, <2>1
    <3>. QED
      BY <3>1
  <2>3. g[n] = 0 /\ g[Len(t)] = Len(y)
    BY <1>3, <1>6
  <2>4. ASSUME NEW i \in n .. Len(t), NEW j \in n .. Len(t), i <= j PROVE g[i] <= g[j]
    <3>1. CASE j <= Len(s)
      <4>1. i <= Len(s) /\ i \in n .. Len(s) /\ j \in n .. Len(s)
        BY <1>3, <2>4, <3>1
      <4>. QED
        BY <1>6, <2>4, <3>1, <4>1
    <3>2. CASE ~(j <= Len(s))
      <4>1. g[j] = Len(y)
        BY <3>2
      <4>2. g[i] \in 0 .. Len(y)
        BY <2>2
      <4>. QED
        BY <1>5, <4>1, <4>2
    <3>. QED
      BY <3>1, <3>2
  <2>5. ASSUME NEW i \in n + 1 .. Len(t)
        PROVE  /\ g[i] = g[i - 1] + Len(t[i])
               /\ \A j \in 1 .. Len(t[i]) : y[g[i - 1] + j] = t[i][j]
    <3>1. CASE i <= Len(s)
      <4>1. /\ i \in n + 1 .. Len(s) /\ i \in 1 .. Len(s) /\ i \in n .. Len(t)
            /\ i - 1 \in n .. Len(s) /\ i - 1 \in n .. Len(t) /\ i - 1 <= Len(s) /\ i \in n .. Len(s)
        BY <1>3, <3>1
      <4>2. PICK q \in Seq(Byte) : q = s[i] /\ q = t[i]
        BY <1>3, <4>1, ElementOfSeq
      <4>3. /\ f[i] = f[i - 1] + Len(q) /\ \A j \in 1 .. Len(q) : x[f[i - 1] + j] = q[j]
            /\ f[i] \in 0 .. Len(x) /\ f[i - 1] \in 0 .. Len(x) /\ Len(q) \in Nat
        BY <1>1, <1>6, <4>1, <4>2, LenProperties DEF EndsAt
      <4>4. g[i] = f[i] /\ g[i - 1] = f[i - 1]
        BY <3>1, <4>1
      <4>. HIDE DEF g
      <4>5. ASSUME NEW j \in 1 .. Len(q) PROVE y[g[i - 1] + j] = q[j]
        <5>1. \A a, b, c, d \in Nat : j <= d /\ b = a + d /\ b <= c => a + j \in 1 .. c
          BY <4>3
        <5>2. /\ f[i - 1] \in Nat /\ f[i] \in Nat /\ j <= Len(q) /\ f[i] <= Len(x)
          BY <1>5, <4>3
        <5>3. f[i - 1] + j \in 1 .. Len(x)
          BY <1>5, <4>3, <5>1, <5>2
        <5>. QED
          BY <1>5, <4>3, <4>4, <5>3
      <4>. QED
        BY <4>2, <4>3, <4>4, <4>5
    <3>2. CASE ~(i <= Len(s))
      <4>1. i = Len(s) + 1 /\ i - 1 = Len(s) /\ i \in n .. Len(t) /\ i - 1 \in n .. Len(t)
        BY <1>3, <3>2
      <4>2. t[i] = p /\ g[i] = Len(y) /\ g[i - 1] = Len(x)
        BY <1>3, <1>6, <3>2, <4>1
      <4>. QED
        BY <1>5, <4>2
    <3>. QED
      BY <3>1, <3>2
  <2>. HIDE DEF g
  <2>. QED
    BY <2>2, <2>3, <2>4, <2>5 DEF EndsAt
<1>. QED
  BY <1>2, <1>4, <1>7 DEF Framed


------------------------------------------------------------------------------
(* The stream from the peer to OnDispatch                                  *)

\* The first two bytes of a packet are its size.
WellFormed(p) == Len(p) >= 2 /\ p[1] = Len(p) /\ p[2] = 0

\* How many packets have been taken out of the buffer.
InHand == IF \E t \in Threads : todo[t] = <<"Dispatch">> THEN 1 ELSE 0
Taken == Len(dispatched) + InHand

\* What the kernel has received and CompletedRecv has not yet put.
InFlight == IF completed = <<>> THEN <<>> ELSE ioBuffer

\* Bytes may still be put into the buffer: no received bytes were dropped for
\* want of room, or a receive from before is still to be dequeued.
MayPut == posted > 0 \/ completed # <<>> \/ (connected /\ \A t \in Threads : ~Gap(t))

\* Contents and rest are the packets that have not been taken; and as long as
\* bytes may be put, rest is what is still to be put.
Chained(rest) ==
    /\ Framed(Contents(ring) \o rest, Taken, sent)
    /\ MayPut => rest = InFlight \o wire

Streams ==
    /\ completed # <<>> => Len(ioBuffer) = Head(completed)
    /\ Len(sent) <= MaxPackets /\ \A k \in DOMAIN sent : WellFormed(sent[k])
    /\ Taken <= Len(sent)
    /\ \A i \in DOMAIN dispatched : dispatched[i] = sent[i]
    /\ \A t \in Threads : todo[t] = <<"Dispatch">> => packet[t] = sent[Len(dispatched) + 1]
    /\ \E rest \in Seq(Byte) : Chained(rest)

IInv == Typed /\ Planned /\ OneReceiver /\ OneProcessor /\ Streams

\* The peer's packets are well-formed.
LEMMA PacketIsWellFormed ==
    ASSUME NEW k \in 1 .. MaxPackets, NEW size \in Sizes
    PROVE  Packet(k, size) \in Seq(Byte) /\ WellFormed(Packet(k, size))
<1>1. /\ size \in Nat /\ size >= 2 /\ size \in Byte /\ k \in Byte /\ 0 \in Byte
  <2>1. size \in 2 .. BufSize - 1 /\ MaxPackets \in Nat
    BY RecvPathAssumption
  <2>2. k \in 0 .. MaxPackets /\ 0 \in 0 .. MaxPackets
    BY <2>1
  <2>. QED
    BY <2>1, <2>2, RecvPathAssumption, RingAssumption
<1>. DEFINE body == [i \in 1 .. size - 2 |-> k]
            header == <<size, 0>>
<1>2. header \in Seq(Byte) /\ Len(header) = 2 /\ header[1] = size /\ header[2] = 0
  BY <1>1
<1>3. body \in Seq(Byte) /\ Len(body) = size - 2
  BY <1>1
<1>. HIDE DEF body, header
<1>4. PICK p \in Seq(Byte) : p = header \o body
  BY <1>2, <1>3, ConcatProperties
<1>5. Len(p) = size /\ p[1] = size /\ p[2] = 0
  <2>1. /\ Len(p) = Len(header) + Len(body)
        /\ \A i \in 1 .. Len(header) + Len(body) :
               p[i] = IF i <= Len(header) THEN header[i] ELSE body[i - Len(header)]
    BY <1>2, <1>3, <1>4, ConcatProperties
  <2>2. Len(header) + Len(body) = size /\ 1 \in 1 .. size /\ 2 \in 1 .. size
    BY <1>1, <1>2, <1>3
  <2>. QED
    BY <1>2, <2>1, <2>2
<1>6. Packet(k, size) = p
  BY <1>4 DEF Packet, body, header
<1>. QED
  BY <1>1, <1>5, <1>6 DEF WellFormed

\* Only one thread takes packets: the one that has m_ProcPending, or the one that
\* calls ProcessPacket.
LEMMA OneTaker ==
    ASSUME Planned, OneProcessor, NEW t \in Threads, NEW u \in Threads,
           todo[t] \in Taking, todo[u] \in Taking
    PROVE  t = u
<1>1. /\ t \in ProcThreads <=> ownMode
      /\ t \notin ProcThreads => t = App
      /\ u \in ProcThreads <=> ownMode
      /\ u \notin ProcThreads => u = App
  <2>1. PlansOf(t) \cap Taking # {} /\ PlansOf(u) \cap Taking # {}
    BY DEF Planned
  <2>. QED
    BY <2>1, PlansAfterPackets
<1>. QED
  BY <1>1 DEF OneProcessor, HoldsProc

\* A thread that is about to take a packet, or to dispatch one, tells how many are
\* in hand.
LEMMA InHandOf ==
    ASSUME Planned, OneProcessor, NEW t \in Threads, todo[t] \in Taking
    PROVE  InHand = IF todo[t] = <<"Dispatch">> THEN 1 ELSE 0
<1>1. \A u \in Threads : todo[u] = <<"Dispatch">> => u = t
  BY OneTaker DEF Taking
<1>. QED
  BY <1>1 DEF InHand

\* Once IsCompletedPacket says so, the buffer begins with the next packet of the
\* peer, whole, and behind it are the others.
LEMMA CompletePacket ==
    ASSUME Typed, Streams, IsCompletedPacket
    PROVE  /\ Taken + 1 \in 1 .. Len(sent)
           /\ PacketSize \in Nat /\ PacketSize <= GetDataLength(ring)
           /\ Get(ring, PacketSize) = sent[Taken + 1]
           /\ Pop(ring, PacketSize) \in Rings
           /\ \A rest \in Seq(Byte) :
                  Framed(Contents(ring) \o rest, Taken, sent) =>
                      Framed(Contents(Pop(ring, PacketSize)) \o rest, Taken + 1, sent)
<1>1. /\ ring \in Rings /\ sent \in Seq(Seq(Byte)) /\ dispatched \in Seq(Seq(Byte))
  BY DEF Typed
<1>2. PICK c \in Seq(Byte) : c = Contents(ring)
  BY <1>1, ContentsIs
<1>3. Len(c) = GetDataLength(ring) /\ Len(c) \in Nat /\ Len(c) >= 2
  BY <1>1, <1>2, ContentsIs, LenProperties DEF IsCompletedPacket
<1>4. Taken \in Nat /\ Taken <= Len(sent)
  BY <1>1, LenProperties DEF Streams, Taken, InHand
<1>5. ASSUME NEW rest \in Seq(Byte), Framed(Contents(ring) \o rest, Taken, sent)
      PROVE  /\ Taken + 1 \in 1 .. Len(sent)
             /\ \A j \in 1 .. Len(sent[Taken + 1]) : j <= Len(c) => c[j] = sent[Taken + 1][j]
             /\ Len(sent[Taken + 1]) <= Len(c) =>
                    Framed(SubSeq(c, Len(sent[Taken + 1]) + 1, Len(c)) \o rest, Taken + 1, sent)
  <2>1. PICK x \in Seq(Byte) : x = c \o rest
    BY ConcatProperties
  <2>2. /\ Len(x) = Len(c) + Len(rest) /\ Len(rest) \in Nat
        /\ \A j \in 1 .. Len(c) : x[j] = c[j]
    <3>1. \A j \in 1 .. Len(c) + Len(rest) : x[j] = IF j <= Len(c) THEN c[j] ELSE rest[j - Len(c)]
      BY <2>1, ConcatProperties
    <3>2. Len(x) = Len(c) + Len(rest) /\ Len(rest) \in Nat
      BY <2>1, ConcatProperties, LenProperties
    <3>. QED
      BY <1>3, <3>1, <3>2
  <2>3. x # <<>> /\ Framed(x, Taken, sent)
    BY <1>2, <1>3, <1>5, <2>1, <2>2, EmptySeq
  <2>4. PICK n \in Nat : n = Taken
    BY <1>4
  <2>5. /\ n + 1 \in 1 .. Len(sent)
        /\ Len(sent[n + 1]) <= Len(x)
        /\ \A j \in 1 .. Len(sent[n + 1]) : x[j] = sent[n + 1][j]
        /\ Framed(SubSeq(x, Len(sent[n + 1]) + 1, Len(x)), n + 1, sent)
    BY <1>1, <1>4, <2>3, <2>4, FirstPacket
  <2>6. PICK p \in Seq(Byte) : p = sent[n + 1]
    BY <1>1, <2>5, ElementOfSeq
  <2>7. \A j \in 1 .. Len(p) : j <= Len(c) => c[j] = p[j]
    <3>1. \A j \in 1 .. Len(p) : j <= Len(c) => j \in 1 .. Len(c)
      BY <1>3
    <3>. QED
      BY <2>2, <2>5, <2>6, <3>1
  <2>8. ASSUME Len(p) <= Len(c)
        PROVE  Framed(SubSeq(c, Len(p) + 1, Len(c)) \o rest, n + 1, sent)
    <3>1. Len(p) \in 0 .. Len(c)
      BY <1>3, <2>8, LenProperties
    <3>2. SubSeq(x, Len(p) + 1, Len(x)) = SubSeq(c, Len(p) + 1, Len(c)) \o rest
      BY <2>1, <2>2, <3>1, RestGrows
    <3>. QED
      BY <2>5, <2>6, <3>2
  <2>. QED
    BY <2>4, <2>5, <2>6, <2>7, <2>8
<1>6. PICK rest \in Seq(Byte) : Framed(Contents(ring) \o rest, Taken, sent)
  BY DEF Streams, Chained
<1>7. Taken + 1 \in 1 .. Len(sent)
  BY <1>5, <1>6
<1>8. PICK p \in Seq(Byte) : p = sent[Taken + 1]
  BY <1>1, <1>7, ElementOfSeq
<1>9. Len(p) \in Nat /\ Len(p) >= 2 /\ p[1] = Len(p) /\ p[2] = 0
  BY <1>1, <1>7, <1>8, LenProperties DEF Streams, WellFormed
<1>10. \A j \in 1 .. Len(p) : j <= Len(c) => c[j] = p[j]
  BY <1>5, <1>6, <1>8
<1>11. PacketSize = Len(p)
  <2>1. Get(ring, 2) = SubSeq(c, 1, 2)
    BY <1>1, <1>2, <1>3, GetIsPrefix
  <2>2. Get(ring, 2)[1] = c[1] /\ Get(ring, 2)[2] = c[2]
    BY <1>3, <2>1
  <2>3. c[1] = p[1] /\ c[2] = p[2]
    <3>1. 1 \in 1 .. Len(p) /\ 2 \in 1 .. Len(p) /\ 1 <= Len(c) /\ 2 <= Len(c)
      BY <1>3, <1>9
    <3>. QED
      BY <1>10, <3>1
  <2>4. PacketSize = p[1] + 256 * p[2]
    BY <2>2, <2>3 DEF PacketSize
  <2>. QED
    BY <1>9, <2>4
<1>12. PacketSize \in Nat /\ PacketSize <= GetDataLength(ring) /\ Len(p) <= Len(c)
  BY <1>3, <1>9, <1>11 DEF IsCompletedPacket
<1>13. Get(ring, PacketSize) = p
  <2>1. Get(ring, PacketSize) = SubSeq(c, 1, Len(p))
    BY <1>1, <1>2, <1>11, <1>12, GetIsPrefix
  <2>2. SubSeq(c, 1, Len(p)) \in Seq(Byte) /\ Len(SubSeq(c, 1, Len(p))) = Len(p)
        /\ \A j \in 1 .. Len(p) : SubSeq(c, 1, Len(p))[j] = c[j]
    BY <1>3, <1>9, <1>12
  <2>3. \A j \in 1 .. Len(p) : c[j] = p[j]
    BY <1>3, <1>9, <1>10, <1>12
  <2>4. SubSeq(c, 1, Len(p)) = p
    BY <2>2, <2>3, SeqEqual
  <2>. QED
    BY <2>1, <2>4
<1>14. /\ Pop(ring, PacketSize) \in Rings
       /\ Contents(Pop(ring, PacketSize)) = SubSeq(c, Len(p) + 1, Len(c))
  BY <1>1, <1>2, <1>11, <1>12, PopDrops
<1>. QED
  BY <1>5, <1>7, <1>8, <1>12, <1>13, <1>14


------------------------------------------------------------------------------
(* The steps                                                               *)

\* Who the threads are.
LEMMA ThreadsAre == IoThreads \subseteq Threads /\ ProcThreads \subseteq Threads /\ App \in Threads
BY DEF Threads

\* What Unmarshall does when it takes a packet.
LEMMA UnmarshallEffect ==
    ASSUME IInv, NEW t \in Threads, Unmarshall(t)
    PROVE  /\ todo[t] = <<"Unmarshall">> /\ InHand = 0 /\ PlansOf(t) \cap Taking # {}
           /\ \/ /\ Goto(t, <<"Dispatch">>)
                 /\ Taken + 1 \in 1 .. Len(sent)
                 /\ packet' = [packet EXCEPT ![t] = sent[Taken + 1]]
                 /\ ring' \in Rings
                 /\ \A rest \in Seq(Byte) :
                        Framed(Contents(ring) \o rest, Taken, sent) =>
                            Framed(Contents(ring') \o rest, Taken + 1, sent)
              \/ Goto(t, AfterPackets(t, <<>>)) /\ UNCHANGED <<packet, ring>>
<1>1. /\ todo[t] = <<"Unmarshall">> /\ PlansOf(t) \cap Taking # {}
      /\ \/ /\ IsCompletedPacket /\ Goto(t, <<"Dispatch">>)
            /\ packet' = [packet EXCEPT ![t] = Get(ring, PacketSize)]
            /\ ring' = Pop(ring, PacketSize)
         \/ Goto(t, AfterPackets(t, <<>>)) /\ UNCHANGED <<packet, ring>>
  BY NextPacketPlan DEF IInv
<1>2. InHand = 0
  BY <1>1, InHandOf DEF IInv, Taking
<1>3. CASE /\ IsCompletedPacket /\ Goto(t, <<"Dispatch">>)
           /\ packet' = [packet EXCEPT ![t] = Get(ring, PacketSize)]
           /\ ring' = Pop(ring, PacketSize)
  <2>1. /\ Taken + 1 \in 1 .. Len(sent)
        /\ Get(ring, PacketSize) = sent[Taken + 1]
        /\ Pop(ring, PacketSize) \in Rings
        /\ \A rest \in Seq(Byte) :
               Framed(Contents(ring) \o rest, Taken, sent) =>
                   Framed(Contents(Pop(ring, PacketSize)) \o rest, Taken + 1, sent)
    BY <1>3, CompletePacket DEF IInv
  <2>. QED
    BY <1>1, <1>2, <1>3, <2>1
<1>. QED
  BY <1>1, <1>2, <1>3

\* What PeerSends sends.
LEMMA PeerSendsEffect ==
    ASSUME IInv, NEW size \in Sizes, PeerSends(size)
    PROVE  \E p \in Seq(Byte) :
               /\ WellFormed(p) /\ Len(sent) < MaxPackets
               /\ sent' = Append(sent, p) /\ wire' = wire \o p
<1>1. Len(sent) < MaxPackets /\ Len(sent) + 1 \in 1 .. MaxPackets
  BY LenProperties, RecvPathAssumption DEF PeerSends, IInv, Typed
<1>. QED
  BY <1>1, PacketIsWellFormed DEF PeerSends

\* No step takes a variable out of its type.
LEMMA TypeStep ==
    ASSUME IInv, [Next]_vars
    PROVE  Typed'
<1>. DEFINE Flags == /\ ownMode \in BOOLEAN /\ connected \in BOOLEAN
                     /\ recvPending \in BOOLEAN /\ procPending \in BOOLEAN
            Queues == posted \in Nat /\ procQ \in Nat
            Kernel == /\ completed \in Seq(0 .. IoBufSize) /\ ioBuffer \in Seq(Byte)
                      /\ wire \in Seq(Byte)
            Packets == /\ packet \in [Threads -> Seq(Byte)]
                       /\ sent \in Seq(Seq(Byte)) /\ dispatched \in Seq(Seq(Byte))
            All == ring \in Rings /\ Flags /\ Queues /\ Kernel /\ Packets
<1>1. All /\ Typed
  BY DEF IInv, Typed
<1>2. SUFFICES All'
  BY DEF Typed
<1>3. CASE UNCHANGED vars
  BY <1>1, <1>3 DEF vars, flagVars, kernelVars
<1>4. ASSUME NEW t \in Threads, Run(t) PROVE All'
  <2>1. CASE PostRecv(t)
    BY <1>1, <2>1 DEF PostRecv, kernelVars
  <2>2. CASE PostRecvLocked(t)
    <3>1. posted' \in Nat
      BY <1>1, <2>2 DEF PostRecvLocked
    <3>2. UNCHANGED <<ring, ownMode, connected, flagVars, completed, ioBuffer, wire, procQ, packet,
                      sent, dispatched>>
      BY <2>2, Zenon DEF PostRecvLocked
    <3>. QED
      BY <1>1, <3>1, <3>2 DEF flagVars
  <2>3. CASE UnlockRecv(t)
    BY <1>1, <2>3 DEF UnlockRecv, kernelVars
  <2>4. CASE Disconnect(t)
    BY <1>1, <2>4 DEF Disconnect, flagVars, kernelVars
  <2>5. CASE PostProcess(t)
    <3>1. UNCHANGED <<ring, ownMode, connected, flagVars, kernelVars, procQ, packet, sent,
                      dispatched>>
      BY <2>5, Zenon DEF PostProcess
    <3>. QED
      BY <1>1, <3>1 DEF flagVars, kernelVars
  <2>6. CASE TryProc(t)
    BY <1>1, <2>6 DEF TryProc, kernelVars
  <2>7. CASE PostProcessLocked(t)
    <3>1. procQ' \in Nat /\ procPending' \in BOOLEAN
      <4>1. \/ procPending' = FALSE /\ UNCHANGED procQ
            \/ procQ' = procQ + 1 /\ UNCHANGED procPending
        BY <2>7, Zenon DEF PostProcessLocked
      <4>2. procQ' \in Nat
        BY <1>1, <4>1
      <4>3. procPending' = FALSE \/ procPending' = procPending
        BY <4>1
      <4>4. procPending' \in BOOLEAN
        BY <1>1, <4>3
      <4>. QED
        BY <4>2, <4>4
    <3>2. UNCHANGED <<ring, ownMode, connected, recvPending, kernelVars, packet, sent, dispatched>>
      BY <2>7, Zenon DEF PostProcessLocked
    <3>. QED
      BY <1>1, <3>1, <3>2 DEF kernelVars
  <2>8. CASE Unmarshall(t)
    <3>1. UNCHANGED <<ownMode, connected, flagVars, kernelVars, procQ, sent, dispatched>>
      BY <2>8, Zenon DEF Unmarshall
    <3>2. ring' \in Rings /\ packet' \in [Threads -> Seq(Byte)]
      <4>1. CASE UNCHANGED <<packet, ring>>
        BY <1>1, <4>1
      <4>2. CASE /\ Taken + 1 \in 1 .. Len(sent) /\ ring' \in Rings
                 /\ packet' = [packet EXCEPT ![t] = sent[Taken + 1]]
        <5>1. PICK p \in Seq(Byte) : p = sent[Taken + 1]
          BY <1>1, <4>2, ElementOfSeq
        <5>. QED
          BY <1>1, <4>2, <5>1
      <4>. QED
        BY <2>8, <4>1, <4>2, UnmarshallEffect
    <3>. QED
      BY <1>1, <3>1, <3>2 DEF flagVars, kernelVars
  <2>9. CASE Dispatch(t)
    <3>1. UNCHANGED <<ring, ownMode, connected, flagVars, kernelVars, procQ, sent>>
          /\ dispatched' = Append(dispatched, packet[t])
          /\ packet' = [packet EXCEPT ![t] = <<>>]
      BY <2>9, Zenon DEF Dispatch
    <3>2. dispatched' \in Seq(Seq(Byte))
      BY <1>1, <3>1, AppendProperties
    <3>3. packet' \in [Threads -> Seq(Byte)]
      BY <1>1, <3>1
    <3>. QED
      BY <1>1, <3>1, <3>2, <3>3 DEF flagVars, kernelVars
  <2>10. CASE UnlockProc(t)
    BY <1>1, <2>10 DEF UnlockProc, kernelVars
  <2>. QED
    BY <1>4, <2>1, <2>2, <2>3, <2>4, <2>5, <2>6, <2>7, <2>8, <2>9, <2>10 DEF Run
<1>5. ASSUME NEW t \in IoThreads, CompletedRecv(t) PROVE All'
  <2>1. /\ completed # <<>> /\ completed' = Tail(completed)
        /\ UNCHANGED <<ownMode, connected, procPending, posted, ioBuffer, wire, procQ, packet, sent,
                       dispatched>>
        /\ recvPending' = FALSE \/ UNCHANGED recvPending
    BY <1>5, Zenon DEF CompletedRecv
  <2>2. completed' \in Seq(0 .. IoBufSize)
    BY <1>1, <2>1, HeadTailProperties
  <2>3. ring' \in Rings
    <3>1. CASE UNCHANGED ring
      BY <1>1, <3>1
    <3>2. CASE /\ CanPutData(ring, Head(completed))
               /\ ring' = Put(ring, SubSeq(ioBuffer, 1, Head(completed)))
      <4>1. PICK n \in Nat : n = Head(completed)
        <5>1. Head(completed) \in 0 .. IoBufSize
          BY <1>1, <2>1, HeadTailProperties
        <5>. QED
          BY <5>1, RecvPathAssumption
      <4>2. n = Len(ioBuffer)
        BY <2>1, <4>1 DEF IInv, Streams
      <4>3. SubSeq(ioBuffer, 1, n) = ioBuffer
        BY <1>1, <4>2, SubSeqFull
      <4>. QED
        BY <1>1, <3>2, <4>1, <4>2, <4>3, PutAppends
    <3>. QED
      BY <1>5, <3>1, <3>2, FirstPlan, ThreadsAre DEF IInv
  <2>. QED
    BY <1>1, <2>1, <2>2, <2>3
<1>6. ASSUME NEW t \in IoThreads, RecvFailed(t) PROVE All'
  <2>1. posted' \in Nat
    BY <1>1, <1>6 DEF RecvFailed
  <2>. QED
    BY <1>1, <1>6, <2>1 DEF RecvFailed, flagVars
<1>7. ASSUME NEW t \in ProcThreads, DequeueProcess(t) PROVE All'
  <2>1. procQ' \in Nat
    BY <1>1, <1>7 DEF DequeueProcess
  <2>. QED
    BY <1>1, <1>7, <2>1 DEF DequeueProcess, flagVars, kernelVars
<1>8. ASSUME NEW op, AppCall(op) PROVE All'
  BY <1>1, <1>8 DEF AppCall, flagVars, kernelVars
<1>9. ASSUME NEW size \in Sizes, PeerSends(size) PROVE All'
  <2>1. PICK p \in Seq(Byte) : sent' = Append(sent, p) /\ wire' = wire \o p
    BY <1>9, PeerSendsEffect
  <2>2. sent' \in Seq(Seq(Byte)) /\ wire' \in Seq(Byte)
    BY <1>1, <2>1, AppendProperties, ConcatProperties
  <2>3. UNCHANGED <<ring, ownMode, connected, flagVars, posted, completed, ioBuffer, procQ, packet,
                    dispatched>>
    BY <1>9 DEF PeerSends
  <2>. QED
    BY <1>1, <2>2, <2>3 DEF flagVars
<1>10. ASSUME NEW n \in 0 .. IoBufSize, Receive(n) PROVE All'
  <2>1. posted' \in Nat
    BY <1>1, <1>10 DEF Receive
  <2>2. completed' \in Seq(0 .. IoBufSize)
    BY <1>1, <1>10, AppendProperties DEF Receive
  <2>3. ioBuffer' \in Seq(Byte) /\ wire' \in Seq(Byte)
    <3>1. n \in Nat /\ n <= Len(wire)
      BY <1>10, RecvPathAssumption DEF Receive
    <3>2. SubSeq(wire, 1, n) \in Seq(Byte) /\ SubSeq(wire, n + 1, Len(wire)) \in Seq(Byte)
      BY <1>1, <3>1
    <3>. QED
      BY <1>10, <3>2 DEF Receive
  <2>. QED
    BY <1>1, <1>10, <2>1, <2>2, <2>3 DEF Receive, flagVars
<1>11. 1 .. IoBufSize \subseteq 0 .. IoBufSize /\ 0 \in 0 .. IoBufSize
  BY RecvPathAssumption
<1>. HIDE DEF All
<1>. QED
  BY <1>3, <1>4, <1>5, <1>6, <1>7, <1>8, <1>9, <1>10, <1>11 DEF Next, Arrival


\* Every step keeps the plans, the one receiver and the one processor.
LEMMA ControlStep ==
    ASSUME IInv, [Next]_vars, Typed'
    PROVE  Planned' /\ OneReceiver' /\ OneProcessor'
<1>0. /\ Typed /\ Planned /\ OneReceiver /\ OneProcessor /\ Typed'
      /\ ~ownMode => procQ = 0
      /\ recvPending \in BOOLEAN /\ procPending \in BOOLEAN
      /\ <<>> \in Quiet /\ <<"PostRecvLocked">> \in RecvHeld
      /\ <<"Unmarshall">> \in Taking /\ <<"Dispatch">> \in Taking
  BY DEF IInv, Typed, Planned, Quiet, RecvHeld, Taking
<1>1. ASSUME NEW t \in Threads, NEW k \in PlansOf(t), Goto(t, k),
             UNCHANGED ownMode, ~ownMode => procQ' = 0
      PROVE  /\ Planned'
             /\ \A u \in Threads : u # t =>
                    (HoldsRecv(u)' <=> HoldsRecv(u)) /\ (HoldsProc(u)' <=> HoldsProc(u))
             /\ HoldsRecv(t) <=> todo[t] \in RecvHeld
             /\ HoldsProc(t) <=> todo[t] \in ProcHeld \/ (t \in ProcThreads /\ todo[t] \in Taking)
             /\ HoldsRecv(t)' <=> k \in RecvHeld
             /\ HoldsProc(t)' <=> k \in ProcHeld \/ (t \in ProcThreads /\ k \in Taking)
  BY <1>0, <1>1, PlanMoves, HoldersMove DEF HoldsRecv, HoldsProc
<1>2. CASE UNCHANGED vars
  <2>1. UNCHANGED <<todo, ownMode, procQ, procPending, recvPending, posted, completed>>
    BY <1>2 DEF vars, flagVars, kernelVars
  <2>. QED
    BY <1>0, <2>1
    DEF Planned, PlansOf, OneReceiver, OneProcessor, HoldsRecv, HoldsProc
<1>3. ASSUME NEW t \in Threads, PostRecv(t) PROVE Planned' /\ OneReceiver' /\ OneProcessor'
  <2>1. /\ UNCHANGED <<ownMode, procQ, procPending, posted, completed>> /\ recvPending' = TRUE
    BY <1>3 DEF PostRecv, kernelVars
  <2>2. PICK k \in PlansOf(t) :
            /\ Goto(t, k) /\ todo[t] \in Quiet
            /\ IF recvPending THEN k \in Quiet ELSE k = <<"PostRecvLocked">>
    BY <1>0, <1>3, NextPlan
  <2>3. ~HoldsRecv(t) /\ ~HoldsProc(t) /\ ~HoldsProc(t)' /\ Planned'
        /\ (recvPending => ~HoldsRecv(t)')
        /\ \A u \in Threads : u # t =>
               (HoldsRecv(u)' <=> HoldsRecv(u)) /\ (HoldsProc(u)' <=> HoldsProc(u))
    BY <1>0, <1>1, <2>1, <2>2, KindsDiffer
  <2>4. OneReceiver'
    <3>1. CASE recvPending
      BY <1>0, <2>1, <2>3, <3>1, ReceiverMoves
    <3>2. CASE ~recvPending
      BY <1>0, <2>1, <2>3, <3>2, ReceiverMoves
    <3>. QED
      BY <3>1, <3>2
  <2>. QED
    BY <1>0, <2>1, <2>3, <2>4, ProcessorMoves
<1>4. ASSUME NEW t \in Threads, PostRecvLocked(t) PROVE Planned' /\ OneReceiver' /\ OneProcessor'
  <2>1. UNCHANGED <<ownMode, procQ, procPending, recvPending, completed>>
    BY <1>4, Zenon DEF PostRecvLocked, flagVars
  <2>2. PICK k \in PlansOf(t) :
            /\ Goto(t, k) /\ todo[t] = <<"PostRecvLocked">>
            /\ \/ k \in RecvHeld \ GapPlans /\ UNCHANGED posted
               \/ k \in Quiet /\ connected /\ posted' = posted + 1
    BY <1>0, <1>4, NextPlan
  <2>3. HoldsRecv(t) /\ ~HoldsProc(t) /\ ~HoldsProc(t)' /\ Planned'
        /\ (HoldsRecv(t)' <=> k \in RecvHeld)
        /\ \A u \in Threads : u # t =>
               (HoldsRecv(u)' <=> HoldsRecv(u)) /\ (HoldsProc(u)' <=> HoldsProc(u))
    BY <1>0, <1>1, <2>1, <2>2, KindsDiffer
  <2>4. OneReceiver'
    <3>1. CASE k \in RecvHeld \ GapPlans /\ UNCHANGED posted
      BY <1>0, <2>1, <2>3, <3>1, ReceiverMoves
    <3>2. CASE k \in Quiet /\ connected /\ posted' = posted + 1
      <4>1. ~HoldsRecv(t)'
        BY <2>3, <3>2, KindsDiffer
      <4>. QED
        BY <1>0, <2>1, <2>3, <3>2, <4>1, ReceiverMoves
    <3>. QED
      BY <2>2, <3>1, <3>2
  <2>. QED
    BY <1>0, <2>1, <2>3, <2>4, ProcessorMoves
<1>5. ASSUME NEW t \in Threads, UnlockRecv(t) PROVE Planned' /\ OneReceiver' /\ OneProcessor'
  <2>1. UNCHANGED <<ownMode, procQ, procPending, posted, completed>>
    BY <1>5 DEF UnlockRecv, kernelVars
  <2>2. PICK k \in PlansOf(t) : k \in Quiet /\ Goto(t, k) /\ todo[t] \in RecvHeld \ GapPlans
    BY <1>0, <1>5, NextPlan
  <2>3. HoldsRecv(t) /\ ~HoldsRecv(t)' /\ ~HoldsProc(t) /\ ~HoldsProc(t)' /\ Planned'
        /\ \A u \in Threads : u # t =>
               (HoldsRecv(u)' <=> HoldsRecv(u)) /\ (HoldsProc(u)' <=> HoldsProc(u))
    BY <1>0, <1>1, <2>1, <2>2, KindsDiffer
  <2>. QED
    BY <1>0, <2>1, <2>3, ReceiverMoves, ProcessorMoves
<1>6. ASSUME NEW t \in Threads, Disconnect(t) PROVE Planned' /\ OneReceiver' /\ OneProcessor'
  <2>1. UNCHANGED <<ownMode, procQ, procPending, recvPending, posted, completed>>
    BY <1>6 DEF Disconnect, flagVars, kernelVars
  <2>2. PICK k \in PlansOf(t) :
            /\ Goto(t, k)
            /\ \/ todo[t] \in GapPlans /\ k \in RecvHeld \ GapPlans
               \/ todo[t] \in Quiet /\ k \in Quiet
    BY <1>0, <1>6, NextPlan
  <2>3. (HoldsRecv(t)' <=> HoldsRecv(t)) /\ ~HoldsProc(t) /\ ~HoldsProc(t)' /\ Planned'
        /\ \A u \in Threads : u # t =>
               (HoldsRecv(u)' <=> HoldsRecv(u)) /\ (HoldsProc(u)' <=> HoldsProc(u))
    BY <1>0, <1>1, <2>1, <2>2, KindsDiffer
  <2>. QED
    BY <1>0, <2>1, <2>3, ReceiverMoves, ProcessorMoves
<1>7. ASSUME NEW t \in Threads, PostProcess(t) PROVE Planned' /\ OneReceiver' /\ OneProcessor'
  <2>1. UNCHANGED <<ownMode, procQ, procPending, recvPending, posted, completed>>
    BY <1>7, Zenon DEF PostProcess, flagVars, kernelVars
  <2>2. PICK k \in PlansOf(t) : k \in Quiet /\ Goto(t, k) /\ todo[t] \in Quiet
    BY <1>0, <1>7, NextPlan
  <2>3. ~HoldsRecv(t) /\ ~HoldsRecv(t)' /\ ~HoldsProc(t) /\ ~HoldsProc(t)' /\ Planned'
        /\ \A u \in Threads : u # t =>
               (HoldsRecv(u)' <=> HoldsRecv(u)) /\ (HoldsProc(u)' <=> HoldsProc(u))
    BY <1>0, <1>1, <2>1, <2>2, KindsDiffer
  <2>. QED
    BY <1>0, <2>1, <2>3, ReceiverMoves, ProcessorMoves
<1>8. ASSUME NEW t \in Threads, TryProc(t) PROVE Planned' /\ OneReceiver' /\ OneProcessor'
  <2>1. UNCHANGED <<ownMode, procQ, recvPending, posted, completed>> /\ procPending' = TRUE
    BY <1>8 DEF TryProc, kernelVars
  <2>2. PICK k \in PlansOf(t) :
            /\ Goto(t, k) /\ todo[t] \in Quiet
            /\ IF procPending THEN k \in Quiet ELSE k \in ProcHeld
    BY <1>0, <1>8, NextPlan
  <2>3. ~HoldsRecv(t) /\ ~HoldsRecv(t)' /\ ~HoldsProc(t) /\ Planned'
        /\ (procPending => ~HoldsProc(t)')
        /\ \A u \in Threads : u # t =>
               (HoldsRecv(u)' <=> HoldsRecv(u)) /\ (HoldsProc(u)' <=> HoldsProc(u))
    BY <1>0, <1>1, <2>1, <2>2, KindsDiffer
  <2>4. OneProcessor'
    <3>1. CASE procPending
      BY <1>0, <2>1, <2>3, <3>1, ProcessorMoves
    <3>2. CASE ~procPending
      BY <1>0, <2>1, <2>3, <3>2, ProcessorMoves
    <3>. QED
      BY <3>1, <3>2
  <2>. QED
    BY <1>0, <2>1, <2>3, <2>4, ReceiverMoves
<1>9. ASSUME NEW t \in Threads, PostProcessLocked(t) PROVE Planned' /\ OneReceiver' /\ OneProcessor'
  <2>1. /\ UNCHANGED <<ownMode, recvPending, posted, completed>>
        /\ UNCHANGED procQ \/ (procQ' = procQ + 1 /\ UNCHANGED procPending)
    BY <1>9, Zenon DEF PostProcessLocked, kernelVars
  <2>2. PICK k \in PlansOf(t) : k \in Quiet /\ Goto(t, k) /\ todo[t] \in ProcHeld /\ ownMode
    BY <1>0, <1>9, NextPlan
  <2>3. ~HoldsRecv(t) /\ ~HoldsRecv(t)' /\ HoldsProc(t) /\ ~HoldsProc(t)' /\ Planned'
        /\ \A u \in Threads : u # t =>
               (HoldsRecv(u)' <=> HoldsRecv(u)) /\ (HoldsProc(u)' <=> HoldsProc(u))
    BY <1>0, <1>1, <2>1, <2>2, KindsDiffer
  <2>4. OneReceiver'
    BY <1>0, <2>1, <2>3, ReceiverMoves
  <2>5. OneProcessor'
    BY <1>0, <2>1, <2>3, ProcessorMoves
  <2>. QED
    BY <2>3, <2>4, <2>5
<1>10. ASSUME NEW t \in Threads, UnlockProc(t) PROVE Planned' /\ OneReceiver' /\ OneProcessor'
  <2>1. UNCHANGED <<ownMode, recvPending, posted, completed, procQ>>
    BY <1>10 DEF UnlockProc, kernelVars
  <2>2. PICK k \in PlansOf(t) : k \in Quiet /\ Goto(t, k) /\ todo[t] \in ProcHeld
    BY <1>0, <1>10, NextPlan
  <2>3. ~HoldsRecv(t) /\ ~HoldsRecv(t)' /\ HoldsProc(t) /\ ~HoldsProc(t)' /\ Planned'
        /\ \A u \in Threads : u # t =>
               (HoldsRecv(u)' <=> HoldsRecv(u)) /\ (HoldsProc(u)' <=> HoldsProc(u))
    BY <1>0, <1>1, <2>1, <2>2, KindsDiffer
  <2>. QED
    BY <1>0, <2>1, <2>3, ReceiverMoves, ProcessorMoves
<1>11. ASSUME NEW t \in Threads, Unmarshall(t) \/ Dispatch(t)
       PROVE  Planned' /\ OneReceiver' /\ OneProcessor'
  <2>1. UNCHANGED <<ownMode, recvPending, procPending, posted, completed, procQ>>
    <3>1. CASE Unmarshall(t)
      BY <3>1, Zenon DEF Unmarshall, flagVars, kernelVars
    <3>2. CASE Dispatch(t)
      BY <3>2, Zenon DEF Dispatch, flagVars, kernelVars
    <3>. QED
      BY <1>11, <3>1, <3>2
  <2>2. /\ todo[t] \in Taking /\ PlansOf(t) \cap Taking # {}
        /\ \/ Goto(t, <<"Dispatch">>) \/ Goto(t, <<"Unmarshall">>)
           \/ Goto(t, AfterPackets(t, <<>>)) \/ Goto(t, AfterPackets(t, <<"Disconnect">>))
    BY <1>0, <1>11, NextPacketPlan DEF Taking
  <2>3. PICK k \in PlansOf(t) : /\ Goto(t, k)
                                /\ k \in Taking \cup IF t \in ProcThreads THEN ProcHeld ELSE Quiet
    <3>1. \A d \in {<<>>, <<"Disconnect">>} :
              /\ AfterPackets(t, d) \in PlansOf(t) /\ Taking \subseteq PlansOf(t)
              /\ AfterPackets(t, d) \in IF t \in ProcThreads THEN ProcHeld ELSE Quiet
      BY <2>2, PlansAfterPackets
    <3>. QED
      BY <1>0, <2>2, <3>1
  <2>4. ~HoldsRecv(t) /\ ~HoldsRecv(t)' /\ (HoldsProc(t)' <=> HoldsProc(t)) /\ Planned'
        /\ \A u \in Threads : u # t =>
               (HoldsRecv(u)' <=> HoldsRecv(u)) /\ (HoldsProc(u)' <=> HoldsProc(u))
    BY <1>0, <1>1, <2>1, <2>2, <2>3, KindsDiffer
  <2>. QED
    BY <1>0, <2>1, <2>4, ReceiverMoves, ProcessorMoves
<1>12. ASSUME NEW t \in IoThreads, CompletedRecv(t) PROVE Planned' /\ OneReceiver' /\ OneProcessor'
  <2>1. /\ UNCHANGED <<ownMode, procPending, procQ, posted>>
        /\ completed # <<>> /\ completed' = Tail(completed)
    BY <1>12, Zenon DEF CompletedRecv
  <2>2. /\ todo[t] = <<>> /\ t \in Threads
        /\ \E k \in PlansOf(t) : Goto(t, k) /\ (k \in Quiet \/ (k \in GapPlans /\ UNCHANGED recvPending))
    BY <1>0, <1>12, FirstPlan, ThreadsAre
  <2>3. PICK k \in PlansOf(t) : Goto(t, k) /\ (k \in Quiet \/ (k \in GapPlans /\ UNCHANGED recvPending))
    BY <2>2
  <2>4. ~HoldsProc(t) /\ ~HoldsProc(t)' /\ Planned'
        /\ (HoldsRecv(t)' => UNCHANGED recvPending)
        /\ \A u \in Threads : u # t =>
               (HoldsRecv(u)' <=> HoldsRecv(u)) /\ (HoldsProc(u)' <=> HoldsProc(u))
    BY <1>0, <1>1, <2>1, <2>2, <2>3, KindsDiffer
  <2>5. OneReceiver'
    BY <1>0, <2>1, <2>2, <2>4, ReceiverMoves
  <2>6. OneProcessor'
    BY <1>0, <2>1, <2>2, <2>4, ProcessorMoves
  <2>. QED
    BY <2>4, <2>5, <2>6
<1>13. ASSUME NEW t \in IoThreads, RecvFailed(t) PROVE Planned' /\ OneReceiver' /\ OneProcessor'
  <2>1. /\ UNCHANGED <<ownMode, procPending, recvPending, procQ, completed>>
        /\ posted > 0 /\ posted' = posted - 1
    BY <1>13 DEF RecvFailed, flagVars
  <2>2. /\ todo[t] = <<>> /\ t \in Threads
        /\ \E k \in PlansOf(t) : k \in Quiet /\ Goto(t, k)
    BY <1>0, <1>13, FirstPlan, ThreadsAre
  <2>3. ~HoldsRecv(t)' /\ ~HoldsProc(t) /\ ~HoldsProc(t)' /\ Planned'
        /\ \A u \in Threads : u # t =>
               (HoldsRecv(u)' <=> HoldsRecv(u)) /\ (HoldsProc(u)' <=> HoldsProc(u))
    BY <1>0, <1>1, <2>1, <2>2, KindsDiffer
  <2>4. OneReceiver'
    BY <1>0, <2>1, <2>2, <2>3, ReceiverMoves
  <2>5. OneProcessor'
    BY <1>0, <2>1, <2>2, <2>3, ProcessorMoves
  <2>. QED
    BY <2>3, <2>4, <2>5
<1>14. ASSUME NEW t \in ProcThreads, DequeueProcess(t) PROVE Planned' /\ OneReceiver' /\ OneProcessor'
  <2>1. /\ UNCHANGED <<ownMode, procPending, recvPending, posted, completed>>
        /\ procQ > 0 /\ procQ' = procQ - 1
    BY <1>14 DEF DequeueProcess, flagVars, kernelVars
  <2>2. /\ todo[t] = <<>> /\ t \in Threads /\ ownMode
        /\ \E k \in PlansOf(t) : k \in Taking /\ Goto(t, k)
    BY <1>0, <1>14, FirstPlan, ThreadsAre
  <2>3. ~HoldsRecv(t) /\ ~HoldsRecv(t)' /\ Planned'
        /\ \A u \in Threads : u # t =>
               (HoldsRecv(u)' <=> HoldsRecv(u)) /\ (HoldsProc(u)' <=> HoldsProc(u))
    BY <1>0, <1>1, <2>1, <2>2, KindsDiffer
  <2>4. OneReceiver'
    BY <1>0, <2>1, <2>2, <2>3, ReceiverMoves
  <2>5. OneProcessor'
    BY <1>0, <2>1, <2>2, <2>3, ProcessorMoves
  <2>. QED
    BY <2>3, <2>4, <2>5
<1>15. ASSUME NEW op, AppCall(op), op = "Disconnect" \/ (op = "Unmarshall" /\ ~ownMode)
       PROVE  Planned' /\ OneReceiver' /\ OneProcessor'
  <2>1. /\ UNCHANGED <<ownMode, procPending, recvPending, posted, completed, procQ>>
    BY <1>15 DEF AppCall, flagVars, kernelVars
  <2>2. /\ todo[App] = <<>> /\ App \in Threads /\ App \notin ProcThreads
        /\ \E k \in PlansOf(App) : (k \in Taking \/ k \in Quiet) /\ Goto(App, k)
    BY <1>0, <1>15, FirstPlan, ThreadsAre, RecvPathAssumption
  <2>3. ~HoldsRecv(App) /\ ~HoldsRecv(App)' /\ ~HoldsProc(App) /\ ~HoldsProc(App)' /\ Planned'
        /\ \A u \in Threads : u # App =>
               (HoldsRecv(u)' <=> HoldsRecv(u)) /\ (HoldsProc(u)' <=> HoldsProc(u))
    BY <1>0, <1>1, <2>1, <2>2, KindsDiffer
  <2>4. OneReceiver'
    BY <1>0, <2>1, <2>2, <2>3, ReceiverMoves
  <2>5. OneProcessor'
    BY <1>0, <2>1, <2>2, <2>3, ProcessorMoves
  <2>. QED
    BY <2>3, <2>4, <2>5
<1>16. ASSUME UNCHANGED <<todo, ownMode, procQ, procPending, recvPending>>
       PROVE  /\ Planned' /\ OneProcessor'
              /\ \A u \in Threads : HoldsRecv(u)' <=> HoldsRecv(u)
  BY <1>0, <1>16 DEF Planned, PlansOf, OneProcessor, HoldsRecv, HoldsProc
<1>17. ASSUME NEW size \in Sizes, PeerSends(size) PROVE Planned' /\ OneReceiver' /\ OneProcessor'
  <2>1. UNCHANGED <<todo, ownMode, procQ, procPending, recvPending, posted, completed>>
    BY <1>17 DEF PeerSends, flagVars
  <2>. QED
    BY <1>0, <1>16, <2>1 DEF OneReceiver
<1>18. ASSUME NEW n \in 0 .. IoBufSize, Receive(n) PROVE Planned' /\ OneReceiver' /\ OneProcessor'
  <2>1. /\ UNCHANGED <<todo, ownMode, procQ, procPending, recvPending>>
        /\ posted > 0 /\ posted' = posted - 1 /\ completed' = Append(completed, n)
    BY <1>18 DEF Receive, flagVars
  <2>2. Len(completed') = Len(completed) + 1 /\ Len(completed) \in Nat /\ posted \in Nat
    BY <1>0, <2>1, AppendProperties, LenProperties DEF Typed
  <2>3. posted' + Len(completed') <= 1
    BY <1>0, <2>1, <2>2 DEF OneReceiver
  <2>4. recvPending /\ \A u \in Threads : ~HoldsRecv(u)
    BY <1>0, <2>1 DEF OneReceiver
  <2>5. recvPending' /\ \A u \in Threads : ~HoldsRecv(u)'
    BY <1>16, <2>1, <2>4
  <2>. QED
    BY <1>16, <2>1, <2>3, <2>5 DEF OneReceiver
<1>19. 1 .. IoBufSize \subseteq 0 .. IoBufSize /\ 0 \in 0 .. IoBufSize
  BY RecvPathAssumption
<1>. QED
  BY <1>2, <1>3, <1>4, <1>5, <1>6, <1>7, <1>8, <1>9, <1>10, <1>11, <1>12, <1>13, <1>14, <1>15,
     <1>17, <1>18, <1>19
  DEF Next, Run, Arrival


\* A step that leaves the bytes and the packets where they are keeps the stream,
\* as long as it does not make a receive possible.
LEMMA StreamKept ==
    ASSUME Streams, UNCHANGED <<ring, completed, ioBuffer, wire, packet, sent, dispatched>>,
           \A t \in Threads : todo'[t] = <<"Dispatch">> <=> todo[t] = <<"Dispatch">>,
           MayPut' => MayPut
    PROVE  Streams'
<1>1. InHand' = InHand /\ Taken' = Taken /\ InFlight' = InFlight
  <2>1. InHand' = InHand
    BY DEF InHand
  <2>. QED
    BY <2>1 DEF Taken, InFlight
<1>2. PICK rest \in Seq(Byte) : Chained(rest)
  BY DEF Streams
<1>3. /\ Framed(Contents(ring') \o rest, Taken', sent')
      /\ MayPut' => rest = InFlight' \o wire'
  BY <1>1, <1>2 DEF Chained
<1>4. \E r \in Seq(Byte) : Framed(Contents(ring') \o r, Taken', sent')
                           /\ (MayPut' => r = InFlight' \o wire')
  BY <1>3
<1>. QED
  BY <1>1, <1>4 DEF Streams, Chained

\* A plan that takes no packets and leaves none in hand.
LEMMA PlainMove ==
    ASSUME Planned, NEW t \in Threads, NEW k \in PlansOf(t), Goto(t, k), UNCHANGED ownMode,
           ~ownMode => procQ' = 0, k # <<"Dispatch">>, todo[t] # <<"Dispatch">>
    PROVE  /\ \A u \in Threads : todo'[u] = <<"Dispatch">> <=> todo[u] = <<"Dispatch">>
           /\ \A u \in Threads : u # t => (Gap(u)' <=> Gap(u))
           /\ Gap(t)' <=> k \in GapPlans
           /\ Gap(t) <=> todo[t] \in GapPlans
BY PlanMoves DEF Gap


\* The steps that take no bytes and no packet.
LEMMA StreamsQuietStep ==
    ASSUME IInv, NEW t \in Threads,
           \/ PostRecv(t) \/ PostRecvLocked(t) \/ UnlockRecv(t) \/ Disconnect(t)
           \/ PostProcess(t) \/ TryProc(t) \/ PostProcessLocked(t) \/ UnlockProc(t)
    PROVE  Streams'
<1>0. /\ Typed /\ Planned /\ OneReceiver /\ Streams
      /\ ~ownMode => procQ = 0
      /\ <<"PostRecvLocked">> \in RecvHeld \ GapPlans /\ <<"Dispatch">> \in Taking
  BY DEF IInv, Planned, RecvHeld, GapPlans, Taking
<1>1. ASSUME NEW k \in PlansOf(t), Goto(t, k), UNCHANGED ownMode, ~ownMode => procQ' = 0,
             k \in Quiet \cup RecvHeld \cup ProcHeld, todo[t] \in Quiet \cup RecvHeld \cup ProcHeld
      PROVE  /\ \A u \in Threads : todo'[u] = <<"Dispatch">> <=> todo[u] = <<"Dispatch">>
             /\ \A u \in Threads : u # t => (Gap(u)' <=> Gap(u))
             /\ Gap(t)' <=> k \in GapPlans
             /\ Gap(t) <=> todo[t] \in GapPlans
  <2>1. k # <<"Dispatch">> /\ todo[t] # <<"Dispatch">>
    BY <1>0, <1>1, KindsDiffer
  <2>. QED
    BY <1>0, <1>1, <2>1, PlainMove
<1>2. CASE PostRecv(t)
  <2>1. UNCHANGED <<ring, ownMode, connected, posted, completed, ioBuffer, wire, procQ, packet, sent,
                    dispatched>>
    BY <1>2 DEF PostRecv, kernelVars
  <2>2. PICK k \in PlansOf(t) :
            Goto(t, k) /\ todo[t] \in Quiet /\ k \in Quiet \cup {<<"PostRecvLocked">>}
    BY <1>0, <1>2, NextPlan
  <2>3. k \notin GapPlans /\ todo[t] \notin GapPlans /\ k \in Quiet \cup RecvHeld
    BY <1>0, <2>2, KindsDiffer
  <2>4. MayPut' <=> MayPut
    BY <1>0, <1>1, <2>1, <2>2, <2>3 DEF MayPut
  <2>. QED
    BY <1>0, <1>1, <2>1, <2>2, <2>3, <2>4, StreamKept
<1>3. CASE PostRecvLocked(t)
  <2>1. UNCHANGED <<ring, ownMode, connected, completed, ioBuffer, wire, procQ, packet, sent,
                    dispatched>>
    BY <1>3, Zenon DEF PostRecvLocked
  <2>2. PICK k \in PlansOf(t) :
            /\ Goto(t, k) /\ todo[t] = <<"PostRecvLocked">>
            /\ \/ k \in RecvHeld \ GapPlans /\ UNCHANGED posted
               \/ k \in Quiet /\ connected /\ posted' = posted + 1
    BY <1>0, <1>3, NextPlan
  <2>3. k \notin GapPlans /\ k \in Quiet \cup RecvHeld
    BY <2>2, KindsDiffer
  <2>4. \A u \in Threads : Gap(u)' <=> Gap(u)
    BY <1>0, <1>1, <2>1, <2>2, <2>3
  <2>5. \A u \in Threads : ~Gap(u)
    <3>1. \A u \in Threads : HoldsRecv(u) => u = t
      BY <1>0, <2>2 DEF OneReceiver, HoldsRecv
    <3>. QED
      BY <1>0, <2>2, <3>1, KindsDiffer DEF HoldsRecv, Gap
  <2>6. MayPut' => MayPut
    BY <2>1, <2>2, <2>4, <2>5 DEF MayPut
  <2>. QED
    BY <1>0, <1>1, <2>1, <2>2, <2>3, <2>6, StreamKept
<1>4. CASE UnlockRecv(t)
  <2>1. UNCHANGED <<ring, ownMode, connected, posted, completed, ioBuffer, wire, procQ, packet, sent,
                    dispatched>>
    BY <1>4 DEF UnlockRecv, kernelVars
  <2>2. PICK k \in PlansOf(t) : k \in Quiet /\ Goto(t, k) /\ todo[t] \in RecvHeld \ GapPlans
    BY <1>0, <1>4, NextPlan
  <2>3. k \notin GapPlans
    BY <2>2, KindsDiffer
  <2>4. MayPut' <=> MayPut
    BY <1>0, <1>1, <2>1, <2>2, <2>3 DEF MayPut
  <2>. QED
    BY <1>0, <1>1, <2>1, <2>2, <2>4, StreamKept
<1>5. CASE Disconnect(t)
  <2>1. /\ UNCHANGED <<ring, ownMode, posted, completed, ioBuffer, wire, procQ, packet, sent,
                       dispatched>>
        /\ connected' = FALSE
    BY <1>5 DEF Disconnect, kernelVars
  <2>2. PICK k \in PlansOf(t) :
            /\ Goto(t, k)
            /\ \/ todo[t] \in GapPlans /\ k \in RecvHeld \ GapPlans
               \/ todo[t] \in Quiet /\ k \in Quiet
    BY <1>0, <1>5, NextPlan
  <2>3. MayPut' => MayPut
    BY <2>1 DEF MayPut
  <2>4. k \in Quiet \cup RecvHeld \cup ProcHeld /\ todo[t] \in Quiet \cup RecvHeld \cup ProcHeld
    BY <2>2, KindsDiffer
  <2>. QED
    BY <1>0, <1>1, <2>1, <2>2, <2>3, <2>4, StreamKept
<1>6. CASE PostProcess(t) \/ TryProc(t) \/ PostProcessLocked(t) \/ UnlockProc(t)
  <2>1. /\ UNCHANGED <<ring, ownMode, connected, posted, completed, ioBuffer, wire, packet, sent,
                       dispatched>>
        /\ ~ownMode => procQ' = 0
    <3>1. CASE PostProcess(t)
      BY <1>0, <3>1, Zenon DEF PostProcess, kernelVars
    <3>2. CASE TryProc(t)
      BY <1>0, <3>2 DEF TryProc, kernelVars
    <3>3. CASE PostProcessLocked(t)
      <4>1. ownMode
        BY <1>0, <3>3, NextPlan
      <4>. QED
        BY <3>3, <4>1, Zenon DEF PostProcessLocked, kernelVars
    <3>4. CASE UnlockProc(t)
      BY <1>0, <3>4 DEF UnlockProc, kernelVars
    <3>. QED
      BY <1>6, <3>1, <3>2, <3>3, <3>4
  <2>2. PICK k \in PlansOf(t) : /\ Goto(t, k) /\ k \in Quiet \cup ProcHeld
                                /\ todo[t] \in Quiet \cup ProcHeld
    <3>1. CASE PostProcess(t)
      BY <1>0, <3>1, NextPlan
    <3>2. CASE TryProc(t)
      BY <1>0, <3>2, NextPlan
    <3>3. CASE PostProcessLocked(t)
      BY <1>0, <3>3, NextPlan
    <3>4. CASE UnlockProc(t)
      BY <1>0, <3>4, NextPlan
    <3>. QED
      BY <1>6, <3>1, <3>2, <3>3, <3>4
  <2>3. k \notin GapPlans /\ todo[t] \notin GapPlans
    BY <2>2, KindsDiffer
  <2>4. MayPut' <=> MayPut
    BY <1>0, <1>1, <2>1, <2>2, <2>3 DEF MayPut
  <2>. QED
    BY <1>0, <1>1, <2>1, <2>2, <2>4, StreamKept
<1>. QED
  BY <1>2, <1>3, <1>4, <1>5, <1>6

\* The steps on packets.
LEMMA StreamsPacketStep ==
    ASSUME IInv, NEW t \in Threads, Unmarshall(t) \/ Dispatch(t)
    PROVE  Streams'
<1>0. /\ Typed /\ Planned /\ OneProcessor /\ Streams
      /\ ~ownMode => procQ = 0
      /\ <<"Unmarshall">> \in Taking /\ <<"Dispatch">> \in Taking
      /\ <<"Unmarshall">> # <<"Dispatch">>
  BY DEF IInv, Planned, Taking
<1>1. /\ UNCHANGED <<ownMode, connected, posted, completed, ioBuffer, wire, procQ, sent>>
      /\ ~ownMode => procQ' = 0
  <2>1. CASE Unmarshall(t)
    BY <1>0, <2>1, Zenon DEF Unmarshall, kernelVars
  <2>2. CASE Dispatch(t)
    BY <1>0, <2>2, Zenon DEF Dispatch, kernelVars
  <2>. QED
    BY <2>1, <2>2
<1>2. ASSUME PlansOf(t) \cap Taking # {}
      PROVE  /\ Taking \subseteq PlansOf(t)
             /\ \A d \in {<<>>, <<"Disconnect">>} :
                    /\ AfterPackets(t, d) \in PlansOf(t)
                    /\ AfterPackets(t, d) \in Quiet \cup ProcHeld
  BY <1>2, PlansAfterPackets
<1>3. ASSUME todo[t] \in Taking, NEW k \in PlansOf(t), k \in Taking \cup Quiet \cup ProcHeld, Goto(t, k)
      PROVE  /\ todo'[t] = k /\ Planned'
             /\ \A u \in Threads : u # t => todo'[u] = todo[u] /\ todo[u] # <<"Dispatch">>
             /\ MayPut' <=> MayPut
  <2>1. /\ todo'[t] = k /\ Planned' /\ \A u \in Threads : u # t => todo'[u] = todo[u]
    BY <1>0, <1>1, <1>3, PlanMoves
  <2>2. \A u \in Threads : u # t => todo[u] # <<"Dispatch">>
    BY <1>0, <1>3, OneTaker
  <2>3. k \notin GapPlans /\ todo[t] \notin GapPlans
    BY <1>3, KindsDiffer
  <2>4. \A u \in Threads : Gap(u)' <=> Gap(u)
    BY <2>1, <2>3 DEF Gap
  <2>. QED
    BY <1>1, <2>1, <2>2, <2>4 DEF MayPut
<1>4. ASSUME Unmarshall(t) PROVE Streams'
  <2>1. /\ todo[t] = <<"Unmarshall">> /\ InHand = 0 /\ PlansOf(t) \cap Taking # {}
        /\ \/ /\ Goto(t, <<"Dispatch">>)
              /\ Taken + 1 \in 1 .. Len(sent)
              /\ packet' = [packet EXCEPT ![t] = sent[Taken + 1]]
              /\ ring' \in Rings
              /\ \A rest \in Seq(Byte) :
                     Framed(Contents(ring) \o rest, Taken, sent) =>
                         Framed(Contents(ring') \o rest, Taken + 1, sent)
           \/ Goto(t, AfterPackets(t, <<>>)) /\ UNCHANGED <<packet, ring>>
    BY <1>4, UnmarshallEffect
  <2>2. UNCHANGED dispatched /\ Taken = Len(dispatched) /\ Len(dispatched) \in Nat
    <3>1. UNCHANGED dispatched
      BY <1>4, Zenon DEF Unmarshall
    <3>. QED
      BY <1>0, <2>1, <3>1, LenProperties DEF Taken, Typed
  <2>3. CASE Goto(t, AfterPackets(t, <<>>)) /\ UNCHANGED <<packet, ring>>
    <3>1. PICK k \in PlansOf(t) : k = AfterPackets(t, <<>>) /\ k \in Quiet \cup ProcHeld
      BY <1>2, <2>1
    <3>2. k # <<"Dispatch">>
      BY <1>0, <3>1, KindsDiffer
    <3>3. /\ todo'[t] = k /\ \A u \in Threads : u # t => todo'[u] = todo[u]
          /\ MayPut' <=> MayPut
      BY <1>0, <1>3, <2>1, <2>3, <3>1
    <3>4. \A u \in Threads : todo'[u] = <<"Dispatch">> <=> todo[u] = <<"Dispatch">>
      BY <1>0, <2>1, <3>2, <3>3
    <3>. QED
      BY <1>0, <1>1, <2>2, <2>3, <3>3, <3>4, StreamKept
  <2>4. CASE /\ Goto(t, <<"Dispatch">>)
             /\ Taken + 1 \in 1 .. Len(sent)
             /\ packet' = [packet EXCEPT ![t] = sent[Taken + 1]]
             /\ ring' \in Rings
             /\ \A rest \in Seq(Byte) :
                    Framed(Contents(ring) \o rest, Taken, sent) =>
                        Framed(Contents(ring') \o rest, Taken + 1, sent)
    <3>1. /\ todo'[t] = <<"Dispatch">>
          /\ \A u \in Threads : u # t => todo'[u] = todo[u] /\ todo[u] # <<"Dispatch">>
          /\ MayPut' <=> MayPut
      BY <1>0, <1>2, <1>3, <2>1, <2>4
    <3>2. InHand' = 1 /\ Taken' = Taken + 1 /\ InFlight' = InFlight
      <4>1. InHand' = 1
        BY <3>1 DEF InHand
      <4>. QED
        BY <1>1, <2>2, <4>1 DEF Taken, InFlight
    <3>3. \A u \in Threads : todo'[u] = <<"Dispatch">> => packet'[u] = sent[Len(dispatched) + 1]
      <4>1. packet'[t] = sent[Taken + 1]
        BY <1>0, <2>4 DEF Typed
      <4>. QED
        BY <2>2, <3>1, <4>1
    <3>4. PICK rest \in Seq(Byte) : Chained(rest)
      BY <1>0 DEF Streams
    <3>5. /\ Framed(Contents(ring') \o rest, Taken', sent')
          /\ MayPut' => rest = InFlight' \o wire'
      BY <1>1, <2>4, <3>1, <3>2, <3>4 DEF Chained
    <3>6. \E r \in Seq(Byte) : Framed(Contents(ring') \o r, Taken', sent')
                               /\ (MayPut' => r = InFlight' \o wire')
      BY <3>5
    <3>7. Taken' <= Len(sent')
      BY <1>1, <2>2, <2>4, <3>2
    <3>. QED
      BY <1>0, <1>1, <2>2, <3>3, <3>6, <3>7 DEF Streams, Chained
  <2>. QED
    BY <2>1, <2>3, <2>4
<1>5. ASSUME Dispatch(t) PROVE Streams'
  <2>1. /\ todo[t] = <<"Dispatch">> /\ PlansOf(t) \cap Taking # {}
        /\ \/ Goto(t, <<"Unmarshall">>)
           \/ Goto(t, AfterPackets(t, <<"Disconnect">>))
    BY <1>0, <1>5, NextPacketPlan
  <2>2. /\ UNCHANGED ring /\ dispatched' = Append(dispatched, packet[t])
        /\ packet' = [packet EXCEPT ![t] = <<>>]
    BY <1>5, Zenon DEF Dispatch
  <2>3. PICK k \in PlansOf(t) : /\ Goto(t, k) /\ k \in Taking \cup Quiet \cup ProcHeld
                                /\ k # <<"Dispatch">>
    <3>1. <<"Dispatch">> \notin Quiet \cup ProcHeld
      BY <1>0, KindsDiffer
    <3>. QED
      BY <1>0, <1>2, <2>1, <3>1
  <2>4. /\ todo'[t] = k
        /\ \A u \in Threads : u # t => todo'[u] = todo[u] /\ todo[u] # <<"Dispatch">>
        /\ MayPut' <=> MayPut
    BY <1>0, <1>3, <2>1, <2>3
  <2>5. \A u \in Threads : todo'[u] # <<"Dispatch">>
    BY <2>3, <2>4
  <2>6. InHand = 1 /\ InHand' = 0
    BY <2>1, <2>5 DEF InHand
  <2>7. /\ Len(dispatched') = Len(dispatched) + 1 /\ Len(dispatched) \in Nat
        /\ dispatched'[Len(dispatched) + 1] = packet[t]
        /\ \A i \in 1 .. Len(dispatched) : dispatched'[i] = dispatched[i]
        /\ DOMAIN dispatched' = 1 .. Len(dispatched) + 1
        /\ DOMAIN dispatched = 1 .. Len(dispatched)
    <3>1. dispatched \in Seq(Seq(Byte)) /\ packet[t] \in Seq(Byte)
      BY <1>0 DEF Typed
    <3>2. dispatched' \in Seq(Seq(Byte))
      BY <2>2, <3>1, AppendProperties
    <3>. QED
      BY <2>2, <3>1, <3>2, AppendProperties, LenProperties
  <2>8. Taken' = Taken /\ InFlight' = InFlight
    BY <1>1, <2>6, <2>7 DEF Taken, InFlight
  <2>9. \A i \in DOMAIN dispatched' : dispatched'[i] = sent[i]
    <3>1. packet[t] = sent[Len(dispatched) + 1]
      BY <1>0, <2>1 DEF Streams
    <3>2. \A i \in 1 .. Len(dispatched) : dispatched[i] = sent[i]
      BY <1>0, <2>7 DEF Streams
    <3>3. \A i \in 1 .. Len(dispatched) + 1 : i \in 1 .. Len(dispatched) \/ i = Len(dispatched) + 1
      BY <2>7
    <3>. QED
      BY <2>7, <3>1, <3>2, <3>3
  <2>10. PICK rest \in Seq(Byte) : Chained(rest)
    BY <1>0 DEF Streams
  <2>11. \E r \in Seq(Byte) : Framed(Contents(ring') \o r, Taken', sent')
                              /\ (MayPut' => r = InFlight' \o wire')
    BY <1>1, <2>2, <2>4, <2>8, <2>10 DEF Chained
  <2>. QED
    BY <1>0, <1>1, <2>2, <2>5, <2>8, <2>9, <2>11 DEF Streams, Chained
<1>. QED
  BY <1>4, <1>5


\* Joining stretches of bytes is associative.
LEMMA BytesAssociate == \A a, b, c \in Seq(Byte) : (a \o b) \o c = a \o (b \o c)
BY ConcatAssociative

\* Receiving and sending, and what idle threads take up.
LEMMA StreamsByteStep ==
    ASSUME IInv, Typed', OneReceiver',
           \/ \E t \in IoThreads : CompletedRecv(t) \/ RecvFailed(t)
           \/ \E t \in ProcThreads : DequeueProcess(t)
           \/ ~ownMode /\ AppCall("Unmarshall")
           \/ AppCall("Disconnect")
           \/ \E size \in Sizes : PeerSends(size)
           \/ \E n \in 0 .. IoBufSize : Receive(n)
    PROVE  Streams'
<1>0. /\ Typed /\ Planned /\ OneReceiver /\ Streams
      /\ ~ownMode => procQ = 0
      /\ <<>> \in Quiet /\ <<"Dispatch">> \in Taking /\ <<"Unmarshall">> # <<"Dispatch">>
      /\ <<>> \notin GapPlans /\ <<"Unmarshall">> \notin GapPlans
  BY DEF IInv, Planned, Quiet, Taking, GapPlans
<1>1. ASSUME NEW t \in Threads, NEW k \in PlansOf(t), Goto(t, k), UNCHANGED ownMode,
             ~ownMode => procQ' = 0, k # <<"Dispatch">>, todo[t] = <<>>
      PROVE  /\ \A u \in Threads : todo'[u] = <<"Dispatch">> <=> todo[u] = <<"Dispatch">>
             /\ \A u \in Threads : u # t => (Gap(u)' <=> Gap(u))
             /\ Gap(t)' <=> k \in GapPlans
             /\ ~Gap(t)
  <2>1. todo[t] # <<"Dispatch">>
    BY <1>0, <1>1, KindsDiffer
  <2>. QED
    BY <1>0, <1>1, <2>1, PlainMove DEF Gap
<1>2. /\ ring \in Rings /\ completed \in Seq(0 .. IoBufSize) /\ ioBuffer \in Seq(Byte)
      /\ wire \in Seq(Byte) /\ posted \in Nat /\ sent \in Seq(Seq(Byte))
      /\ Contents(ring) \in Seq(Byte)
  BY <1>0, ContentsIs DEF Typed
<1>3. PICK rest \in Seq(Byte) : Chained(rest)
  BY <1>0 DEF Streams
<1>4. ASSUME NEW t \in IoThreads, CompletedRecv(t) PROVE Streams'
  <2>1. /\ UNCHANGED <<ownMode, connected, procPending, posted, ioBuffer, wire, procQ, packet, sent,
                       dispatched>>
        /\ completed # <<>> /\ completed' = Tail(completed)
    BY <1>4, Zenon DEF CompletedRecv
  <2>2. t \in Threads /\ todo[t] = <<>>
    BY <1>0, <1>4, FirstPlan, ThreadsAre
  <2>3. PICK k \in PlansOf(t) :
            /\ Goto(t, k)
            /\ \/ /\ Head(completed) > 0 /\ CanPutData(ring, Head(completed))
                  /\ ring' = Put(ring, SubSeq(ioBuffer, 1, Head(completed)))
                  /\ recvPending' = FALSE /\ k \in Quiet
               \/ /\ k \in GapPlans
                  /\ UNCHANGED <<ring, recvPending>>
               \/ /\ Head(completed) = 0
                  /\ recvPending' = FALSE /\ k \in Quiet
                  /\ UNCHANGED ring
    BY <1>0, <1>4, <2>2, FirstPlan
  <2>4. k # <<"Dispatch">>
    BY <1>0, <2>3, KindsDiffer
  <2>5. /\ \A u \in Threads : todo'[u] = <<"Dispatch">> <=> todo[u] = <<"Dispatch">>
        /\ Gap(t)' <=> k \in GapPlans
    BY <1>0, <1>1, <2>1, <2>2, <2>3, <2>4
  <2>6. posted' = 0 /\ completed' = <<>>
    <3>1. Len(completed') = Len(completed) - 1 /\ Len(completed) > 0 /\ Len(completed) \in Nat
      BY <1>2, <2>1, EmptySeq, LenProperties, HeadTailProperties
    <3>2. posted + Len(completed) <= 1
      BY <1>0 DEF OneReceiver
    <3>3. \A m, n \in Nat : n > 0 /\ m + n <= 1 => n = 1 /\ m = 0
      OBVIOUS
    <3>4. Len(completed) = 1 /\ posted = 0
      BY <1>2, <3>1, <3>2, <3>3
    <3>5. completed' \in Seq(0 .. IoBufSize) /\ Len(completed') = 0
      BY <1>2, <2>1, <3>1, <3>4, HeadTailProperties
    <3>. QED
      BY <2>1, <3>4, <3>5, EmptySeq
  <2>7. /\ InHand' = InHand /\ Taken' = Taken /\ InFlight' = <<>>
    <3>1. InHand' = InHand
      BY <2>5 DEF InHand
    <3>. QED
      BY <2>1, <2>6, <3>1 DEF Taken, InFlight
  <2>8. /\ rest = ioBuffer \o wire /\ Len(ioBuffer) = Head(completed)
        /\ Framed(Contents(ring) \o rest, Taken, sent)
    BY <1>0, <1>3, <2>1 DEF Chained, MayPut, InFlight, Streams
  <2>9. <<>> \o wire = wire
    BY <1>2, ConcatEmptySeq
  <2>10. \E r \in Seq(Byte) : Framed(Contents(ring') \o r, Taken', sent')
                              /\ (MayPut' => r = InFlight' \o wire')
    <3>1. CASE /\ CanPutData(ring, Head(completed))
               /\ ring' = Put(ring, SubSeq(ioBuffer, 1, Head(completed)))
      <4>1. SubSeq(ioBuffer, 1, Head(completed)) = ioBuffer
        BY <1>2, <2>8, SubSeqFull
      <4>2. Contents(ring') = Contents(ring) \o ioBuffer
        BY <1>2, <2>8, <3>1, <4>1, PutAppends
      <4>3. \A a, b, c \in Seq(Byte) : (a \o b) \o c = a \o (b \o c)
        BY ConcatAssociative
      <4>4. Contents(ring') \o wire = Contents(ring) \o rest
        BY <1>2, <2>8, <4>2, <4>3
      <4>. QED
        BY <1>2, <2>1, <2>7, <2>8, <2>9, <4>4
    <3>2. CASE k \in GapPlans /\ UNCHANGED ring
      <4>1. ~MayPut'
        BY <2>2, <2>5, <2>6, <3>2 DEF MayPut
      <4>. QED
        BY <2>1, <2>7, <2>8, <3>2, <4>1
    <3>3. CASE Head(completed) = 0 /\ UNCHANGED ring
      <4>1. ioBuffer = <<>>
        BY <1>2, <2>8, <3>3, EmptySeq
      <4>. QED
        BY <1>2, <2>1, <2>7, <2>8, <2>9, <3>3, <4>1
    <3>. QED
      BY <2>3, <3>1, <3>2, <3>3
  <2>11. /\ \A u \in Threads : todo'[u] = <<"Dispatch">> => packet'[u] = sent'[Len(dispatched') + 1]
    BY <1>0, <2>1, <2>5 DEF Streams
  <2>. QED
    BY <1>0, <2>1, <2>6, <2>7, <2>10, <2>11 DEF Streams, Chained
<1>5. ASSUME NEW t \in IoThreads, RecvFailed(t) PROVE Streams'
  <2>1. /\ UNCHANGED <<ring, ownMode, completed, ioBuffer, wire, procQ, packet, sent, dispatched>>
        /\ posted > 0
    BY <1>5 DEF RecvFailed
  <2>2. t \in Threads /\ todo[t] = <<>> /\ \E k \in PlansOf(t) \cap Quiet : Goto(t, k)
    BY <1>0, <1>5, FirstPlan, ThreadsAre
  <2>3. PICK k \in PlansOf(t) : k \in Quiet /\ Goto(t, k)
    BY <2>2
  <2>4. k # <<"Dispatch">>
    BY <1>0, <2>3, KindsDiffer
  <2>5. \A u \in Threads : todo'[u] = <<"Dispatch">> <=> todo[u] = <<"Dispatch">>
    BY <1>0, <1>1, <2>1, <2>2, <2>3, <2>4
  <2>. QED
    BY <1>0, <2>1, <2>5, StreamKept DEF MayPut
<1>6. ASSUME NEW t \in ProcThreads, DequeueProcess(t) PROVE Streams'
  <2>1. UNCHANGED <<ring, ownMode, connected, posted, completed, ioBuffer, wire, packet, sent,
                    dispatched>>
    BY <1>6 DEF DequeueProcess, kernelVars
  <2>2. /\ t \in Threads /\ todo[t] = <<>> /\ ownMode /\ <<"Unmarshall">> \in PlansOf(t)
        /\ Goto(t, <<"Unmarshall">>)
    BY <1>0, <1>6, FirstPlan, ThreadsAre
  <2>3. /\ \A u \in Threads : todo'[u] = <<"Dispatch">> <=> todo[u] = <<"Dispatch">>
        /\ \A u \in Threads : Gap(u)' <=> Gap(u)
    BY <1>0, <1>1, <2>1, <2>2
  <2>4. MayPut' <=> MayPut
    BY <2>1, <2>3 DEF MayPut
  <2>. QED
    BY <1>0, <2>1, <2>3, <2>4, StreamKept
<1>7. ASSUME AppCall("Disconnect") \/ (~ownMode /\ AppCall("Unmarshall")) PROVE Streams'
  <2>1. UNCHANGED <<ring, ownMode, connected, posted, completed, ioBuffer, wire, procQ, packet, sent,
                    dispatched>>
    BY <1>7 DEF AppCall, kernelVars
  <2>2. /\ App \in Threads /\ todo[App] = <<>>
        /\ \E k \in PlansOf(App) : Goto(App, k) /\ k \in Quiet \cup {<<"Unmarshall">>}
    BY <1>0, <1>7, FirstPlan, ThreadsAre
  <2>3. PICK k \in PlansOf(App) : Goto(App, k) /\ k \in Quiet \cup {<<"Unmarshall">>}
    BY <2>2
  <2>4. k # <<"Dispatch">> /\ k \notin GapPlans
    BY <1>0, <2>3, KindsDiffer
  <2>5. /\ \A u \in Threads : todo'[u] = <<"Dispatch">> <=> todo[u] = <<"Dispatch">>
        /\ \A u \in Threads : Gap(u)' <=> Gap(u)
    BY <1>0, <1>1, <2>1, <2>2, <2>3, <2>4
  <2>6. MayPut' <=> MayPut
    BY <2>1, <2>5 DEF MayPut
  <2>. QED
    BY <1>0, <2>1, <2>5, <2>6, StreamKept
<1>8. ASSUME UNCHANGED <<todo, dispatched, packet, ring, connected>>
      PROVE  /\ InHand' = InHand /\ Taken' = Taken
             /\ \A u \in Threads : Gap(u)' <=> Gap(u)
  BY <1>8 DEF InHand, Taken, Gap
<1>9. ASSUME NEW size \in Sizes, PeerSends(size) PROVE Streams'
  <2>1. UNCHANGED <<ring, ownMode, connected, posted, completed, ioBuffer, todo, packet, dispatched>>
    BY <1>9 DEF PeerSends
  <2>2. PICK p \in Seq(Byte) : /\ WellFormed(p) /\ Len(sent) < MaxPackets
                               /\ sent' = Append(sent, p) /\ wire' = wire \o p
    BY <1>9, PeerSendsEffect
  <2>3. /\ Len(sent') = Len(sent) + 1 /\ Len(sent) \in Nat /\ sent'[Len(sent) + 1] = p
        /\ \A i \in 1 .. Len(sent) : sent'[i] = sent[i]
        /\ DOMAIN sent' = 1 .. Len(sent) + 1 /\ DOMAIN sent = 1 .. Len(sent)
    <3>1. sent' \in Seq(Seq(Byte))
      BY <1>2, <2>2, AppendProperties
    <3>. QED
      BY <1>2, <2>2, <3>1, AppendProperties, LenProperties
  <2>4. /\ InHand' = InHand /\ Taken' = Taken /\ InFlight' = InFlight /\ (MayPut' <=> MayPut)
    BY <1>8, <2>1 DEF InFlight, MayPut
  <2>5. /\ Taken \in Nat /\ Taken <= Len(sent) /\ Len(dispatched) \in Nat
        /\ InHand \in {0, 1} /\ Taken = Len(dispatched) + InHand
    <3>1. Len(dispatched) \in Nat
      BY <1>0, LenProperties DEF Typed
    <3>2. InHand \in {0, 1}
      BY DEF InHand
    <3>3. Taken = Len(dispatched) + InHand
      BY DEF Taken
    <3>4. Taken <= Len(sent)
      BY <1>0 DEF Streams
    <3>5. Taken \in Nat
      BY <3>1, <3>2, <3>3
    <3>. QED
      BY <3>1, <3>2, <3>3, <3>4, <3>5
  <2>6. /\ Framed((Contents(ring) \o rest) \o p, Taken, sent')
        /\ MayPut => rest = InFlight \o wire
    <3>1. Contents(ring) \o rest \in Seq(Byte)
      BY <1>2, <1>3, ConcatProperties
    <3>2. Framed(Contents(ring) \o rest, Taken, sent) /\ (MayPut => rest = InFlight \o wire)
      BY <1>3 DEF Chained
    <3>. QED
      BY <1>2, <2>2, <2>5, <3>1, <3>2, OneMorePacket
  <2>7. \E r \in Seq(Byte) : Framed(Contents(ring') \o r, Taken', sent')
                             /\ (MayPut' => r = InFlight' \o wire')
    <3>1. PICK r \in Seq(Byte) : r = rest \o p
      BY <1>3, <2>2, ConcatProperties
    <3>2. /\ Contents(ring) \in Seq(Byte) /\ rest \in Seq(Byte) /\ p \in Seq(Byte)
          /\ wire \in Seq(Byte)
      BY <1>2, <1>3, <2>2
    <3>3. Contents(ring) \o r = (Contents(ring) \o rest) \o p
      <4>1. (Contents(ring) \o rest) \o p = Contents(ring) \o (rest \o p)
        BY <3>2, BytesAssociate, Zenon
      <4>. QED
        BY <3>1, <4>1
    <3>4. InFlight \in Seq(Byte)
      BY <1>2, EmptySeq DEF InFlight
    <3>5. MayPut => r = InFlight \o (wire \o p)
      <4>1. (InFlight \o wire) \o p = InFlight \o (wire \o p)
        BY <3>2, <3>4, BytesAssociate, Zenon
      <4>. QED
        BY <2>6, <3>1, <4>1
    <3>. QED
      BY <2>1, <2>2, <2>4, <2>6, <3>3, <3>5
  <2>8. \A k \in DOMAIN sent' : WellFormed(sent'[k])
    BY <1>0, <2>2, <2>3 DEF Streams
  <2>9. \A i \in DOMAIN dispatched' : dispatched'[i] = sent'[i]
    <3>0. DOMAIN dispatched = 1 .. Len(dispatched)
      BY <1>0, LenProperties DEF Typed
    <3>2. Len(dispatched) <= Len(sent)
      BY <2>3, <2>5
    <3>1. \A i \in DOMAIN dispatched : i \in 1 .. Len(sent) /\ dispatched[i] = sent[i]
      BY <1>0, <2>3, <2>5, <3>0, <3>2 DEF Streams
    <3>. QED
      BY <2>1, <2>3, <3>1
  <2>10. \A u \in Threads : todo'[u] = <<"Dispatch">> => packet'[u] = sent'[Len(dispatched') + 1]
    <3>1. ASSUME NEW u \in Threads, todo[u] = <<"Dispatch">>
          PROVE  packet[u] = sent'[Len(dispatched) + 1]
      <4>1. InHand = 1
        BY <3>1 DEF InHand
      <4>2. Len(dispatched) + 1 \in 1 .. Len(sent)
        BY <2>3, <2>5, <4>1
      <4>. QED
        BY <1>0, <2>3, <3>1, <4>2 DEF Streams
    <3>. QED
      BY <2>1, <3>1
  <2>11. Len(sent') <= MaxPackets /\ Taken' <= Len(sent')
    BY <2>2, <2>3, <2>4, <2>5, RecvPathAssumption
  <2>12. completed' # <<>> => Len(ioBuffer') = Head(completed')
    BY <1>0, <2>1 DEF Streams
  <2>. QED
    BY <2>7, <2>8, <2>9, <2>10, <2>11, <2>12 DEF Streams, Chained
<1>10. ASSUME NEW n \in 0 .. IoBufSize, Receive(n) PROVE Streams'
  <2>1. /\ UNCHANGED <<ring, ownMode, connected, procQ, todo, packet, sent, dispatched>>
        /\ posted > 0 /\ n <= Len(wire) /\ ioBuffer' = SubSeq(wire, 1, n)
        /\ wire' = SubSeq(wire, n + 1, Len(wire)) /\ completed' = Append(completed, n)
    BY <1>10 DEF Receive
  <2>2. n \in 0 .. Len(wire) /\ Len(wire) \in Nat
    BY <1>2, <1>10, <2>1, RecvPathAssumption, LenProperties
  <2>3. completed = <<>>
    <3>1. Len(completed) \in Nat /\ posted + Len(completed) <= 1
      BY <1>0, <1>2, LenProperties DEF OneReceiver
    <3>2. Len(completed) = 0
      BY <1>2, <2>1, <3>1
    <3>. QED
      BY <1>2, <3>2, EmptySeq
  <2>4. completed' # <<>> /\ Head(completed') = n /\ Len(ioBuffer') = n
    <3>1. completed' # <<>> /\ Head(completed') = n
      BY <1>2, <1>10, <2>1, <2>3, HeadTailAppend, AppendProperties
    <3>2. Len(SubSeq(wire, 1, n)) = n
      BY <1>2, <2>2
    <3>. QED
      BY <2>1, <3>1, <3>2
  <2>5. InHand' = InHand /\ Taken' = Taken
    BY <1>8, <2>1
  <2>6. InFlight' \o wire' = InFlight \o wire
    <3>1. InFlight = <<>> /\ InFlight' = SubSeq(wire, 1, n)
      BY <2>1, <2>3, <2>4 DEF InFlight
    <3>2. SubSeq(wire, 1, n) \o SubSeq(wire, n + 1, Len(wire)) = SubSeq(wire, 1, Len(wire))
      BY <1>2, <2>2, Halves
    <3>3. SubSeq(wire, 1, Len(wire)) = wire /\ <<>> \o wire = wire
      BY <1>2, SubSeqFull, ConcatEmptySeq
    <3>. QED
      BY <2>1, <3>1, <3>2, <3>3
  <2>7. \E r \in Seq(Byte) : Framed(Contents(ring') \o r, Taken', sent')
                             /\ (MayPut' => r = InFlight' \o wire')
    <3>1. MayPut
      BY <2>1 DEF MayPut
    <3>. QED
      BY <1>3, <2>1, <2>5, <2>6, <3>1 DEF Chained
  <2>. QED
    BY <1>0, <2>1, <2>4, <2>5, <2>7 DEF Streams, Chained
<1>. QED
  BY <1>4, <1>5, <1>6, <1>7, <1>9, <1>10


------------------------------------------------------------------------------
(* The theorems                                                            *)

\* The invariant holds when the session begins to receive.
LEMMA IInvInit == Init => IInv
<1>. SUFFICES ASSUME Init PROVE IInv
  OBVIOUS
<1>1. 0 \in Byte /\ 0 \in Positions /\ MaxPackets \in Nat
  BY RecvPathAssumption, RingAssumption DEF Positions
<1>2. ring \in Rings /\ Contents(ring) = <<>>
  <2>1. ring \in Rings /\ ring.head = ring.tail
    BY <1>1 DEF Init, Rings
  <2>2. Contents(ring) \in Seq(Byte) /\ Len(Contents(ring)) = 0
    BY <2>1, ContentsIs, LengthBound
  <2>. QED
    BY <2>1, <2>2, EmptySeq
<1>3. /\ todo = [t \in Threads |-> IF t = Allocator THEN <<"PostRecv">> ELSE <<>>]
      /\ <<"PostRecv">> \in Quiet \cap RecvPlans /\ <<>> \in Quiet \cap RecvPlans
      /\ <<"PostRecv">> # <<"Dispatch">> /\ <<>> # <<"Dispatch">>
  BY DEF Init, Quiet, RecvPlans
<1>4. Planned
  <2>1. ASSUME NEW t \in Threads PROVE todo[t] \in PlansOf(t)
    <3>1. <<>> \in PlansOf(t)
      BY <1>3 DEF PlansOf, AppPlans, UserIoPlans, OwnIoPlans, OwnProcPlans
    <3>2. t = Allocator => <<"PostRecv">> \in PlansOf(t)
      BY <1>3 DEF PlansOf
    <3>. QED
      BY <1>3, <3>1, <3>2
  <2>2. todo \in [Threads -> Quiet \cup RecvHeld \cup ProcHeld \cup Taking]
    BY <1>3
  <2>. QED
    BY <2>1, <2>2 DEF Init, Planned
<1>5. \A t \in Threads : ~HoldsRecv(t) /\ ~HoldsProc(t) /\ todo[t] # <<"Dispatch">>
  <2>1. \A t \in Threads : todo[t] \in Quiet
    BY <1>3
  <2>2. Quiet \cap (RecvHeld \cup ProcHeld \cup Taking) = {} /\ <<"Dispatch">> \in Taking
    BY KindsDiffer DEF Taking
  <2>. QED
    BY <2>1, <2>2 DEF HoldsRecv, HoldsProc
<1>6. Typed
  <2>1. <<>> \in Seq(0 .. IoBufSize) /\ <<>> \in Seq(Byte) /\ <<>> \in Seq(Seq(Byte))
    BY EmptySeq
  <2>. QED
    BY <1>2, <2>1 DEF Init, Typed
<1>7. Len(<<>>) = 0 /\ DOMAIN <<>> = {}
  OBVIOUS
<1>8. OneReceiver /\ OneProcessor
  BY <1>5, <1>7 DEF Init, OneReceiver, OneProcessor
<1>9. Streams
  <2>1. sent = <<>> /\ dispatched = <<>> /\ completed = <<>> /\ wire = <<>> /\ Taken = 0
    BY <1>5, <1>7 DEF Init, Taken, InHand
  <2>2. Chained(<<>>)
    <3>1. <<>> \o <<>> = <<>>
      OBVIOUS
    <3>. QED
      BY <1>2, <2>1, <3>1, NothingFramed DEF Chained, InFlight
  <2>3. <<>> \in Seq(Byte)
    BY EmptySeq
  <2>4. Len(sent) = 0 /\ DOMAIN sent = {} /\ DOMAIN dispatched = {}
    BY <1>7, <2>1
  <2>5. Len(sent) <= MaxPackets /\ Taken <= Len(sent)
    BY <1>1, <2>1, <2>4
  <2>. QED
    BY <1>5, <2>1, <2>2, <2>3, <2>4, <2>5 DEF Streams
<1>. QED
  BY <1>4, <1>6, <1>8, <1>9 DEF IInv

\* Every step keeps the invariant.
LEMMA IInvNext == IInv /\ [Next]_vars => IInv'
<1>. SUFFICES ASSUME IInv, [Next]_vars PROVE IInv'
  OBVIOUS
<1>1. Typed' /\ Planned' /\ OneReceiver' /\ OneProcessor'
  BY TypeStep, ControlStep
<1>2. Streams'
  <2>1. ASSUME NEW t \in Threads, Run(t) PROVE Streams'
    BY <2>1, StreamsQuietStep, StreamsPacketStep, Zenon DEF Run
  <2>2. CASE \/ \E t \in IoThreads : CompletedRecv(t) \/ RecvFailed(t)
             \/ \E t \in ProcThreads : DequeueProcess(t)
             \/ ~ownMode /\ AppCall("Unmarshall")
             \/ AppCall("Disconnect")
             \/ \E size \in Sizes : PeerSends(size)
             \/ \E n \in 0 .. IoBufSize : Receive(n)
    BY <1>1, <2>2, StreamsByteStep, Zenon
  <2>3. CASE UNCHANGED vars
    <3>1. UNCHANGED <<ring, completed, ioBuffer, wire, packet, sent, dispatched, todo, posted, connected>>
      BY <2>3 DEF vars, kernelVars
    <3>2. MayPut' => MayPut
      BY <3>1 DEF MayPut, Gap
    <3>3. Streams
      BY DEF IInv
    <3>. QED
      BY <3>1, <3>2, <3>3, StreamKept
  <2>4. CASE Arrival \/ Receive(0)
    <3>1. 1 .. IoBufSize \subseteq 0 .. IoBufSize /\ 0 \in 0 .. IoBufSize
      BY RecvPathAssumption
    <3>2. \E n \in 0 .. IoBufSize : Receive(n)
      BY <2>4, <3>1, Zenon DEF Arrival
    <3>. QED
      BY <2>2, <3>2
  <2>. QED
    BY <2>1, <2>2, <2>3, <2>4, Zenon DEF Next
<1>. QED
  BY <1>1, <1>2 DEF IInv

\* The invariant from which the theorems follow.
THEOREM RecvPathInvariant == Spec => []IInv
BY IInvInit, IInvNext, PTL DEF Spec

\* Type correctness: the positions of the ring stay inside the array, and every
\* thread has steps of the code left to do.
THEOREM RecvPathTyped == Spec => []RecvTypeOK
<1>1. IInv => RecvTypeOK
  <2>. SUFFICES ASSUME IInv PROVE RecvTypeOK
    OBVIOUS
  <2>1. todo \in [Threads -> Seq(Ops)]
    BY PlansAreSteps DEF IInv, Planned
  <2>. QED
    BY <2>1 DEF IInv, Typed, RecvTypeOK
<1>. QED
  BY <1>1, RecvPathInvariant, PTL

\* OnDispatch sees the packets whole, once each and in order, for buffers of any
\* size, any number of threads of either kind and packets of any size, wherever
\* the receives cut the stream.
THEOREM FramesAreExact == Spec => []FramesExact
<1>1. IInv => FramesExact
  <2>. SUFFICES ASSUME IInv PROVE FramesExact
    OBVIOUS
  <2>1. Streams /\ Len(dispatched) \in Nat /\ Len(sent) \in Nat
    BY LenProperties DEF IInv, Typed
  <2>2. Len(dispatched) <= Len(sent)
    BY <2>1 DEF Streams, Taken, InHand
  <2>. QED
    BY <2>1, <2>2 DEF Streams, FramesExact
<1>. QED
  BY <1>1, RecvPathInvariant, PTL


==============================================================================
