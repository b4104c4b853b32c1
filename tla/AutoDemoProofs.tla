----------------------------- MODULE AutoDemoProofs -----------------------------
(***************************************************************************)
(* Proofs about AutoDemo for any number of launches and commands.          *)
(*                                                                         *)
(* A user who is not rash and the demo together never have two launches    *)
(* under way: the window lets Launch be clicked only after it has handled  *)
(* the end of the last one.  A demo nobody interferes with makes one       *)
(* launch, and what it posts comes in order.                               *)
(***************************************************************************)
EXTENDS AutoDemo, SequenceTheorems, TLAPS

Calm == OneAtATime /\ LastIsKnown

-----------------------------------------------------------------------------
(* Types, and the order of what the demo posts.                            *)

\* The sequences of callbacks, and what comes and goes at their ends.
LEMMA PostedFacts ==
  /\ Append(<<>>, "start") = <<"start">> /\ Append(<<>>, "stop") = <<"stop">>
  /\ Append(<<"start">>, "stop") = <<"start", "stop">>
  /\ Tail(<<"start">>) = <<>> /\ Tail(<<"stop">>) = <<>>
  /\ Tail(<<"start", "stop">>) = <<"stop">>
  /\ <<"start">>[1] = "start" /\ <<"stop">>[1] = "stop" /\ <<"start", "stop">>[1] = "start"
  /\ <<"start">> # <<>> /\ <<"stop">> # <<>> /\ <<"start", "stop">> # <<>>
  /\ <<"start">> # <<"stop">> /\ <<"start">> # <<"start", "stop">>
  /\ <<"stop">> # <<"start", "stop">>
<1> DEFINE S == {"start", "stop"}
           one(x) == <<x>>
           both == <<"start", "stop">>
<1>1. ASSUME NEW x \in S
      PROVE  one(x) \in Seq(S) /\ Len(one(x)) = 1 /\ one(x)[1] = x
      OBVIOUS
<1>2. both \in Seq(S) /\ Len(both) = 2 /\ both[1] = "start" /\ both[2] = "stop"
      OBVIOUS
<1> HIDE DEF S
<1>3. ASSUME NEW x \in S
      PROVE  Append(<<>>, x) = one(x)
  <2> DEFINE s == Append(<<>>, x)
  <2>1. s \in Seq(S) /\ Len(s) = 1 /\ s[1] = x
        BY EmptySeq, AppendProperties
  <2> HIDE DEF s, one
  <2>2. s = one(x)
        BY <1>1, <2>1, SeqEqual
  <2> QED BY <2>2 DEF s
<1>4. Append(one("start"), "stop") = both
  <2> DEFINE s == Append(one("start"), "stop")
  <2>1. "start" \in S /\ "stop" \in S
        BY DEF S
  <2> HIDE DEF one
  <2>2. s \in Seq(S) /\ Len(s) = 2 /\ s[1] = "start" /\ s[2] = "stop"
        BY <1>1, <2>1, AppendProperties
  <2> HIDE DEF s, both
  <2>3. s = both
        BY <1>2, <2>2, SeqEqual
  <2> QED BY <2>3 DEF s
<1>5. Tail(<<"start">>) = <<>> /\ Tail(<<"stop">>) = <<>>
      OBVIOUS
<1>6. Tail(<<"start", "stop">>) = <<"stop">>
      OBVIOUS
<1>7. <<"start">> # <<>> /\ <<"stop">> # <<>> /\ <<"start", "stop">> # <<>>
      OBVIOUS
<1>8. <<"start">>[1] = "start" /\ <<"stop">>[1] = "stop" /\ <<"start", "stop">>[1] = "start"
      OBVIOUS
<1>9. <<"start">> # <<"stop">> /\ <<"start">> # <<"start", "stop">>
      /\ <<"stop">> # <<"start", "stop">>
      OBVIOUS
<1> QED BY <1>3, <1>4, <1>5, <1>6, <1>7, <1>8, <1>9 DEF S

\* A thread that goes on is the only one that does.
LEMMA GotoFacts ==
  ASSUME TypeOK, NEW t \in Launch, NEW pc \in ReaderPc, Goto(t, pc)
  PROVE  /\ DOMAIN reader' = Launch
         /\ reader'[t].pc = pc
         /\ \A s \in Launch : s # t => reader'[s] = reader[s]
         /\ \A s \in Launch : reader'[s].pc \in ReaderPc
BY DEF TypeOK, Goto

\* What a launch leaves in the window and the flags (_start).
LEMMA StartTypes ==
  ASSUME TypeOK, Start
  PROVE  /\ DOMAIN reader' = Launch /\ (\A t \in Launch : reader'[t].pc \in ReaderPc)
         /\ launches' \in Nat /\ running' = TRUE /\ shown' = "booting"
         /\ enabled' = {"stop", "restart"}
         /\ UNCHANGED <<boot, proc, queue, after, target, alive, demo>>
BY DEF TypeOK, Start, Goto, ReaderPc

\* What a stop, whatever comes after it, leaves there (_stop).
LEMMA StopTypes ==
  ASSUME TypeOK, NEW next \in {"stop", "restart", "close"}, Stop(next)
  PROVE  /\ ui' \in {"free", "wait", "sleep", "closed"} /\ after' = next
         /\ running' \in BOOLEAN
         /\ UNCHANGED <<boot, proc, queue, enabled, shown, demo, reader, alive, launches>>
BY DEF TypeOK, Stop, Then

DemoPc == {"nap", "boot", "send", "write", "done"}
DemoState == [pc : DemoPc, left : Int]

\* How the demo's thread moves on.
LEMMA DemoMoves ==
  ASSUME NEW d \in DemoState, NEW pc \in DemoPc
  PROVE  /\ [d EXCEPT !.pc = pc] \in DemoState
         /\ [d EXCEPT !.left = @ - 1] \in DemoState
         /\ [d EXCEPT !.pc = pc, !.left = @ - 1] \in DemoState
<1>1. d.left - 1 \in Int
      BY DEF DemoState
<1> QED BY <1>1 DEF DemoState

\* Every step keeps the types.
LEMMA NextTypeOK == TypeOK /\ DemoInOrder /\ [Next]_vars => TypeOK'
<1> SUFFICES ASSUME TypeOK, DemoInOrder, [Next]_vars
             PROVE  TypeOK'
    OBVIOUS
<1> USE DEF ReaderPc
<1>1. ASSUME NEW t \in Launch, Thread(t)
      PROVE  TypeOK'
  <2>1. /\ boot' = boot /\ enabled' = enabled /\ shown' = shown /\ ui' = ui /\ after' = after
        /\ posted' = posted /\ demo' = demo /\ launches' = launches
        /\ touched' = touched /\ rash' = rash
        BY <1>1 DEF Thread, Popen, Assign, PopenFails, ReadLine, LoopEnds, GetLine, GetNothing,
                    Ends, Apart, window, shared
  <2>2. running' = running /\ proc' \in Launch \cup {0} /\ alive' \subseteq Launch
        BY <1>1 DEF TypeOK, Thread, Popen, Assign, PopenFails, ReadLine, LoopEnds, GetLine,
                    GetNothing, Ends, shared
  <2>3. queue' \in Seq({"lobster>", "__DONE__"})
    <3>1. queue' \in {queue, Append(queue, "lobster>"), Append(queue, "__DONE__")}
          BY <1>1 DEF Thread, Popen, Assign, PopenFails, ReadLine, LoopEnds, GetLine,
                      GetNothing, Ends
    <3>2. queue \in Seq({"lobster>", "__DONE__"})
          BY DEF TypeOK
    <3> QED BY <3>1, <3>2, AppendProperties
  <2>4. DOMAIN reader' = Launch /\ \A s \in Launch : reader'[s].pc \in ReaderPc
    <3>1. CASE \E pc \in ReaderPc : Goto(t, pc)
          BY <3>1, GotoFacts
    <3>2. CASE ReadLine(t)
          BY <3>2 DEF ReadLine, TypeOK
    <3> QED BY <1>1, <3>1, <3>2 DEF Thread, Popen, Assign, PopenFails, LoopEnds, GetLine,
                                    GetNothing, Ends
  <2> QED BY <2>1, <2>2, <2>3, <2>4 DEF TypeOK
<1>2. ASSUME NEW q \in Launch, QemuExits(q)
      PROVE  TypeOK'
      BY <1>2 DEF QemuExits, TypeOK, shared, window
<1>3. CASE PollOutput
  <2>1. queue' \in Seq({"lobster>", "__DONE__"})
        BY <1>3 DEF PollOutput, TypeOK
  <2>2. Handle(queue[1]) =>
          /\ running' \in BOOLEAN /\ boot' \in BOOLEAN /\ enabled' \subseteq Button
          /\ shown' \in {"ready", "booting", "stopped"}
        BY DEF Handle, OnEnded, OnPrompt, TypeOK, Button
  <2> QED BY <1>3, <2>1, <2>2 DEF PollOutput, TypeOK
<1>4. CASE Start /\ ui' \in {"free", "wait", "sleep", "closed"} /\ posted' \in {posted, Tail(posted)}
           /\ posted' \in {<<>>, <<"start">>, <<"stop">>, <<"start", "stop">>}
           /\ touched' \in BOOLEAN /\ rash' \in BOOLEAN
      BY <1>4, StartTypes DEF TypeOK, Button
<1>5. ASSUME NEW next \in {"stop", "restart", "close"}, Stop(next),
             posted' \in {<<>>, <<"start">>, <<"stop">>, <<"start", "stop">>},
             touched' \in BOOLEAN, rash' \in BOOLEAN
      PROVE  TypeOK'
      BY <1>5, StopTypes DEF TypeOK
<1>6. ASSUME NEW b \in {"launch", "stop", "restart", "close"}, Click(b)
      PROVE  /\ posted' \in {<<>>, <<"start">>, <<"stop">>, <<"start", "stop">>}
             /\ touched' \in BOOLEAN /\ rash' \in BOOLEAN
  <2>1. rash' \in BOOLEAN
        BY <1>6, Zenon DEF Click, TypeOK
  <2> QED BY <1>6, <2>1 DEF Click, TypeOK
<1>7. CASE ClickLaunch
      BY <1>4, <1>6, <1>7 DEF ClickLaunch, Click, TypeOK
<1>8. CASE ClickStop \/ ClickRestart \/ Close
      BY <1>5, <1>6, <1>8 DEF ClickStop, ClickRestart, Close
<1>9. CASE Stopped
      BY <1>9 DEF Stopped, TypeOK, Then, shared
<1>10. CASE Relaunch
       BY <1>4, <1>10 DEF Relaunch, TypeOK
<1>11. posted # <<>> => Tail(posted) \in {<<>>, <<"stop">>}
       BY PostedFacts DEF TypeOK
<1>12. CASE RunStart
       BY <1>4, <1>11, <1>12 DEF RunStart, TypeOK
<1>13. CASE RunStop
  <2>1. touched' \in BOOLEAN
        BY <1>13, Zenon DEF RunStop, TypeOK
  <2> QED BY <1>5, <1>11, <1>13, <2>1 DEF RunStop, TypeOK
<1>14. CASE UNCHANGED vars
       BY <1>14 DEF vars, shared, window, TypeOK
<1>15. CASE Demo
  <2>1. demo' \in DemoState
    <3>1. demo \in DemoState
          BY DEF DemoState, DemoPc, TypeOK
    <3>2. CASE PostStart
          BY <3>1, <3>2, DemoMoves DEF PostStart, DemoPc
    <3>3. CASE WaitForBoot
          BY <3>1, <3>3, DemoMoves DEF WaitForBoot, DemoPc
    <3>4. CASE CheckProc
          BY <3>1, <3>4, DemoMoves DEF CheckProc, DemoPc
    <3>5. CASE Write
          BY <3>1, <3>5, DemoMoves DEF Write, DemoPc
    <3>6. CASE PostStop
          BY <3>1, <3>6, DemoMoves DEF PostStop, DemoPc
    <3> QED BY <1>15, <3>2, <3>3, <3>4, <3>5, <3>6 DEF Demo
  <2>2. posted' \in {<<>>, <<"start">>, <<"stop">>, <<"start", "stop">>}
    <3>1. CASE PostStart
          BY <3>1, PostedFacts DEF PostStart, In, DemoInOrder
    <3>2. CASE PostStop
          BY <3>2, PostedFacts DEF PostStop, In, DemoInOrder
    <3>3. CASE UNCHANGED posted
          BY <3>3 DEF TypeOK
    <3> QED BY <1>15, <3>1, <3>2, <3>3 DEF Demo, WaitForBoot, CheckProc, Write
  <2>3. UNCHANGED <<shared, queue, window, reader, alive, launches, touched, rash>>
        BY <1>15 DEF Demo, PostStart, WaitForBoot, CheckProc, Write, PostStop, Alone
  <2> QED BY <2>1, <2>2, <2>3 DEF TypeOK, DemoState, DemoPc, shared, window
<1> QED BY <1>1, <1>2, <1>3, <1>7, <1>8, <1>9, <1>10, <1>12, <1>13, <1>14, <1>15
        DEF Next

\* The demo's steps keep the order of what it posts, and the window takes the
\* first of it.
LEMMA NextInOrder == TypeOK /\ DemoInOrder /\ [Next]_vars => DemoInOrder'
<1> SUFFICES ASSUME TypeOK, DemoInOrder, [Next]_vars
             PROVE  DemoInOrder'
    OBVIOUS
<1>1. CASE UNCHANGED <<posted, demo>> /\ (launches' = launches \/ launches' = launches + 1)
      BY <1>1 DEF DemoInOrder, Coming, TypeOK
<1>2. CASE RunStart
  <2>1. posted \in {<<"start">>, <<"start", "stop">>} /\ posted' = Tail(posted)
        /\ demo' = demo /\ launches' = launches + 1
        BY <1>2, PostedFacts DEF RunStart, Start, TypeOK
  <2>2. demo.pc # "nap" /\ launches' # 0
        BY <2>1, PostedFacts DEF DemoInOrder, TypeOK
  <2>3. demo.pc # "done" => posted' = <<>>
        BY <2>1, PostedFacts DEF DemoInOrder
  <2> QED BY <2>1, <2>2, <2>3 DEF DemoInOrder
<1>3. CASE RunStop
  <2>1. posted = <<"stop">> /\ posted' = <<>> /\ UNCHANGED <<demo, launches>>
        BY <1>3, PostedFacts DEF RunStop, Stop, TypeOK
  <2> QED BY <2>1, PostedFacts DEF DemoInOrder, Coming
<1>4. CASE PostStart
      BY <1>4, PostedFacts DEF PostStart, In, Alone, DemoInOrder, Coming, TypeOK
<1>5. CASE WaitForBoot \/ CheckProc \/ Write
  <2>1. posted' = posted /\ launches' = launches /\ demo.pc # "nap" /\ demo.pc # "done"
        /\ demo'.pc # "nap"
        BY <1>5 DEF WaitForBoot, CheckProc, Write, In, Alone, TypeOK
  <2> QED BY <2>1 DEF DemoInOrder, Coming
<1>6. CASE PostStop
      BY <1>6, PostedFacts DEF PostStop, In, Alone, DemoInOrder, Coming, TypeOK
<1>7. CASE \/ \E t \in Launch : Thread(t) \/ QemuExits(t)
           \/ PollOutput \/ ClickStop \/ ClickRestart \/ Close \/ Stopped \/ UNCHANGED vars
  <2>1. UNCHANGED <<posted, demo, launches>>
        BY <1>7 DEF Thread, Popen, Assign, PopenFails, ReadLine, LoopEnds, GetLine, GetNothing,
           Ends, Apart, QemuExits, PollOutput, ClickStop, ClickRestart, Close, Click, Stop,
           Stopped, vars
  <2> QED BY <1>1, <2>1
<1>8. CASE ClickLaunch \/ Relaunch
      BY <1>1, <1>8 DEF ClickLaunch, Relaunch, Click, Start
<1> QED BY <1>2, <1>3, <1>4, <1>5, <1>6, <1>7, <1>8 DEF Next, Demo

-----------------------------------------------------------------------------
(* One launch at a time.                                                   *)

\* A thread that has something to do is that of the last launch.
LEMMA OnlyLast ==
  ASSUME TypeOK, OneAtATime, NEW t \in Launch, reader[t].pc \notin {"none", "done"}
  PROVE  t = launches /\ Last = reader[t].pc /\ launches > 0
BY DEF OneAtATime, Last, TypeOK, Launch

\* The other way round.
LEMMA LastOf ==
  ASSUME TypeOK, OneAtATime
  PROVE  /\ launches > 0 => launches \in Launch /\ Last = reader[launches].pc
         /\ launches = 0 => Last = "none"
         /\ Starting <=> Last \in {"start", "made"}
<1>1. launches > 0 => launches \in Launch
      BY DEF OneAtATime, TypeOK, Launch
<1>2. 0 \notin Launch
      BY DEF Launch
<1> QED BY <1>1, <1>2, OnlyLast DEF Last, Starting, TypeOK

\* When that thread goes on, the last launch is where it is.
LEMMA LastGoes ==
  ASSUME TypeOK, OneAtATime, NEW t \in Launch, NEW pc \in ReaderPc,
         reader[t].pc \notin {"none", "done"}, Goto(t, pc), launches' = launches
  PROVE  /\ Last' = pc
         /\ \A s \in Launch : s # launches' => reader'[s].pc \in {"none", "done"}
<1>1. t = launches
      BY OnlyLast
<1>2. reader'[t].pc = pc /\ \A s \in Launch : s # t => reader'[s] = reader[s]
      BY GotoFacts
<1> QED BY <1>1, <1>2 DEF Last, OneAtATime

\* The thread of a launch leaves the other threads and the window alone.
LEMMA ThreadCalm ==
  ASSUME TypeOK, Calm, NEW t \in Launch, Thread(t)
  PROVE  /\ Calm'
         /\ Last \in {"loop", "line", "done"} =>
              Last' \in {"loop", "line", "done"} /\ alive' = alive
         /\ UNCHANGED <<ui, posted, demo, launches, rash>>
<1> USE DEF Calm
<1> DEFINE GoesOn == Last \in {"loop", "line", "done"} =>
                       Last' \in {"loop", "line", "done"} /\ alive' = alive
<1>1. UNCHANGED <<running, boot, enabled, shown, ui, after, posted, demo, launches, rash, touched>>
      BY DEF Thread, Popen, Assign, PopenFails, ReadLine, LoopEnds, GetLine, GetNothing,
             Ends, Apart, window, shared
<1>2. reader[t].pc \notin {"none", "done"}
      BY DEF Thread, Popen, Assign, PopenFails, ReadLine, LoopEnds, GetLine, GetNothing, At
<1>3. t = launches /\ Last = reader[t].pc /\ launches > 0
      BY <1>2, OnlyLast
<1>4. \A i \in DOMAIN queue : queue[i] # "__DONE__"
      BY <1>2, <1>3 DEF OneAtATime
<1>5. shown = "booting" /\ (Coming' <=> Coming)
      BY <1>1, <1>2, <1>3 DEF OneAtATime, TypeOK, Coming
<1>6. CASE Popen(t)
  <2>1. /\ Last = "start" /\ Last' = "made" /\ alive' = alive \cup {t}
        /\ UNCHANGED <<proc, queue>>
        /\ \A s \in Launch : s # launches' => reader'[s].pc \in {"none", "done"}
        BY <1>1, <1>2, <1>3, <1>6, LastGoes DEF Popen, At, ReaderPc, shared
  <2> QED BY <1>1, <1>3, <1>4, <1>5, <2>1 DEF OneAtATime, LastIsKnown
<1>7. CASE Assign(t)
  <2>1. /\ Last = "made" /\ Last' = "loop" /\ proc' = t
        /\ UNCHANGED <<alive, queue>>
        /\ \A s \in Launch : s # launches' => reader'[s].pc \in {"none", "done"}
        BY <1>1, <1>2, <1>3, <1>7, LastGoes DEF Assign, At, ReaderPc
  <2> QED BY <1>1, <1>3, <1>4, <1>5, <2>1 DEF OneAtATime, LastIsKnown, TypeOK
<1>8. ASSUME Ends(t), Last # "made", Last \in {"loop", "line"} => alive = {} \/ ui = "wait"
      PROVE  Calm' /\ GoesOn
  <2>1. /\ Last' = "done" /\ queue' = Append(queue, "__DONE__")
        /\ UNCHANGED <<alive, proc>>
        /\ \A s \in Launch : s # launches' => reader'[s].pc \in {"none", "done"}
        BY <1>1, <1>2, <1>3, <1>8, LastGoes DEF Ends, ReaderPc, shared
  <2>2. \A i \in DOMAIN queue' : queue'[i] = "__DONE__" => i = Len(queue')
        BY <1>4, <2>1 DEF TypeOK
  <2>3. alive = {} \/ ui = "wait"
        BY <1>2, <1>3, <1>8 DEF LastIsKnown, TypeOK, ReaderPc
  <2> QED BY <1>1, <1>3, <1>5, <2>1, <2>2, <2>3 DEF OneAtATime, LastIsKnown
<1>9. CASE PopenFails(t)
      BY <1>1, <1>3, <1>8, <1>9 DEF PopenFails, At
<1>10. CASE LoopEnds(t)
       BY <1>1, <1>3, <1>8, <1>10 DEF LoopEnds, LoopGoesOn, At, OneAtATime, LastIsKnown
<1>11. CASE GetNothing(t)
       BY <1>1, <1>3, <1>8, <1>11 DEF GetNothing, At, OneAtATime, LastIsKnown
<1>12. CASE ReadLine(t)
  <2>1. /\ Last = "loop" /\ UNCHANGED <<proc, queue, alive>>
        BY <1>3, <1>12 DEF ReadLine, At, shared
  <2>2. /\ reader'[t].pc = "line" /\ reader'[t].on = proc
        /\ \A s \in Launch : s # t => reader'[s] = reader[s]
        BY <1>12 DEF ReadLine, TypeOK
  <2>3. Last' = "line" /\ \A s \in Launch : s # launches' => reader'[s].pc \in {"none", "done"}
        BY <1>1, <1>3, <2>2 DEF Last, OneAtATime
  <2> QED BY <1>1, <1>3, <1>4, <1>5, <2>1, <2>2, <2>3 DEF OneAtATime, LastIsKnown
<1>13. CASE GetLine(t)
  <2>1. /\ Last = "line" /\ Last' = "loop" /\ UNCHANGED <<proc, alive>>
        /\ \A s \in Launch : s # launches' => reader'[s].pc \in {"none", "done"}
        BY <1>1, <1>2, <1>3, <1>13, LastGoes DEF GetLine, At, ReaderPc, shared
  <2>2. \A i \in DOMAIN queue' : queue'[i] # "__DONE__"
        BY <1>4, <1>13 DEF GetLine, TypeOK
  <2> QED BY <1>1, <1>3, <1>4, <1>5, <2>1, <2>2 DEF OneAtATime, LastIsKnown
<1> QED BY <1>1, <1>6, <1>7, <1>9, <1>10, <1>11, <1>12, <1>13 DEF Thread

\* A launch while the last one, if there was one, has ended and its end was handled.
LEMMA StartCalm ==
  ASSUME TypeOK, DemoInOrder, Calm, Start, shown # "booting", launches < MaxLaunch, alive = {},
         ui = "free", ui' = "free", Coming' => launches' = 0
  PROVE  Calm' /\ Last' = "start" /\ launches' > 0
<1> USE DEF Calm
<1>1. launches' = launches + 1 /\ launches' \in Launch
      BY DemoBounds DEF Start, TypeOK, Launch
<1>2. Last \in {"none", "done"}
      BY LastOf DEF OneAtATime, TypeOK
<1>3. \A s \in Launch : reader[s].pc \in {"none", "done"}
      BY <1>2, LastOf DEF OneAtATime, TypeOK, Launch
<1>4. Goto(launches', "start")
      BY <1>1 DEF Start
<1>5. reader'[launches'].pc = "start" /\ \A s \in Launch : s # launches' => reader'[s] = reader[s]
      BY <1>1, <1>4 DEF Goto, TypeOK
<1>6. /\ running' = TRUE /\ shown' = "booting" /\ enabled' = {"stop", "restart"}
      /\ UNCHANGED <<boot, proc, queue, after, target, alive, demo>>
      BY DEF Start
<1>7. Last' = "start"
      BY <1>1, <1>5 DEF Last
<1>8. \A i \in DOMAIN queue : queue[i] # "__DONE__"
      BY DEF OneAtATime
<1>9. proc' <= launches' /\ proc' # launches' /\ launches' <= MaxLaunch /\ launches' > 0
      BY <1>1, <1>6, DemoBounds DEF OneAtATime, TypeOK, Launch
<1>10. OneAtATime'
       BY <1>1, <1>3, <1>5, <1>6, <1>7, <1>8, <1>9 DEF OneAtATime
<1>11. LastIsKnown'
       BY <1>6, <1>7, <1>9 DEF LastIsKnown
<1> QED BY <1>7, <1>9, <1>10, <1>11

\* When the window does not say "Booting" and waits for nothing, no QEMU runs.
LEMMA NothingRuns ==
  ASSUME TypeOK, Calm, shown # "booting", ui = "free"
  PROVE  alive = {}
<1>1. CASE shown = "stopped"
      BY <1>1 DEF Calm, OneAtATime, LastIsKnown
<1>2. CASE shown = "ready"
      BY <1>2 DEF Calm, OneAtATime, TypeOK, Launch
<1> QED BY <1>1, <1>2 DEF TypeOK

\* The window begins to wait only for the last QEMU, once it is proc.
LEMMA StopCalm ==
  ASSUME TypeOK, Calm, ui = "free", NEW next \in {"stop", "close"}, Stop(next),
         Coming' => Coming
  PROVE  /\ Calm' /\ Last' = Last
         /\ UNCHANGED <<demo, launches, alive>>
         /\ Last \in {"loop", "line", "done"} => alive = {} \/ ui' = "wait"
<1> USE DEF Calm
<1>1. /\ after' = next
      /\ UNCHANGED <<boot, proc, queue, enabled, shown, demo, reader, alive, launches>>
      BY DEF Stop
<1>2. Last' = Last
      BY <1>1 DEF Last
<1>3. CASE proc \in alive
  <2>1. running' = FALSE /\ ui' = "wait" /\ proc = launches
        BY <1>3 DEF Stop, OneAtATime
  <2>2. launches \in Launch /\ launches > 0
        BY <1>3, <2>1 DEF TypeOK, Launch
  <2>3. Last \in ReaderPc
        BY <2>2 DEF TypeOK, Last
  <2>4. Last \in {"loop", "line"}
        BY <1>3, <2>1, <2>2, <2>3 DEF OneAtATime, LastIsKnown, ReaderPc
  <2> QED BY <1>1, <1>2, <2>1, <2>4 DEF OneAtATime, LastIsKnown
<1>4. CASE proc \notin alive
  <2>1. running' = running /\ ui' \in {"free", "closed"}
        BY <1>4 DEF Stop, Then
  <2>2. Last \in {"loop", "line", "done"} => alive = {}
        BY <1>4 DEF OneAtATime, LastIsKnown
  <2> QED BY <1>1, <1>2, <2>1, <2>2 DEF OneAtATime, LastIsKnown
<1> QED BY <1>3, <1>4

\* As long as the user is not rash, one launch is under way at a time.
LEMMA NextCalm ==
  TypeOK /\ DemoInOrder /\ (~rash => Calm) /\ [Next]_vars => (~rash' => Calm')
<1> SUFFICES ASSUME TypeOK, DemoInOrder, ~rash => Calm, [Next]_vars, ~rash'
             PROVE  Calm'
    OBVIOUS
<1>1. ~rash
      BY DEF Next, Thread, Popen, Assign, PopenFails, ReadLine, LoopEnds, GetLine, GetNothing,
             Ends, Apart, QemuExits, PollOutput, ClickLaunch, ClickStop, ClickRestart, Close,
             Click, Stopped, Relaunch, RunStart, RunStop, Demo, PostStart, WaitForBoot,
             CheckProc, Write, PostStop, Alone, vars
<1>2. Calm
      BY <1>1
<1>3. ASSUME NEW t \in Launch, Thread(t)
      PROVE  Calm'
      BY <1>2, <1>3, ThreadCalm
<1>4. ASSUME NEW q \in Launch, QemuExits(q)
      PROVE  Calm'
  <2>1. /\ UNCHANGED <<shared, queue, window, posted, demo, reader, launches>>
        /\ alive' \subseteq alive
        BY <1>4 DEF QemuExits
  <2>2. Last' = Last /\ (Coming' <=> Coming)
        BY <2>1 DEF Last, Coming
  <2> QED BY <1>2, <2>1, <2>2 DEF Calm, OneAtATime, LastIsKnown, shared, window
<1>5. CASE PollOutput
  <2>1. /\ ui = "free" /\ queue # <<>> /\ queue' = Tail(queue)
        /\ UNCHANGED <<proc, ui, after, target, posted, demo, reader, alive, launches>>
        BY <1>5 DEF PollOutput
  <2>2. Last' = Last /\ (Coming' <=> Coming) /\ launches > 0
        BY <1>2, <2>1 DEF Last, Coming, Calm, OneAtATime, TypeOK
  <2>3. CASE queue[1] = "__DONE__"
    <3>1. running' = FALSE /\ shown' = "stopped" /\ enabled' = {"launch"}
          BY <1>5, <2>3 DEF PollOutput, Handle, OnEnded
    <3>2. 1 \in DOMAIN queue
          BY <2>1 DEF TypeOK
    <3>3. Last = "done" /\ Len(queue) = 1
          BY <1>2, <2>3, <3>2 DEF Calm, OneAtATime
    <3>4. \A i \in DOMAIN queue' : FALSE
          BY <2>1, <3>3 DEF TypeOK
    <3> QED BY <1>2, <2>1, <2>2, <3>1, <3>3, <3>4 DEF Calm, OneAtATime, LastIsKnown
  <2>4. CASE queue[1] # "__DONE__"
    <3>1. UNCHANGED <<running, shown, enabled>>
          BY <1>5, <2>4 DEF PollOutput, Handle, OnPrompt
    <3>2. \A i \in DOMAIN queue' :
            queue'[i] = "__DONE__" => i = Len(queue') /\ shown = "booting" /\ Last = "done"
      <4> SUFFICES ASSUME NEW i \in DOMAIN queue', queue'[i] = "__DONE__"
                   PROVE  i = Len(queue') /\ shown = "booting" /\ Last = "done"
          OBVIOUS
      <4>1. i + 1 \in DOMAIN queue /\ queue'[i] = queue[i + 1] /\ Len(queue') = Len(queue) - 1
            BY <2>1 DEF TypeOK
      <4> QED BY <1>2, <4>1 DEF Calm, OneAtATime, TypeOK
    <3> QED BY <1>2, <2>1, <2>2, <3>1, <3>2 DEF Calm, OneAtATime, LastIsKnown
  <2> QED BY <2>3, <2>4
<1>6. CASE ClickLaunch
  <2>1. /\ ui = "free" /\ ui' = "free" /\ "launch" \in enabled /\ Start
        /\ demo.pc # "nap" /\ posted = <<>> /\ posted' = posted
        BY <1>6, Zenon DEF ClickLaunch, Click
  <2>2. shown # "booting"
        BY <1>2, <2>1 DEF Calm, OneAtATime
  <2>3. launches < MaxLaunch
        BY <1>6, DemoBounds DEF ClickLaunch, Room, TypeOK
  <2>4. ~Coming'
        BY <2>1, PostedFacts DEF Coming, Start
  <2> QED BY <1>2, <2>1, <2>2, <2>3, <2>4, NothingRuns, StartCalm
<1>7. CASE ClickStop \/ Close
  <2>1. ui = "free" /\ (Stop("stop") \/ Stop("close")) /\ posted' = posted
        BY <1>7 DEF ClickStop, Close, Click
  <2>2. Coming' => Coming
        BY <2>1 DEF Coming, Stop
  <2> QED BY <1>2, <2>1, <2>2, StopCalm
<1>8. ~ClickRestart
      BY Zenon DEF ClickRestart, Click
<1>9. CASE Stopped
  <2>1. /\ ui = "wait" /\ ui' = Then(after) /\ alive' \subseteq alive \ {proc}
        /\ UNCHANGED <<shared, queue, enabled, shown, after, target, posted, demo, reader, launches>>
        BY <1>9 DEF Stopped
  <2>2. ui' \in {"free", "closed"} /\ alive' = {}
        BY <1>2, <2>1 DEF Then, Calm, OneAtATime, LastIsKnown
  <2>3. Last' = Last /\ (Coming' <=> Coming)
        BY <2>1 DEF Last, Coming
  <2> QED BY <1>2, <2>1, <2>2, <2>3 DEF Calm, OneAtATime, LastIsKnown, shared
<1>10. ~Relaunch
       BY <1>2 DEF Relaunch, Calm, OneAtATime
<1>11. CASE RunStart
  <2>1. /\ posted \in {<<"start">>, <<"start", "stop">>} /\ posted' = Tail(posted) /\ Start
        /\ ui = "free" /\ ui' = "free"
        BY <1>11, PostedFacts DEF RunStart, TypeOK
  <2>2. demo.pc # "nap"
        BY <2>1, PostedFacts DEF DemoInOrder
  <2>3. launches = 0 /\ shown = "ready"
        BY <1>2, <2>1 DEF Coming, Calm, OneAtATime
  <2>4. ~Coming'
        BY <2>1, <2>2, PostedFacts DEF Coming, Start
  <2> QED BY <1>2, <2>1, <2>3, <2>4, DemoBounds, NothingRuns, StartCalm
<1>12. CASE RunStop
  <2>1. ui = "free" /\ Stop("stop") /\ posted' = <<>>
        BY <1>12, PostedFacts DEF RunStop, TypeOK
  <2>2. Coming' => Coming
        BY <2>1, PostedFacts DEF Coming, Stop
  <2> QED BY <1>2, <2>1, <2>2, StopCalm
<1>13. CASE Demo
  <2>1. UNCHANGED <<shared, queue, window, reader, alive, launches>>
        BY <1>13 DEF Demo, PostStart, WaitForBoot, CheckProc, Write, PostStop, Alone
  <2>2. ASSUME PostStop
        PROVE  Coming' => Coming
    <3>1. posted \in {<<>>, <<"start">>} /\ posted' = Append(posted, "stop")
          BY <2>2 DEF PostStop, In, DemoInOrder
    <3>2. demo'.pc = "done"
          BY <2>2 DEF PostStop, TypeOK
    <3> QED BY <3>1, <3>2, PostedFacts DEF Coming
  <2>3. ASSUME PostStart
        PROVE  Coming' => Coming
        BY <2>3 DEF PostStart, In, Coming
  <2>4. ASSUME WaitForBoot \/ CheckProc \/ Write
        PROVE  Coming' => Coming
    <3>1. posted' = posted /\ demo'.pc # "nap"
          BY <2>4 DEF WaitForBoot, CheckProc, Write, In, TypeOK
    <3> QED BY <3>1 DEF Coming
  <2>5. Coming' => Coming
        BY <1>13, <2>2, <2>3, <2>4 DEF Demo
  <2>6. Last' = Last
        BY <2>1 DEF Last
  <2> QED BY <1>2, <2>1, <2>5, <2>6 DEF Calm, OneAtATime, LastIsKnown, shared, window
<1>14. CASE UNCHANGED vars
       BY <1>2, <1>14 DEF vars, shared, window, Calm, OneAtATime, LastIsKnown, Last, Coming
<1> QED BY <1>3, <1>4, <1>5, <1>6, <1>7, <1>8, <1>9, <1>10, <1>11, <1>12, <1>13, <1>14
        DEF Next

-----------------------------------------------------------------------------
(* A demo nobody interferes with.                                          *)

\* Where it is when nobody interferes, no click came.
LEMMA NextAlone ==
  TypeOK /\ DemoInOrder /\ Calm /\ DemoAlone /\ ~touched' /\ [Next]_vars => DemoAlone'
<1> SUFFICES ASSUME TypeOK, DemoInOrder, Calm, DemoAlone, ~touched', [Next]_vars
             PROVE  DemoAlone'
    OBVIOUS
<1> DEFINE Under == Last \in {"loop", "line", "done"}
<1>1. ASSUME UNCHANGED <<posted, demo, launches, rash>>, Under => Under',
             Under /\ (alive = {} \/ ui = "wait") => alive' = {} \/ ui' = "wait"
      PROVE  DemoAlone'
      BY <1>1 DEF DemoAlone
<1>2. ASSUME NEW t \in Launch, Thread(t)
      PROVE  DemoAlone'
      BY <1>1, <1>2, ThreadCalm
<1>3. ASSUME NEW q \in Launch, QemuExits(q)
      PROVE  DemoAlone'
      BY <1>1, <1>3 DEF QemuExits, Last, window
<1>4. CASE PollOutput
      BY <1>1, <1>4 DEF PollOutput, Last
<1>5. CASE Stopped
  <2>1. /\ UNCHANGED <<posted, demo, launches, rash, reader>>
        /\ ui = "wait" /\ alive' \subseteq alive \ {proc}
        BY <1>5 DEF Stopped
  <2>2. alive' = {} /\ Last' = Last
        BY <2>1 DEF Calm, OneAtATime, LastIsKnown, Last
  <2> QED BY <1>1, <2>1, <2>2
<1>6. ~Relaunch
      BY DEF Relaunch, Calm, OneAtATime
<1>7. ~ClickLaunch /\ ~ClickStop /\ ~ClickRestart /\ ~Close
      BY DEF ClickLaunch, ClickStop, ClickRestart, Close, Click
<1>8. CASE RunStart
  <2>1. /\ posted \in {<<"start">>, <<"start", "stop">>} /\ posted' = Tail(posted)
        /\ demo' = demo /\ rash' = rash
        BY <1>8, PostedFacts DEF RunStart, Start, TypeOK
  <2>2. CASE posted = <<"start">>
        BY <2>1, <2>2, PostedFacts DEF DemoAlone
  <2>3. CASE posted = <<"start", "stop">>
    <3>1. demo.pc = "done" /\ posted' = <<"stop">>
          BY <2>1, <2>3, PostedFacts DEF DemoInOrder
    <3> QED BY <2>1, <3>1, PostedFacts DEF DemoAlone
  <2> QED BY <2>1, <2>2, <2>3
<1>9. CASE RunStop
  <2>1. /\ ui = "free" /\ Stop("stop") /\ posted = <<"stop">> /\ posted' = <<>>
        /\ ~Starting /\ rash' = rash
        BY <1>9, PostedFacts, Zenon DEF RunStop, TypeOK
  <2>2. demo.pc = "done" /\ ~Coming
        BY <2>1, PostedFacts DEF DemoInOrder, Coming
  <2>3. launches > 0
        BY <2>2 DEF DemoInOrder, TypeOK
  <2>4. Last \in ReaderPc /\ Last \notin {"none", "start", "made"}
        BY <2>1, <2>3, LastOf DEF Calm, OneAtATime, TypeOK
  <2>5. Under
        BY <2>4 DEF ReaderPc
  <2>6. Coming' => Coming
        BY <2>1, PostedFacts DEF Coming, Stop
  <2>7. Last' = Last /\ demo' = demo /\ alive' = alive /\ (alive = {} \/ ui' = "wait")
        BY <2>1, <2>5, <2>6, StopCalm
  <2> QED BY <2>1, <2>2, <2>5, <2>7, PostedFacts DEF DemoAlone
<1>10. ASSUME Demo
       PROVE  /\ UNCHANGED <<proc, ui, alive, launches, rash>> /\ Last' = Last
       BY <1>10 DEF Demo, PostStart, WaitForBoot, CheckProc, Write, PostStop, Alone, shared, window,
          Last
<1>11. CASE PostStart
  <2>1. demo'.pc = "boot"
        BY <1>11 DEF PostStart, TypeOK
  <2> QED BY <1>10, <1>11, <2>1 DEF Demo, DemoAlone
<1>12. CASE WaitForBoot
  <2>1. demo'.pc = "send"
        BY <1>12 DEF WaitForBoot, TypeOK
  <2> QED BY <1>10, <1>12, <2>1 DEF Demo, DemoAlone
<1>13. CASE CheckProc
  <2>1. demo.pc = "send" /\ posted' = posted
        BY <1>13 DEF CheckProc, In
  <2>2. CASE proc \in alive
    <3>1. demo'.pc = "write"
          BY <1>13, <2>2 DEF CheckProc, TypeOK
    <3>2. proc = launches /\ launches \in Launch /\ launches # 0
          BY <2>2 DEF Calm, OneAtATime, TypeOK, Launch
    <3>3. Last \in ReaderPc
          BY <3>2 DEF Last, TypeOK
    <3>4. Under
          BY <2>2, <3>2, <3>3 DEF Calm, OneAtATime, LastIsKnown, ReaderPc, TypeOK
    <3>5. posted = <<>>
          BY <2>1, <3>2 DEF Calm, OneAtATime, Coming, DemoInOrder
    <3> QED BY <1>10, <1>13, <2>1, <3>1, <3>2, <3>4, <3>5, PostedFacts DEF Demo, DemoAlone
  <2>3. CASE proc \notin alive
    <3>1. demo'.pc = "send"
          BY <1>13, <2>1, <2>3 DEF CheckProc, TypeOK
    <3> QED BY <1>10, <1>13, <2>1, <3>1 DEF Demo, DemoAlone
  <2> QED BY <2>2, <2>3
<1>14. CASE Write
  <2>1. demo.pc = "write" /\ posted' = posted /\ Under
        BY <1>14 DEF Write, In, DemoAlone
  <2>2. posted # <<"start">>
        BY <2>1 DEF DemoAlone
  <2>3. CASE proc \in alive
    <3>1. demo'.pc = "send"
          BY <1>14, <2>3 DEF Write, TypeOK
    <3> QED BY <1>10, <1>14, <2>1, <2>2, <3>1 DEF Demo, DemoAlone
  <2>4. CASE proc \notin alive
    <3>1. demo'.pc = "done"
          BY <1>14, <2>4 DEF Write, TypeOK
    <3>2. alive = {}
          BY <2>1, <2>4 DEF Calm, OneAtATime, LastIsKnown
    <3> QED BY <1>10, <1>14, <2>1, <2>2, <3>1, <3>2 DEF Demo, DemoAlone
  <2> QED BY <2>3, <2>4
<1>15. CASE PostStop
  <2>1. demo.pc = "send" /\ posted' = Append(posted, "stop")
        BY <1>15 DEF PostStop, In
  <2>2. posted' \in {<<"stop">>, <<"start", "stop">>}
        BY <2>1, PostedFacts DEF DemoInOrder
  <2>3. demo'.pc = "done"
        BY <1>15 DEF PostStop, TypeOK
  <2> QED BY <1>10, <1>15, <2>2, <2>3, PostedFacts DEF Demo, DemoAlone
<1>16. CASE UNCHANGED vars
       BY <1>1, <1>16 DEF vars, window, Last
<1> QED BY <1>2, <1>3, <1>4, <1>5, <1>6, <1>7, <1>8, <1>9, <1>11, <1>12, <1>13, <1>14, <1>15,
           <1>16
        DEF Next, Demo

-----------------------------------------------------------------------------
(* The theorems.                                                           *)

\* The window opens with nothing launched and nothing posted.
LEMMA InitIInv == Init => IInv
<1> SUFFICES ASSUME Init
             PROVE  IInv
    OBVIOUS
<1>1. Last = "none"
      BY DEF Init, Last, Launch
<1>2. TypeOK
  <2>1. demo \in DemoState
        BY DemoBounds DEF Init, DemoState, DemoPc
  <2>2. DOMAIN reader = Launch /\ \A t \in Launch : reader[t].pc \in ReaderPc
        BY DEF Init, ReaderPc
  <2>3. /\ queue \in Seq({"lobster>", "__DONE__"})
        /\ posted \in {<<>>, <<"start">>, <<"stop">>, <<"start", "stop">>}
        BY DEF Init
  <2> QED BY <2>1, <2>2, <2>3 DEF Init, TypeOK, DemoState, DemoPc, Button
<1>3. DemoInOrder /\ Coming
      BY DEF Init, DemoInOrder, Coming
<1>4. OneAtATime
      BY <1>1, DemoBounds DEF Init, OneAtATime
<1>5. LastIsKnown
      BY <1>1 DEF Init, LastIsKnown
<1>6. DemoAlone
      BY PostedFacts DEF Init, DemoAlone
<1> QED BY <1>2, <1>3, <1>4, <1>5, <1>6 DEF IInv

\* The inductive invariant.  Neither invariant is inductive by itself: that the
\* window says "Stopped" only when no QEMU runs rests on the queue holding at
\* most one marker of an end, as its last item, and on the thread that put it
\* being that of the last launch.
THEOREM InductiveInvariant == Spec => []IInv
<1>1. IInv /\ [Next]_vars => IInv'
  <2> SUFFICES ASSUME IInv, [Next]_vars
               PROVE  IInv'
      OBVIOUS
  <2>1. /\ TypeOK /\ DemoInOrder /\ (~rash => Calm) /\ (~touched => DemoAlone)
        BY DEF IInv, Calm
  <2>2. TypeOK' /\ DemoInOrder' /\ (~rash' => Calm')
        BY <2>1, NextTypeOK, NextInOrder, NextCalm
  <2>3. ASSUME ~touched'
        PROVE  DemoAlone'
    <3>1. ~touched
          BY <2>3 DEF Next, Thread, Popen, Assign, PopenFails, ReadLine, LoopEnds, GetLine,
             GetNothing, Ends, Apart, QemuExits, PollOutput, ClickLaunch, ClickStop,
             ClickRestart, Close, Click, Stopped, Relaunch, RunStart, RunStop, Demo,
             PostStart, WaitForBoot, CheckProc, Write, PostStop, Alone, vars
    <3> QED BY <2>1, <2>3, <3>1, NextAlone DEF DemoAlone
  <2> QED BY <2>2, <2>3 DEF IInv, Calm
<1> QED BY <1>1, InitIInv, PTL DEF Spec

\* When the window says "Stopped" to a user who is not rash no QEMU runs,
\* whatever the demo does meanwhile, however often it is launched again and
\* whenever a QEMU ends by itself (_poll_output, _stop, _run_qemu).
THEOREM StoppedMeansStopped == Spec => []StoppedIsStopped
<1>1. ASSUME IInv
      PROVE  StoppedIsStopped
  <2> SUFFICES ASSUME ~rash, shown = "stopped"
               PROVE  alive = {}
      BY DEF StoppedIsStopped
  <2> QED BY <1>1 DEF IInv, OneAtATime
<1> QED BY <1>1, InductiveInvariant, PTL

\* A demo nobody interferes with leaves no QEMU behind, whether it gets to its
\* end or breaks off (_run_automation, _send_cmd, _stop).
THEOREM DemoLeavesNothing == Spec => []DemoCleansUp
<1>1. ASSUME IInv
      PROVE  DemoCleansUp
      BY <1>1 DEF IInv, DemoAlone, DemoCleansUp
<1> QED BY <1>1, InductiveInvariant, PTL
=============================================================================
