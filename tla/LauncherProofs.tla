------------------------------ MODULE LauncherProofs ------------------------------
(***************************************************************************)
(* Proofs about Launcher for every number of launches.  The invariant says *)
(* who may be running at each place the window's thread and the launch     *)
(* threads can be in; the three properties are its consequences.           *)
(***************************************************************************)
EXTENDS Launcher, SequenceTheorems, TLAPS

-----------------------------------------------------------------------------
(* Types.                                                                  *)

\* A thread that goes on to p leaves the others where they are.
LEMMA GotoFacts ==
  ASSUME TypeOK, NEW t \in Launch, NEW p \in Phase, Goto(t, p)
  PROVE  /\ reader' \in [Launch -> [pc : Phase, on : 0 .. MaxLaunch]]
         /\ reader'[t].pc = p
         /\ \A s \in Launch \ {t} : reader'[s] = reader[s]
  BY DEF TypeOK, Goto

\* The marker a thread ends with goes to the queue.
LEMMA EndsFacts ==
  ASSUME TypeOK, NEW t \in Launch, Ends(t)
  PROVE  /\ queue' \in Seq(Item)
         /\ reader' \in [Launch -> [pc : Phase, on : 0 .. MaxLaunch]]
         /\ reader'[t].pc = "done"
         /\ \A s \in Launch \ {t} : reader'[s] = reader[s]
         /\ UNCHANGED <<running, boot, process, enabled, shown, ui, after, closing, alive, target,
                        launches, rash>>
<1>1. "done" \in Phase /\ "__PROCESS_ENDED__\n" \in Item
      BY DEF Phase, Item
<1>2. queue' = Append(queue, "__PROCESS_ENDED__\n") /\ Goto(t, "done")
      BY DEF Ends
<1>3. queue' \in Seq(Item)
      BY <1>1, <1>2 DEF TypeOK
<1> QED BY <1>1, <1>2, <1>3, GotoFacts DEF Ends, Window, window, shared

\* A launch: a thread of its own is about to start a QEMU.
LEMMA LaunchFacts ==
  ASSUME TypeOK, StartLaunch
  PROVE  /\ launches + 1 \in Launch /\ launches' = launches + 1
         /\ reader' \in [Launch -> [pc : Phase, on : 0 .. MaxLaunch]]
         /\ reader'[launches + 1].pc = "start"
         /\ \A s \in Launch \ {launches + 1} : reader'[s] = reader[s]
         /\ running' = TRUE /\ boot' = FALSE /\ shown' = "booting"
         /\ enabled' = enabled \ {"launch", "send"}
         /\ UNCHANGED <<process, queue, after, closing, target, alive>>
<1>1. launches + 1 \in Launch /\ "start" \in Phase
      BY Bounds DEF StartLaunch, TypeOK, Launch, Phase
<1>2. Goto(launches + 1, "start")
      BY DEF StartLaunch
<1> QED BY <1>1, <1>2, GotoFacts DEF StartLaunch

\* Where the window is after a _stop.
LEMMA ThenFacts ==
  ASSUME NEW next
  PROVE  Then(next) = IF next = "restart" THEN "sleep" ELSE "free"
  BY Zenon DEF Then

\* Any click: a rash one is remembered.
LEMMA ClickFacts ==
  ASSUME TypeOK, NEW b, Click(b)
  PROVE  /\ ui = "free" /\ b \in enabled \cup {"close"}
         /\ rash' \in BOOLEAN
         /\ ~rash' => ~rash /\ ~closing /\ Settled
<1>1. rash' = (rash \/ closing \/ \E t \in Launch : reader[t].pc \in {"start", "made"})
      BY DEF Click
<1>2. rash' \in BOOLEAN
      BY <1>1
<1>3. ~rash' => ~rash /\ ~closing /\ Settled
      BY <1>1 DEF Settled, Starting
<1> QED BY <1>2, <1>3 DEF Click

\* The window handles an item: no item is the marker it compares with, so that
\* what it does at the end of a process is never done.
LEMMA HandleFacts ==
  ASSUME TypeOK, PollOutput
  PROVE  /\ queue' \in Seq(Item)
         /\ OnBootComplete \/ UNCHANGED <<running, boot, shown, enabled>>
         /\ UNCHANGED <<process, ui, after, closing, target, reader, alive, launches, rash>>
<1>1. queue[1] \in Item /\ queue' \in Seq(Item)
      BY DEF TypeOK, PollOutput
<1>2. queue[1] # "__PROCESS_ENDED__"
      BY <1>1 DEF Item
<1> QED BY <1>1, <1>2 DEF PollOutput, Handle

\* Every variable keeps its type.
LEMMA NextTypeOK == TypeOK /\ [Next]_vars => TypeOK'
<1> SUFFICES ASSUME TypeOK, [Next]_vars
             PROVE  TypeOK'
    OBVIOUS
<1> USE Bounds
<1>1. ASSUME NEW t \in Launch, Popen(t)
      PROVE  TypeOK'
  <2>1. "made" \in Phase /\ Goto(t, "made")
        BY <1>1 DEF Popen, Phase
  <2> QED BY <1>1, <2>1, GotoFacts DEF Popen, Window, window, shared, TypeOK
<1>2. ASSUME NEW t \in Launch, Assign(t)
      PROVE  TypeOK'
  <2>1. "loop" \in Phase /\ Goto(t, "loop")
        BY <1>2 DEF Assign, Phase
  <2>2. /\ reader' \in [Launch -> [pc : Phase, on : 0 .. MaxLaunch]]
        /\ process' \in 0 .. MaxLaunch
        BY <1>2, <2>1, GotoFacts DEF Assign, Launch
  <2> QED BY <1>2, <2>2 DEF Assign, Window, window, TypeOK
<1>3. ASSUME NEW t \in Launch, PopenFails(t) \/ LoopEnds(t) \/ GetNothing(t)
      PROVE  TypeOK'
  <2>1. Ends(t)
        BY <1>3 DEF PopenFails, LoopEnds, GetNothing
  <2> QED BY <2>1, EndsFacts DEF TypeOK
<1>4. ASSUME NEW t \in Launch, ReadLine(t)
      PROVE  TypeOK'
  <2>1. "line" \in Phase /\ process \in 0 .. MaxLaunch
        BY DEF Phase, TypeOK
  <2>2. reader' \in [Launch -> [pc : Phase, on : 0 .. MaxLaunch]]
        BY <1>4, <2>1 DEF ReadLine, TypeOK
  <2> QED BY <1>4, <2>2 DEF ReadLine, Window, window, shared, TypeOK
<1>5. ASSUME NEW t \in Launch, GetLine(t) \/ GetPrompt(t)
      PROVE  TypeOK'
  <2>1. PICK p \in {"loop", "prompt"} : Goto(t, p)
        BY <1>5 DEF GetLine, GetPrompt
  <2>2. p \in Phase
        BY DEF Phase
  <2> QED BY <1>5, <2>1, <2>2, GotoFacts DEF GetLine, GetPrompt, Window, window, shared, TypeOK
<1>6. ASSUME NEW t \in Launch, MarkBoot(t)
      PROVE  TypeOK'
  <2>1. "loop" \in Phase /\ Goto(t, "loop")
        BY <1>6 DEF MarkBoot, Phase
  <2>2. queue' \in Seq(Item)
        BY <1>6 DEF MarkBoot, TypeOK, Item
  <2> QED BY <1>6, <2>1, <2>2, GotoFacts DEF MarkBoot, Window, window, shared, TypeOK
<1>7. ASSUME NEW q \in Launch, QemuExits(q)
      PROVE  TypeOK'
      BY <1>7 DEF QemuExits, window, shared, TypeOK
<1>8. CASE PollOutput
  <2>1. /\ queue' \in Seq(Item)
        /\ UNCHANGED <<process, ui, after, closing, target, reader, alive, launches, rash>>
        BY <1>8, HandleFacts
  <2>2. CASE OnBootComplete
        BY <2>1, <2>2 DEF OnBootComplete, TypeOK
  <2>3. CASE UNCHANGED <<running, boot, shown, enabled>>
        BY <2>1, <2>3 DEF TypeOK
  <2> QED BY <1>8, <2>2, <2>3, HandleFacts
<1>9. ASSUME StartLaunch, rash' \in BOOLEAN, ui' \in {"free", "wait", "sleep", "closed"}
      PROVE  TypeOK'
  <2>1. launches + 1 \in 0 .. MaxLaunch
        BY <1>9, LaunchFacts DEF Launch
  <2>2. enabled' \subseteq Button /\ shown' \in {"ready", "booting", "running", "stopped"}
        BY <1>9, LaunchFacts DEF TypeOK
  <2>3. running' \in BOOLEAN /\ boot' \in BOOLEAN
        BY <1>9, LaunchFacts
  <2> QED BY <1>9, <2>1, <2>2, <2>3, LaunchFacts DEF TypeOK
<1>18. CASE ClickLaunch
       BY <1>9, <1>18, ClickFacts DEF ClickLaunch, TypeOK
<1>10. ASSUME NEW n \in {"stop", "restart", "close"}, Stop(n)
       PROVE  /\ running' \in BOOLEAN /\ target' \in 0 .. MaxLaunch
              /\ ui' \in {"free", "wait", "sleep", "closed"}
              /\ after' \in {"stop", "restart", "close"}
       BY <1>10, ThenFacts DEF Stop, TypeOK
<1>11. CASE ClickStop
       BY <1>10, <1>11, ClickFacts DEF ClickStop, StopLeaves, TypeOK
<1>12. CASE ClickRestart
       BY <1>10, <1>12, ClickFacts DEF ClickRestart, StopLeaves, TypeOK
<1>13. CASE Close
  <2>1. /\ running' \in BOOLEAN /\ target' \in 0 .. MaxLaunch
        /\ ui' \in {"free", "wait", "sleep", "closed"}
        /\ after' \in {"stop", "restart", "close"}
        BY <1>10, <1>13 DEF Close, TypeOK
  <2> QED BY <1>13, <2>1, ClickFacts DEF Close, StopLeaves, TypeOK
<1>14. CASE Destroy
       BY <1>14 DEF Destroy, shared, TypeOK
<1>15. CASE Stopped
       BY <1>15, ThenFacts DEF Stopped, shared, TypeOK
<1>16. CASE Relaunch
       BY <1>9, <1>16 DEF Relaunch, TypeOK
<1>17. CASE UNCHANGED vars
       BY <1>17 DEF vars, shared, window, TypeOK
<1> QED BY <1>1, <1>2, <1>3, <1>4, <1>5, <1>6, <1>7, <1>8, <1>9, <1>11, <1>12, <1>13, <1>14,
           <1>15, <1>16, <1>17, <1>18 DEF Next, Thread

-----------------------------------------------------------------------------
(* The inductive invariant.                                                *)

\* What a step of thread t can do to the emulators: make one, tell the window
\* of it, or neither.
LEMMA ThreadFacts ==
  ASSUME TypeOK, NEW t \in Launch, Thread(t)
  PROVE  /\ UNCHANGED <<running, boot, enabled, ui, after, closing, launches, rash>>
         /\ ui # "closed" /\ reader[t].pc # "none"
         /\ \A s \in Launch \ {t} : reader'[s] = reader[s]
         /\ \/ /\ reader[t].pc = "start" /\ reader'[t].pc = "made"
               /\ alive' = alive \cup {t} /\ process' = process
            \/ /\ reader[t].pc = "made" /\ reader'[t].pc = "loop"
               /\ alive' = alive /\ process' = t
            \/ /\ reader[t].pc # "made" /\ ~Starting(t)'
               /\ alive' = alive /\ process' = process
<1> USE DEF At, Window, window, shared
<1>1. CASE Popen(t)
  <2>1. "made" \in Phase /\ Goto(t, "made")
        BY <1>1 DEF Popen, Phase
  <2> QED BY <1>1, <2>1, GotoFacts DEF Popen
<1>2. CASE Assign(t)
  <2>1. "loop" \in Phase /\ Goto(t, "loop")
        BY <1>2 DEF Assign, Phase
  <2> QED BY <1>2, <2>1, GotoFacts DEF Assign
<1>3. CASE PopenFails(t) \/ LoopEnds(t) \/ GetNothing(t)
      BY <1>3, EndsFacts DEF PopenFails, LoopEnds, GetNothing, Starting
<1>4. CASE ReadLine(t)
      BY <1>4 DEF ReadLine, TypeOK, Starting
<1>5. CASE GetLine(t) \/ GetPrompt(t) \/ MarkBoot(t)
  <2>1. PICK p \in {"loop", "prompt"} : Goto(t, p)
        BY <1>5 DEF GetLine, GetPrompt, MarkBoot
  <2>2. p \in Phase
        BY DEF Phase
  <2> QED BY <1>5, <2>1, <2>2, GotoFacts DEF GetLine, GetPrompt, MarkBoot, Starting
<1> QED BY <1>1, <1>2, <1>3, <1>4, <1>5 DEF Thread

\* What _stop does up to its wait.
LEMMA StopFacts ==
  ASSUME NEW next, Stop(next)
  PROVE  /\ after' = next
         /\ process \in alive => running' = FALSE /\ ui' = "wait"
         /\ process \notin alive =>
              running' = running /\ ui' = IF next = "restart" THEN "sleep" ELSE "free"
  BY ThenFacts DEF Stop

\* No thread and no process beyond the launches so far.
LEMMA NextOnlyLaunched == TypeOK /\ OnlyLaunched /\ [Next]_vars => OnlyLaunched'
<1> SUFFICES ASSUME TypeOK, OnlyLaunched, [Next]_vars
             PROVE  OnlyLaunched'
    OBVIOUS
<1>1. launches \in Nat /\ process \in Nat
      BY Bounds DEF TypeOK
<1>2. ASSUME NEW t \in Launch, Thread(t)
      PROVE  OnlyLaunched'
  <2>1. t <= launches /\ t \in Nat
        BY <1>1, <1>2, ThreadFacts DEF OnlyLaunched, Launch
  <2> QED BY <1>1, <1>2, <2>1, ThreadFacts DEF OnlyLaunched
<1>3. CASE StartLaunch
  <2>1. \A t \in Launch : t > launches + 1 => reader'[t].pc = "none"
        BY <1>1, <1>3, LaunchFacts DEF OnlyLaunched, Launch
  <2> QED BY <1>1, <1>3, <2>1, LaunchFacts DEF OnlyLaunched
<1>4. CASE UNCHANGED <<reader, process, launches>>
      BY <1>4 DEF OnlyLaunched
<1>5. PollOutput => UNCHANGED <<reader, process, launches>>
      BY DEF PollOutput
<1> QED BY <1>2, <1>3, <1>4, <1>5
        DEF Next, QemuExits, ClickLaunch, ClickStop, ClickRestart, StopLeaves, Close, Destroy,
            Stopped, Relaunch, shared, window, vars

\* The buttons.  That a launched program never enables Launch again is a finding
\* of the runs; here it is what keeps a second launch away.
LEMMA NextButtonsFollow ==
  TypeOK /\ OnlyLaunched /\ ButtonsFollow /\ [Next]_vars => ButtonsFollow'
<1> SUFFICES ASSUME TypeOK, OnlyLaunched, ButtonsFollow, [Next]_vars
             PROVE  ButtonsFollow'
    OBVIOUS
<1>1. launches \in Nat
      BY Bounds DEF TypeOK
<1>2. ASSUME NEW t \in Launch, Thread(t)
      PROVE  ButtonsFollow'
  <2>1. launches # 0
        BY <1>1, <1>2, ThreadFacts DEF OnlyLaunched, Launch
  <2> QED BY <1>2, <2>1, ThreadFacts DEF ButtonsFollow
<1>3. CASE StartLaunch
      BY <1>1, <1>3, LaunchFacts DEF ButtonsFollow
<1>4. CASE PollOutput
  <2>1. CASE OnBootComplete
    <3>1. enabled' = {"stop", "restart", "send"}
          BY <2>1 DEF OnBootComplete, Button
    <3> QED BY <1>4, <3>1, HandleFacts DEF ButtonsFollow, Settled, Starting
  <2>2. CASE UNCHANGED <<running, boot, shown, enabled>>
        BY <1>4, <2>2, HandleFacts DEF ButtonsFollow, Settled, Starting
  <2> QED BY <1>4, <2>1, <2>2, HandleFacts
<1>5. CASE UNCHANGED <<enabled, boot, process, reader, launches>> /\ alive' \subseteq alive
      BY <1>5 DEF ButtonsFollow, Settled, Starting
<1> QED BY <1>2, <1>3, <1>4, <1>5
        DEF Next, QemuExits, ClickLaunch, ClickStop, ClickRestart, StopLeaves, Close, Destroy,
            Stopped, Relaunch, shared, window, vars

\* A user who is not rash: every step keeps track of which emulator may run.
CalmInv == StartingAlone /\ KnownOnly /\ ClosingStops

\* What CalmInv says stays true as long as the user is not rash.
LEMMA NextCalm ==
  TypeOK /\ OnlyLaunched /\ ButtonsFollow /\ (~rash => CalmInv) /\ [Next]_vars
    => (~rash => CalmInv)'
<1> SUFFICES ASSUME TypeOK, OnlyLaunched, ButtonsFollow, ~rash => CalmInv, [Next]_vars, ~rash'
             PROVE  CalmInv'
    OBVIOUS
<1>1. launches \in Nat /\ process <= launches /\ alive \subseteq Launch
      BY Bounds DEF TypeOK, OnlyLaunched
<1>2. ASSUME NEW t \in Launch, Thread(t)
      PROVE  CalmInv'
  <2> USE DEF Settled, Starting
  <2>1. CalmInv /\ ui' = ui /\ ui # "closed" /\ closing' = closing /\ running' = running
        /\ launches' = launches /\ after' = after
        BY <1>2, ThreadFacts
  <2>2. \A s \in Launch \ {t} : reader'[s] = reader[s]
        BY <1>2, ThreadFacts
  <2>3. CASE /\ reader[t].pc = "start" /\ reader'[t].pc = "made"
             /\ alive' = alive \cup {t} /\ process' = process
    <3>1. /\ t = launches /\ process # t /\ running /\ ui = "free" /\ ~closing /\ alive = {}
          /\ \A s \in Launch \ {t} : ~Starting(s)
          BY <2>1, <2>3 DEF CalmInv, StartingAlone
    <3>2. \A s \in Launch \ {t} : ~Starting(s)'
          BY <2>2, <3>1
    <3>3. ~Settled'
          BY <2>3
    <3> QED BY <2>1, <2>3, <3>1, <3>2, <3>3 DEF CalmInv, StartingAlone, KnownOnly, ClosingStops
  <2>4. CASE /\ reader[t].pc = "made" /\ reader'[t].pc = "loop"
             /\ alive' = alive /\ process' = t
    <3>1. /\ running /\ ui = "free" /\ ~closing /\ alive \subseteq {t}
          /\ \A s \in Launch \ {t} : ~Starting(s)
          BY <2>1, <2>4 DEF CalmInv, StartingAlone
    <3>2. \A s \in Launch : ~Starting(s)'
          BY <2>2, <2>4, <3>1
    <3> QED BY <2>1, <2>4, <3>1, <3>2 DEF CalmInv, StartingAlone, KnownOnly, ClosingStops
  <2>5. CASE /\ reader[t].pc # "made" /\ ~Starting(t)'
             /\ alive' = alive /\ process' = process
    <3>1. CASE Starting(t)
      <4>1. running /\ ui = "free" /\ ~closing /\ alive = {}
            BY <2>1, <2>5, <3>1 DEF CalmInv, StartingAlone
      <4> QED BY <2>1, <2>2, <2>5, <4>1 DEF CalmInv, StartingAlone, KnownOnly, ClosingStops
    <3>2. CASE ~Starting(t)
      <4>1. \A s \in Launch : Starting(s)' <=> Starting(s)
            BY <2>2, <2>5, <3>2
      <4> QED BY <2>1, <2>2, <2>5, <3>2, <4>1 DEF CalmInv, StartingAlone, KnownOnly, ClosingStops
    <3> QED BY <3>1, <3>2
  <2> QED BY <1>2, <2>3, <2>4, <2>5, ThreadFacts
<1>3. ASSUME NEW q \in Launch, QemuExits(q)
      PROVE  CalmInv'
      BY <1>3 DEF QemuExits, shared, window, CalmInv, StartingAlone, KnownOnly, ClosingStops,
                  Settled, Starting
<1>4. CASE PollOutput
  <2>1. /\ UNCHANGED <<process, ui, after, closing, reader, alive, launches, rash>>
        /\ running' = running
        BY <1>4, HandleFacts DEF OnBootComplete
  <2> QED BY <2>1 DEF CalmInv, StartingAlone, KnownOnly, ClosingStops, Settled, Starting
\* A new launch, when no emulator runs and none is being started.
<1>5. ASSUME StartLaunch, CalmInv, Settled, alive = {}, ui' = "free", ~closing
      PROVE  CalmInv'
  <2>1. /\ launches + 1 \in Launch /\ launches' = launches + 1
        /\ reader'[launches + 1].pc = "start"
        /\ \A s \in Launch \ {launches + 1} : reader'[s] = reader[s]
        /\ running' = TRUE /\ UNCHANGED <<process, closing, alive>>
        BY <1>5, LaunchFacts
  <2>2. process \in Nat /\ process # launches + 1
        BY <1>1, Bounds DEF TypeOK
  <2>3. \A s \in Launch : Starting(s)' <=> s = launches + 1
        BY <1>5, <2>1 DEF Settled, Starting
  <2> QED BY <1>5, <2>1, <2>2, <2>3 DEF CalmInv, StartingAlone, KnownOnly, ClosingStops, Settled
<1>6. CASE ClickLaunch
  <2>1. ui = "free" /\ "launch" \in enabled /\ ~rash /\ ~closing /\ Settled
        BY <1>6, ClickFacts DEF ClickLaunch
  <2>2. alive = {}
        BY <2>1 DEF ButtonsFollow
  <2> QED BY <1>5, <1>6, <2>1, <2>2 DEF ClickLaunch
<1>7. ASSUME NEW next \in {"stop", "restart", "close"}, Stop(next), StopLeaves,
             ui = "free", CalmInv, Settled, closing' <=> next = "close"
      PROVE  CalmInv'
  <2>1. UNCHANGED <<process, reader, alive, launches>> /\ alive \subseteq {process}
        BY <1>7 DEF StopLeaves, CalmInv, KnownOnly
  <2>2. CASE process \in alive
        BY <1>7, <2>1, <2>2, StopFacts
           DEF CalmInv, StartingAlone, KnownOnly, ClosingStops, Settled, Starting
  <2>3. CASE process \notin alive
    <3>1. alive = {}
          BY <2>1, <2>3
    <3> QED BY <1>7, <2>1, <2>3, <3>1, StopFacts
           DEF CalmInv, StartingAlone, KnownOnly, ClosingStops, Settled, Starting
  <2> QED BY <2>2, <2>3
<1>8. CASE ClickStop
  <2>1. ui = "free" /\ ~rash /\ ~closing /\ Settled
        BY <1>8, ClickFacts DEF ClickStop
  <2> QED BY <1>7, <1>8, <2>1 DEF ClickStop
<1>9. CASE ClickRestart
  <2>1. ui = "free" /\ ~rash /\ ~closing /\ Settled
        BY <1>9, ClickFacts DEF ClickRestart
  <2> QED BY <1>7, <1>9, <2>1 DEF ClickRestart
<1>10. CASE Close
  <2>1. ui = "free" /\ ~rash /\ ~closing /\ Settled /\ closing'
        BY <1>10, ClickFacts DEF Close
  <2>2. CASE running
        BY <1>7, <1>10, <2>1, <2>2 DEF Close
  <2>3. CASE ~running
    <3>1. ui' = "closed" /\ UNCHANGED <<running, process, reader, alive, launches>>
          BY <1>10, <2>3 DEF Close, StopLeaves
    <3>2. alive = {}
          BY <2>1, <2>3 DEF CalmInv, KnownOnly
    <3> QED BY <2>1, <3>1, <3>2
            DEF CalmInv, StartingAlone, KnownOnly, ClosingStops, Settled, Starting
  <2> QED BY <2>2, <2>3
<1>11. CASE Destroy
       BY <1>11 DEF Destroy, shared, CalmInv, StartingAlone, KnownOnly, ClosingStops, Settled, Starting
<1>12. CASE Stopped
  <2>1. /\ ui = "wait" /\ ~rash /\ UNCHANGED <<shared, reader, after, closing, launches>>
        /\ ui' = IF after = "restart" THEN "sleep" ELSE "free"
        /\ alive' \in {alive \ {process}, alive \ {target, process}}
        BY <1>12, ThenFacts DEF Stopped
  <2>2. Settled
        BY <2>1 DEF CalmInv, StartingAlone, Settled
  <2>3. alive' = {}
        BY <2>1, <2>2 DEF CalmInv, KnownOnly
  <2> QED BY <2>1, <2>2, <2>3
          DEF shared, CalmInv, StartingAlone, KnownOnly, ClosingStops, Settled, Starting
<1>13. CASE Relaunch
  <2>1. ui = "sleep" /\ ui' = "free" /\ ~rash /\ StartLaunch
        BY <1>13 DEF Relaunch
  <2>2. Settled /\ ~closing
        BY <2>1 DEF CalmInv, StartingAlone, ClosingStops, Settled
  <2>3. alive = {}
        BY <2>1, <2>2 DEF CalmInv, KnownOnly
  <2> QED BY <1>5, <2>1, <2>2, <2>3
<1>14. CASE UNCHANGED vars
       BY <1>14 DEF vars, shared, window, CalmInv, StartingAlone, KnownOnly, ClosingStops, Settled,
                    Starting
<1> QED BY <1>2, <1>3, <1>4, <1>6, <1>8, <1>9, <1>10, <1>11, <1>12, <1>13, <1>14 DEF Next

\* The start of the launcher satisfies the invariant.
LEMMA InitIInv == Init => IInv
<1> SUFFICES ASSUME Init PROVE IInv
    OBVIOUS
<1>1. TypeOK
  <2>1. reader \in [Launch -> [pc : Phase, on : 0 .. MaxLaunch]]
        BY Bounds DEF Init, Phase
  <2>2. queue \in Seq(Item)
        BY DEF Init
  <2>3. running \in BOOLEAN /\ boot \in BOOLEAN /\ closing \in BOOLEAN /\ rash \in BOOLEAN
        BY DEF Init
  <2>4. process \in 0 .. MaxLaunch /\ target \in 0 .. MaxLaunch /\ launches \in 0 .. MaxLaunch
        BY Bounds DEF Init
  <2> QED BY <2>1, <2>2, <2>3, <2>4 DEF Init, TypeOK, Button
<1>2. Settled
      BY DEF Init, Settled, Starting
<1>3. OnlyLaunched /\ ButtonsFollow
      BY <1>2 DEF Init, OnlyLaunched, ButtonsFollow
<1>4. StartingAlone /\ KnownOnly /\ ClosingStops
      BY <1>2 DEF Init, StartingAlone, KnownOnly, ClosingStops, Settled
<1> QED BY <1>1, <1>3, <1>4 DEF IInv

\* What the launcher's threads know of the emulators that run.
THEOREM InductiveInvariant == Spec => []IInv
<1>1. IInv /\ [Next]_vars => IInv'
  <2> SUFFICES ASSUME IInv, [Next]_vars
               PROVE  IInv'
      OBVIOUS
  <2>1. TypeOK /\ OnlyLaunched /\ ButtonsFollow /\ (~rash => CalmInv)
        BY DEF IInv, CalmInv
  <2>2. TypeOK' /\ OnlyLaunched' /\ ButtonsFollow'
        BY <2>1, NextTypeOK, NextOnlyLaunched, NextButtonsFollow
  <2>3. (~rash => CalmInv)'
        BY <2>1, NextCalm
  <2> QED BY <2>2, <2>3 DEF IInv, CalmInv
<1> QED BY <1>1, InitIInv, PTL DEF Spec

-----------------------------------------------------------------------------
(* The theorems.                                                           *)

\* Every variable keeps its type.
THEOREM TypeCorrect == Spec => []TypeOK
  BY InductiveInvariant, PTL DEF IInv

\* A user who does not click while a QEMU is being started or the window is
\* closing never has two, although the launcher's threads share process and
\* running without a lock.
THEOREM NeverTwoEmulators == Spec => []OneEmulator
<1>1. IInv => OneEmulator
  <2> SUFFICES ASSUME IInv, ~rash, NEW p \in alive, NEW q \in alive
               PROVE  p = q
      BY DEF OneEmulator
  <2>1. CASE Settled
        BY <2>1 DEF IInv, KnownOnly
  <2>2. CASE ~Settled
    <3>1. PICK t \in Launch : Starting(t)
          BY <2>2 DEF Settled
    <3>2. alive \subseteq {t}
          BY <3>1 DEF IInv, StartingAlone
    <3> QED BY <3>2
  <2> QED BY <2>1, <2>2
<1> QED BY <1>1, InductiveInvariant, PTL

\* When the window of such a user is gone, so is the emulator.
THEOREM NothingLeftAfterClose == Spec => []CloseLeavesNothing
<1>1. IInv => CloseLeavesNothing
      BY DEF IInv, ClosingStops, CloseLeavesNothing
<1> QED BY <1>1, InductiveInvariant, PTL

\* While such a user's emulator runs, the window can send to it and, once it
\* booted, stop it.
THEOREM EmulatorStaysControllable == Spec => []LiveIsControllable
<1>1. IInv => LiveIsControllable
  <2> SUFFICES ASSUME IInv, ~rash, ui = "free", process \in alive
               PROVE  running /\ (boot => {"send", "stop"} \subseteq enabled)
      BY DEF LiveIsControllable
  <2>1. CASE Settled
        BY <2>1 DEF IInv, KnownOnly, ButtonsFollow
  <2>2. CASE ~Settled
        BY <2>2 DEF IInv, StartingAlone, Settled, ButtonsFollow
  <2> QED BY <2>1, <2>2
<1> QED BY <1>1, InductiveInvariant, PTL
=============================================================================
