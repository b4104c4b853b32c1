-------------------------------- MODULE AutoDemo --------------------------------
(***************************************************************************)
(* The launcher that drives itself (lobsteros_auto_demo.py).  As in        *)
(* Launcher.tla a window's thread handles clicks, polls a queue of output  *)
(* and blocks while it stops a QEMU, and each launch has a thread that     *)
(* reads a QEMU.  Here a further thread plays the user: it posts a launch  *)
(* to the window, waits for the prompt at most 30 s, types commands itself *)
(* and posts a stop.                                                       *)
(*                                                                         *)
(* Of the output only prompts and the marker of the end matter.  No sleep  *)
(* is trusted to order two threads.  The files _start looks for are there. *)
(* Commands the user types change nothing the model has.  A poll handles   *)
(* the queue item by item, and may be interrupted by a click here.         *)
(***************************************************************************)
EXTENDS Integers, Sequences

CONSTANTS
  MaxLaunch,   \* bounds the launches
  MaxQueue,    \* bounds the prompts the window has not handled
  Commands     \* how many commands the demo types (6)

\* At least one launch and one item that waits; a demo may have no command.
ASSUME DemoBounds == MaxLaunch \in Nat \ {0} /\ MaxQueue \in Nat \ {0} /\ Commands \in Nat

Launch == 1 .. MaxLaunch
Button == {"launch", "stop", "restart"}

VARIABLES
  running, boot, proc,  \* running, boot_complete, proc (0 is None)
  queue,      \* the prompts and markers in out_q
  enabled,    \* the buttons that are not DISABLED
  shown,      \* what the status label says
  ui,         \* where the window's thread is
  after,      \* what it does once a _stop is done
  target,     \* the QEMU the _stop in progress was called for
  posted,     \* the callbacks the demo posted to the window
  demo,       \* where the demo's thread is, and the commands it has left to type
  reader,     \* the threads: where each is, and whose output it reads
  alive,      \* the QEMUs that run
  launches,   \* launches so far
  touched,    \* a user clicked, or a stop came while a QEMU was being started
  rash        \* a user clicked Restart, Launch before the demo did, or any button
              \* while a QEMU was being started

shared == <<running, boot, proc>>
window == <<enabled, shown, ui, after, target>>
vars == <<shared, queue, window, posted, demo, reader, alive, launches, touched, rash>>

Init ==
  /\ running = FALSE /\ boot = FALSE /\ proc = 0
  /\ queue = <<>> /\ posted = <<>>
  /\ enabled = {"launch"} /\ shown = "ready"
  /\ ui = "free" /\ after = "stop" /\ target = 0
  /\ demo = [pc |-> "nap", left |-> Commands]
  /\ reader = [t \in Launch |-> [pc |-> "none", on |-> 0]]
  /\ alive = {} /\ launches = 0
  /\ touched = FALSE /\ rash = FALSE

Starting == \E t \in Launch : reader[t].pc \in {"start", "made"}

\* The user's launches end before the last, while the demo's is to come.
Room ==
  LET coming == demo.pc = "nap" \/ \E i \in DOMAIN posted : posted[i] = "start"
  IN  launches + (IF coming THEN 1 ELSE 0) < MaxLaunch

-----------------------------------------------------------------------------
(* The threads of _run_qemu.                                               *)

At(t, pc) == reader[t].pc = pc /\ ui # "closed"
Goto(t, pc) == reader' = [reader EXCEPT ![t].pc = pc]
Apart == UNCHANGED <<window, posted, demo, launches, touched, rash>>

\* Popen makes the QEMU before proc is assigned.
Popen(t) ==
  /\ At(t, "start")
  /\ alive' = alive \cup {t}
  /\ Goto(t, "made")
  /\ Apart /\ UNCHANGED <<shared, queue>>

Assign(t) ==
  /\ At(t, "made")
  /\ proc' = t
  /\ Goto(t, "loop")
  /\ Apart /\ UNCHANGED <<running, boot, queue, alive>>

Ends(t) ==
  /\ Goto(t, "done")
  /\ queue' = Append(queue, "__DONE__")
  /\ Apart /\ UNCHANGED <<shared, alive>>

PopenFails(t) == At(t, "start") /\ Ends(t)

\* The loop goes on with whatever proc is now.
LoopGoesOn == running /\ proc \in alive

ReadLine(t) ==
  /\ At(t, "loop") /\ LoopGoesOn
  /\ reader' = [reader EXCEPT ![t] = [pc |-> "line", on |-> proc]]
  /\ Apart /\ UNCHANGED <<shared, queue, alive>>

LoopEnds(t) == At(t, "loop") /\ ~LoopGoesOn /\ Ends(t)

\* A line may still come from the pipe of a QEMU that ended.
GetLine(t) ==
  /\ At(t, "line")
  /\ queue' \in {queue} \cup (IF Len(queue) < MaxQueue THEN {Append(queue, "lobster>")} ELSE {})
  /\ Goto(t, "loop")
  /\ Apart /\ UNCHANGED <<shared, alive>>

GetNothing(t) == At(t, "line") /\ reader[t].on \notin alive /\ Ends(t)

\* A QEMU ends by itself: its own window is closed, or it crashes.
QemuExits(q) ==
  /\ q \in alive
  /\ alive' = alive \ {q}
  /\ UNCHANGED <<shared, queue, window, posted, demo, reader, launches, touched, rash>>

-----------------------------------------------------------------------------
(* The window.                                                             *)

OnEnded ==
  /\ running' = FALSE
  /\ shown' = "stopped"
  /\ enabled' = {"launch"}
  /\ UNCHANGED boot

OnPrompt == boot' = TRUE /\ UNCHANGED <<running, shown, enabled>>

\* Mutated: the marker that is looked for is not the one that is put.
HandleOther(item) == IF item = "__ENDED__" THEN OnEnded ELSE OnPrompt

\* One item of the queue.  The marker does not say which QEMU it is about.
Handle(item) == IF item = "__DONE__" THEN OnEnded ELSE OnPrompt

PollOutput ==
  /\ ui = "free" /\ queue # <<>>
  /\ Handle(queue[1])
  /\ queue' = Tail(queue)
  /\ UNCHANGED <<proc, ui, after, target, posted, demo, reader, alive, launches, touched, rash>>

\* Mutated: Launch can be clicked again at once.
StartAgain ==
  /\ launches' = launches + 1
  /\ running' = TRUE
  /\ shown' = "booting"
  /\ enabled' = Button
  /\ Goto(launches + 1, "start")
  /\ UNCHANGED <<boot, proc, queue, after, target, alive, demo>>

\* _start.  It does not ask whether a QEMU runs, and leaves boot_complete.
Start ==
  /\ launches' = launches + 1
  /\ running' = TRUE
  /\ shown' = "booting"
  /\ enabled' = {"stop", "restart"}
  /\ Goto(launches + 1, "start")
  /\ UNCHANGED <<boot, proc, queue, after, target, alive, demo>>

Then(next) == CASE next = "restart" -> "sleep" [] next = "close" -> "closed" [] OTHER -> "free"

\* _stop up to the wait, if there is something to stop.
Stop(next) ==
  /\ after' = next
  /\ IF proc \in alive
       THEN running' = FALSE /\ target' = proc /\ ui' = "wait"
       ELSE ui' = Then(next) /\ UNCHANGED <<running, target>>
  /\ UNCHANGED <<boot, proc, queue, enabled, shown, demo, reader, alive, launches>>

Click(b) ==
  /\ ui = "free"
  /\ b \in enabled \cup {"close"}
  /\ touched' = TRUE
  /\ rash' = (rash \/ Starting \/ b = "restart"
              \/ (b = "launch" /\ (demo.pc = "nap" \/ posted # <<>>)))
  /\ UNCHANGED posted

ClickLaunch == Room /\ Click("launch") /\ Start /\ UNCHANGED ui
ClickStop == Click("stop") /\ Stop("stop")
ClickRestart == Room /\ Click("restart") /\ Stop("restart")
Close == Click("close") /\ Stop("close")

\* What is terminated, waited for and, after 3 s, killed is proc as it is at
\* each of these calls.
Stopped ==
  /\ ui = "wait"
  /\ alive' \in {alive \ {proc}, alive \ {target, proc}}
  /\ ui' = Then(after)
  /\ UNCHANGED <<shared, queue, enabled, shown, after, target, posted, demo, reader,
                 launches, touched, rash>>

Relaunch ==
  /\ ui = "sleep"
  /\ ui' = "free"
  /\ Start
  /\ UNCHANGED <<posted, touched, rash>>

\* The callbacks of the demo.
RunStart ==
  /\ ui = "free" /\ posted # <<>> /\ posted[1] = "start"
  /\ posted' = Tail(posted)
  /\ Start
  /\ UNCHANGED <<ui, touched, rash>>

RunStop ==
  /\ ui = "free" /\ posted # <<>> /\ posted[1] = "stop"
  /\ posted' = Tail(posted)
  /\ touched' = (touched \/ Starting)
  /\ Stop("stop")
  /\ UNCHANGED rash

-----------------------------------------------------------------------------
(* The demo's thread (_run_automation).                                    *)

In(pc) == demo.pc = pc /\ ui # "closed"
Alone == UNCHANGED <<shared, queue, window, reader, alive, launches, touched, rash>>

PostStart ==
  /\ In("nap")
  /\ posted' = Append(posted, "start")
  /\ demo' = [demo EXCEPT !.pc = "boot"]
  /\ Alone

\* The prompt was seen, or 30 s are over; they may be over before the launch.
WaitForBoot ==
  /\ In("boot")
  /\ demo' = [demo EXCEPT !.pc = "send"]
  /\ UNCHANGED posted /\ Alone

\* _send_cmd looks at the QEMU, and then writes to the one proc is by then.
CheckProc ==
  /\ In("send") /\ demo.left > 0
  /\ demo' = IF proc \in alive THEN [demo EXCEPT !.pc = "write"]
                               ELSE [demo EXCEPT !.left = @ - 1]
  /\ UNCHANGED posted /\ Alone

\* A pipe to a QEMU that ended meanwhile raises an exception the thread ends of.
Write ==
  /\ In("write")
  /\ demo' = IF proc \in alive THEN [demo EXCEPT !.pc = "send", !.left = @ - 1]
                               ELSE [demo EXCEPT !.pc = "done"]
  /\ UNCHANGED posted /\ Alone

\* Mutated: a demo that never saw the prompt leaves QEMU for a look at it.
PostStopIfBooted ==
  /\ In("send") /\ demo.left = 0
  /\ posted' = IF boot THEN Append(posted, "stop") ELSE posted
  /\ demo' = [demo EXCEPT !.pc = "done"]
  /\ Alone

PostStop ==
  /\ In("send") /\ demo.left = 0
  /\ posted' = Append(posted, "stop")
  /\ demo' = [demo EXCEPT !.pc = "done"]
  /\ Alone

Demo == PostStart \/ WaitForBoot \/ CheckProc \/ Write \/ PostStop

Thread(t) ==
  \/ Popen(t) \/ Assign(t) \/ PopenFails(t)
  \/ ReadLine(t) \/ LoopEnds(t)
  \/ GetLine(t) \/ GetNothing(t)

Next ==
  \/ \E t \in Launch : Thread(t)
  \/ \E q \in Launch : QemuExits(q)
  \/ PollOutput
  \/ ClickLaunch \/ ClickStop \/ ClickRestart \/ Close
  \/ Stopped \/ Relaunch
  \/ RunStart \/ RunStop
  \/ Demo

\* The window's event loop runs for ever, what it waits for comes to an end, and
\* every thread is scheduled.
Fairness ==
  /\ WF_vars(PollOutput) /\ WF_vars(Stopped) /\ WF_vars(Relaunch)
  /\ WF_vars(RunStart) /\ WF_vars(RunStop)
  /\ WF_vars(Demo)
  /\ \A t \in Launch : WF_vars(Thread(t))

Spec == Init /\ [][Next]_vars /\ Fairness

-----------------------------------------------------------------------------
(* Properties.                                                             *)

\* When the window says "Stopped" to a user who is not rash, no QEMU runs: the
\* marker of the end that _poll_output handles is that of the last QEMU.  It
\* is what makes Launch safe to click again.
StoppedIsStopped == ~rash /\ shown = "stopped" => alive = {}

\* A demo nobody interferes with leaves no QEMU, whether the prompt came in
\* time or not, and though a write to a QEMU that just ended breaks it off.
DemoCleansUp ==
  ~touched /\ demo.pc = "done" /\ posted = <<>> /\ ui = "free" => alive = {}

\* When no QEMU runs and the window is not busy, Launch can be clicked in the
\* end, whatever the user clicks and the demo does.
LaunchReturns ==
  (ui = "free" /\ alive = {}) ~> ("launch" \in enabled \/ alive # {} \/ ui = "closed")

-----------------------------------------------------------------------------
(* What makes the two invariants inductive.                                *)

ReaderPc == {"none", "start", "made", "loop", "line", "done"}

TypeOK ==
  /\ running \in BOOLEAN /\ boot \in BOOLEAN /\ proc \in Launch \cup {0}
  /\ queue \in Seq({"lobster>", "__DONE__"})
  /\ enabled \subseteq Button /\ shown \in {"ready", "booting", "stopped"}
  /\ ui \in {"free", "wait", "sleep", "closed"} /\ after \in {"stop", "restart", "close"}
  /\ posted \in {<<>>, <<"start">>, <<"stop">>, <<"start", "stop">>}
  /\ demo \in [pc : {"nap", "boot", "send", "write", "done"}, left : Int]
  /\ DOMAIN reader = Launch /\ \A t \in Launch : reader[t].pc \in ReaderPc
  /\ alive \subseteq Launch /\ launches \in Nat
  /\ touched \in BOOLEAN /\ rash \in BOOLEAN

\* The demo's launch is to come.
Coming == demo.pc = "nap" \/ posted \in {<<"start">>, <<"start", "stop">>}

\* The demo posts its launch and then its stop, each once.
DemoInOrder ==
  /\ demo.pc = "nap" => posted = <<>>
  /\ demo.pc # "done" => posted \in {<<>>, <<"start">>}
  /\ launches = 0 => Coming

\* Where the thread of the last launch is.
Last == IF launches \in Launch THEN reader[launches].pc ELSE "none"

\* At most the last launch has a thread and a QEMU, and the marker of its end is
\* all the window may still have to handle of it.
OneAtATime ==
  /\ launches <= MaxLaunch /\ proc <= launches
  /\ ui # "sleep" /\ after # "restart"
  /\ Coming => launches = 0
  /\ \A t \in Launch : t # launches => reader[t].pc \in {"none", "done"}
  /\ alive \subseteq {launches}
  /\ launches = 0 => shown = "ready" /\ queue = <<>>
  /\ launches > 0 => shown # "ready" /\ Last # "none"
  /\ shown = "booting" => "launch" \notin enabled
  /\ shown = "stopped" => Last = "done" /\ alive = {}
  /\ \A i \in DOMAIN queue :
       queue[i] = "__DONE__" => i = Len(queue) /\ shown = "booting" /\ Last = "done"

\* What the thread of the last launch, the window and proc know of its QEMU.
LastIsKnown ==
  /\ Last \in {"start", "made"} => running /\ proc # launches
  /\ Last = "start" => alive = {}
  /\ Last \in {"loop", "line"} => proc = launches /\ (running \/ alive = {} \/ ui = "wait")
  /\ Last = "line" => reader[launches].on = launches
  /\ Last = "done" => alive = {} \/ ui = "wait"
  /\ ui = "wait" => Last \in {"loop", "line", "done"} /\ proc = launches

\* How far a demo has come that nobody interferes with.
DemoAlone ==
  /\ ~rash
  /\ posted = <<"start">> => demo.pc \in {"boot", "send"}
  /\ demo.pc = "write" => Last \in {"loop", "line", "done"}
  /\ demo.pc = "done" /\ posted = <<>> =>
       Last \in {"loop", "line", "done"} /\ (alive = {} \/ ui = "wait")

IInv ==
  /\ TypeOK /\ DemoInOrder
  /\ ~rash => OneAtATime /\ LastIsKnown
  /\ ~touched => DemoAlone
=============================================================================
