-------------------------------- MODULE Launcher --------------------------------
(***************************************************************************)
(* The desktop launcher (lobsteros_gui.py): a window whose thread handles  *)
(* clicks and, every 50 ms, the queue of output, and for each launch a     *)
(* thread that starts a QEMU and reads what it prints.  The threads share  *)
(* running, boot_complete and process without a lock, so each access is a  *)
(* step of its own; a click blocks the window until its handler is done.   *)
(*                                                                         *)
(* The n-th launch has thread n, and QEMU n if starting it succeeds.  Of   *)
(* the output only the lines that tell of a prompt matter.  No sleep is    *)
(* trusted to order two threads.                                           *)
(***************************************************************************)
EXTENDS Integers, Sequences

CONSTANTS
  MaxLaunch,   \* bounds the launches
  MaxQueue     \* bounds the output the window has not handled

\* At least one launch and one item that waits.
ASSUME Bounds == MaxLaunch \in Nat \ {0} /\ MaxQueue \in Nat \ {0}

Launch == 1 .. MaxLaunch
Button == {"launch", "stop", "restart", "send"}

VARIABLES
  running, boot, process,  \* running, boot_complete, process (0 is None)
  queue,      \* the markers in output_queue
  enabled,    \* the buttons that are not DISABLED
  shown,      \* what the status label says
  ui,         \* where the window's thread is
  after,      \* what it does once a _stop is done
  closing,    \* the window is about to be destroyed
  reader,     \* the threads: where each is, and whose output it reads
  alive,      \* the QEMUs that run
  target,     \* the QEMU the _stop in progress was called for
  launches,   \* launches so far
  rash        \* a click came while a thread was starting a QEMU or while closing

shared == <<running, boot, process>>
window == <<enabled, shown, ui, after, closing, target>>
vars == <<shared, queue, window, reader, alive, launches, rash>>

Init ==
  /\ running = FALSE /\ boot = FALSE /\ process = 0
  /\ queue = <<>>
  /\ enabled = {"launch", "send"} /\ shown = "ready"
  /\ ui = "free" /\ after = "stop" /\ closing = FALSE
  /\ reader = [t \in Launch |-> [pc |-> "none", on |-> 0]]
  /\ alive = {} /\ target = 0 /\ launches = 0 /\ rash = FALSE

-----------------------------------------------------------------------------
(* The threads of _run_qemu.                                               *)

At(t, pc) == reader[t].pc = pc /\ ui # "closed"
Goto(t, pc) == reader' = [reader EXCEPT ![t].pc = pc]
Window == UNCHANGED <<window, launches, rash>>

\* Popen makes the QEMU before process is assigned.
Popen(t) ==
  /\ At(t, "start")
  /\ alive' = alive \cup {t}
  /\ Goto(t, "made")
  /\ Window /\ UNCHANGED <<shared, queue>>

Assign(t) ==
  /\ At(t, "made")
  /\ process' = t
  /\ Goto(t, "loop")
  /\ Window /\ UNCHANGED <<running, boot, queue, alive>>

\* The end of the thread, also when an exception took it there.
Ends(t) ==
  /\ Goto(t, "done")
  /\ queue' = Append(queue, "__PROCESS_ENDED__\n")
  /\ Window /\ UNCHANGED <<shared, alive>>

PopenFails(t) == At(t, "start") /\ Ends(t)

\* The loop goes on with whatever process is now.
LoopGoesOn == running /\ process \in alive

ReadLine(t) ==
  /\ At(t, "loop") /\ LoopGoesOn
  /\ reader' = [reader EXCEPT ![t] = [pc |-> "line", on |-> process]]
  /\ Window /\ UNCHANGED <<shared, queue, alive>>

LoopEnds(t) == At(t, "loop") /\ ~LoopGoesOn /\ Ends(t)

\* A line may still come from the pipe of a QEMU that ended.
GetLine(t) ==
  /\ At(t, "line")
  /\ Goto(t, "loop")
  /\ Window /\ UNCHANGED <<shared, queue, alive>>

\* A line with the prompt, or any line 25 s after the launch.
GetPrompt(t) ==
  /\ At(t, "line")
  /\ ~boot
  /\ Goto(t, "prompt")
  /\ Window /\ UNCHANGED <<shared, queue, alive>>

GetNothing(t) == At(t, "line") /\ reader[t].on \notin alive /\ Ends(t)

MarkBoot(t) ==
  /\ At(t, "prompt")
  /\ Len(queue) < MaxQueue
  /\ queue' = Append(queue, "__BOOT_COMPLETE__")
  /\ Goto(t, "loop")
  /\ Window /\ UNCHANGED <<shared, alive>>

\* A QEMU ends by itself: its own window is closed, or it crashes.
QemuExits(q) ==
  /\ q \in alive
  /\ alive' = alive \ {q}
  /\ UNCHANGED <<shared, queue, window, reader, launches, rash>>

-----------------------------------------------------------------------------
(* The window.                                                             *)

OnBootComplete ==
  /\ boot' = TRUE
  /\ shown' = "running"
  /\ enabled' = Button \ {"launch"}
  /\ UNCHANGED running

OnEnded ==
  /\ running' = FALSE /\ boot' = FALSE
  /\ shown' = "stopped"
  /\ enabled' = {"launch"}

\* Mutated: the marker a thread ends with is recognised.
HandleEnded(item) ==
  IF item = "__PROCESS_ENDED__\n" THEN OnEnded ELSE OnBootComplete

\* One item of the queue: anything else is text.
Handle(item) ==
  IF item = "__PROCESS_ENDED__" THEN OnEnded
  ELSE IF item = "__BOOT_COMPLETE__" THEN OnBootComplete
  ELSE UNCHANGED <<running, boot, shown, enabled>>

PollOutput ==
  /\ ui = "free" /\ queue # <<>>
  /\ Handle(queue[1])
  /\ queue' = Tail(queue)
  /\ UNCHANGED <<process, ui, after, closing, target, reader, alive, launches, rash>>

\* _launch.  Stop and Restart stay as they are.
StartLaunch ==
  /\ launches < MaxLaunch
  /\ launches' = launches + 1
  /\ running' = TRUE /\ boot' = FALSE
  /\ shown' = "booting"
  /\ enabled' = enabled \ {"launch", "send"}
  /\ Goto(launches + 1, "start")
  /\ UNCHANGED <<process, queue, after, closing, target, alive>>

Click(b) ==
  /\ ui = "free"
  /\ b \in enabled \cup {"close"}
  /\ rash' = (rash \/ closing \/ \E t \in Launch : reader[t].pc \in {"start", "made"})

ClickLaunch == Click("launch") /\ StartLaunch /\ UNCHANGED ui

Then(next) == CASE next = "restart" -> "sleep" [] OTHER -> "free"

\* Mutated: a restart starts the next QEMU without looking at the last.
StopOnlyStops(next) ==
  /\ after' = next
  /\ IF process \in alive /\ next # "restart"
       THEN running' = FALSE /\ target' = process /\ ui' = "wait"
       ELSE ui' = Then(next) /\ UNCHANGED <<running, target>>

\* Mutated: only an emulator that booted is stopped.
StopBooted(next) ==
  /\ after' = next
  /\ IF process \in alive /\ boot
       THEN running' = FALSE /\ target' = process /\ ui' = "wait"
       ELSE ui' = Then(next) /\ UNCHANGED <<running, target>>

\* _stop up to the wait, if there is something to stop.
Stop(next) ==
  /\ after' = next
  /\ IF process \in alive
       THEN running' = FALSE /\ target' = process /\ ui' = "wait"
       ELSE ui' = Then(next) /\ UNCHANGED <<running, target>>

StopLeaves == UNCHANGED <<boot, process, queue, enabled, shown, reader, alive, launches>>

ClickStop == Click("stop") /\ Stop("stop") /\ StopLeaves /\ UNCHANGED closing
ClickRestart == Click("restart") /\ Stop("restart") /\ StopLeaves /\ UNCHANGED closing

\* The window is closed: at once if nothing runs, else after a _stop and 500 ms
\* in which it goes on handling clicks.
Close ==
  /\ Click("close")
  /\ closing' = TRUE
  /\ IF running THEN Stop("close")
                ELSE ui' = "closed" /\ UNCHANGED <<running, after, target>>
  /\ StopLeaves

Destroy ==
  /\ ui = "free" /\ closing
  /\ ui' = "closed"
  /\ UNCHANGED <<shared, queue, enabled, shown, after, closing, target, reader, alive,
                 launches, rash>>

\* What is terminated, waited for and, after 3 s, killed is process as it is at
\* each of these calls.
Stopped ==
  /\ ui = "wait"
  /\ alive' \in {alive \ {process}, alive \ {target, process}}
  /\ ui' = Then(after)
  /\ UNCHANGED <<shared, queue, enabled, shown, after, closing, target, reader, launches, rash>>

Relaunch ==
  /\ ui = "sleep"
  /\ ui' = "free"
  /\ StartLaunch
  /\ UNCHANGED rash

Thread(t) ==
  \/ Popen(t) \/ Assign(t) \/ PopenFails(t)
  \/ ReadLine(t) \/ LoopEnds(t)
  \/ GetLine(t) \/ GetPrompt(t) \/ GetNothing(t)
  \/ MarkBoot(t)

Next ==
  \/ \E t \in Launch : Thread(t)
  \/ \E q \in Launch : QemuExits(q)
  \/ PollOutput
  \/ ClickLaunch \/ ClickStop \/ ClickRestart \/ Close \/ Destroy
  \/ Stopped \/ Relaunch

\* The window's event loop runs for ever, what it waits for comes to an end, and
\* every thread is scheduled.
Fairness ==
  /\ WF_vars(PollOutput) /\ WF_vars(Stopped) /\ WF_vars(Relaunch) /\ WF_vars(Destroy)
  /\ \A t \in Launch : WF_vars(Thread(t))

Spec == Init /\ [][Next]_vars /\ Fairness

-----------------------------------------------------------------------------
(* Properties.                                                             *)

\* A user who does not click while a QEMU is being started or the window is
\* being closed never has two emulators at once.
OneEmulator == ~rash => \A p, q \in alive : p = q

\* Such a user has no emulator left when the window is gone.
CloseLeavesNothing == ~rash /\ ui = "closed" => alive = {}

\* While such a user's emulator runs and the window is not busy stopping it,
\* the window knows that it does, so that commands are sent, and once it has
\* shown a prompt it can be stopped.
LiveIsControllable ==
  ~rash /\ ui = "free" /\ process \in alive =>
    /\ running
    /\ boot => {"send", "stop"} \subseteq enabled

\* "Click "Launch" to boot LobsterOS": when no emulator runs and none is being
\* started, Launch can be clicked again in the end.
LaunchReturns ==
  (ui = "free" /\ alive = {}) ~> ("launch" \in enabled \/ alive # {} \/ ui = "closed")

-----------------------------------------------------------------------------
(* What makes the first three inductive.                                   *)

Item == {"__PROCESS_ENDED__\n", "__BOOT_COMPLETE__"}
Phase == {"none", "start", "made", "loop", "line", "prompt", "done"}

TypeOK ==
  /\ running \in BOOLEAN /\ boot \in BOOLEAN /\ process \in 0 .. MaxLaunch
  /\ queue \in Seq(Item)
  /\ enabled \subseteq Button /\ shown \in {"ready", "booting", "running", "stopped"}
  /\ ui \in {"free", "wait", "sleep", "closed"} /\ after \in {"stop", "restart", "close"}
  /\ closing \in BOOLEAN /\ rash \in BOOLEAN
  /\ reader \in [Launch -> [pc : Phase, on : 0 .. MaxLaunch]]
  /\ alive \subseteq Launch /\ target \in 0 .. MaxLaunch
  /\ launches \in 0 .. MaxLaunch

\* A thread starts the QEMU of its launch, or has made it and not told yet.
Starting(t) == reader[t].pc \in {"start", "made"}
Settled == \A t \in Launch : ~Starting(t)

\* Only a launch has a thread, and only a thread sets process.
OnlyLaunched ==
  /\ \A t \in Launch : t > launches => reader[t].pc = "none"
  /\ process <= launches

\* Launch is enabled only before the first launch; what a prompt enabled stays
\* enabled until the next launch.
ButtonsFollow ==
  /\ "launch" \in enabled => launches = 0
  /\ launches = 0 => process = 0 /\ alive = {} /\ Settled
  /\ boot => {"send", "stop"} \subseteq enabled

\* While a QEMU is being started it is the last one's, the window is free and
\* not closing, and no other QEMU runs ...
StartingAlone ==
  \A t \in Launch : Starting(t) =>
    /\ t = launches /\ process # t
    /\ running /\ ui = "free" /\ ~closing
    /\ alive \subseteq (IF reader[t].pc = "made" THEN {t} ELSE {})

\* ... and otherwise none runs but the one the window knows as process, and that
\* only where running says so.
KnownOnly ==
  Settled =>
    /\ alive \subseteq {process}
    /\ ui \in {"free", "closed"} /\ process \in alive => running
    /\ ui = "sleep" => alive = {}

\* A window that is closing has stopped everything once its _stop is done.
ClosingStops ==
  /\ closing /\ ui # "wait" => ui \in {"free", "closed"} /\ alive = {}
  /\ closing /\ ui = "wait" => after = "close"
  /\ ui = "closed" => closing

IInv ==
  /\ TypeOK
  /\ OnlyLaunched
  /\ ButtonsFollow
  /\ ~rash => StartingAlone /\ KnownOnly /\ ClosingStops
=============================================================================
