# pi5-emulator in TLA+

A verification development of the emulator's own devices and tools: the QEMU
devices it adds or changes (C) and the programs that launch and drive it
(Python, shell).  Line numbers refer to the repository.

## 1. The system

The repository is a set of files to be put into a QEMU tree, and the programs
around it.  A guest (LobsterOS) runs on an emulated Raspberry Pi 5; it talks to
the devices by loads and stores to their registers (MMIO).  QEMU runs every
device handler, every input callback and every redraw under one global lock, so
one handler is atomic; what interleaves is the *sequence* of handlers: a guest
needs several register accesses for one operation, and the host pushes input,
redraws or injects events between them.  The launchers are ordinary threaded
programs, without any lock.

| Component | State | Operations | Talks to |
|---|---|---|---|
| lobster-input, the ring (`hw/misc/lobster_input.c`) | `events[32]`, `head`, `tail` | push (host), reads of HEAD, TAIL and slots, ADVANCE_HEAD, CLEAR (guest) | the guest's poll loop |
| lobster-input, the sources (same file) | `modifiers`, `abs_x/y`, `btn_state` | pointer, button, sync and key callbacks; monitor's `lobster_input_hmp_*` | QEMU's display layer, the monitor, the ring |
| lobster-net (`hw/misc/lobster_net.c`) | URL buffer and length, AUTH_MODE, status, response | buffer writes, fetch, compile, reset | curl, gcc and temporary files of the host |
| framebuffer (`hw/display/bcm2835_fb.c`) | configuration, `invalidate`, `pending`, console size, mapped section | mailbox request and answer, redraw, invalidate, reset | mailbox, host display, guest memory |
| CPRMAN (`hw/misc/bcm2835_cprman.c`) | registers, a tree of clocks | register writes, propagation, reset | every device with a clock, the UART above all |
| GUI launcher (`lobsteros_gui.py`) | `running`, `process`, `boot_complete`, queue, button states | Launch, Stop, Restart, close; a thread per launch; a poll every 50 ms | QEMU processes |
| demo launcher (`lobsteros_auto_demo.py`) | `running`, `proc`, queue, demo thread | Start, Stop, Restart, a scripted demo | QEMU processes |
| GUI test (`tools/gui_test.py`) | serial buffer, monitor socket | wait for boot, send a command, expect a line, screendump | QEMU's serial line and monitor |
| snapshots (`vm.sh`) | an overlay image | `savevm`, `loadvm`, `delvm` | QEMU |
| V3D stub (`hw/arm/bcm2712_v3d.c`) | registers, interrupt status and mask | register writes, software reset | interrupt controller |
| SoC wiring (`hw/arm/bcm2712*.c`, `bcm2835_peripherals.c`, `bcm2836.c`) | memory regions, aliases, interrupt lines, errors, built up at startup | three nested realize functions of a hundred steps | every device |
| board and boot (`hw/arm/raspi.c`, `raspi5b.c`) | RAM for booting, entry, memory nodes | machine init: chip, card, kernel, loader | SoC |
| PCIe stub (`bcm_pcie.c`), `run_*.sh`, `tools/el0_gui_demo.c` | stored registers; none | | |

`hw/arm/bcm2835_fb.c`, `hw/arm/bcm2835_cprman.c` and `hw/arm/bcm_pcie.c` are
byte-for-byte copies of the files in `hw/display`, `hw/misc` and `hw/pci-host`.
The headers `lobster_input_hmp.h`, `bcm2835_cprman.h` and
`bcm2835_cprman_internals.h` are not in the repository.

What is hard in each, and what makes it correct:

- **Ring.**  The guest polls with four or five accesses while the host pushes,
  and a full ring drops its oldest event by moving the guest's own index.
  Correct means: order kept, no event twice, no half of one event with half of
  another, and a guest that keeps polling catches up.
- **Sources.**  Two keys share a modifier bit, motion is accumulated and told
  only at the sync, the monitor injects between the two, the queue may lose any
  event, a reset of the machine does not reset the device.  Correct means: a
  guest that has read everything knows pointer, buttons, keys and modifiers.
- **lobster-net.**  A dozen early returns, each with its own files to remove and
  its own status to set; a token that must not survive its fetch; a status code
  to be found at the end of untrusted output that may be cut.
- **Framebuffer.**  Configuration changes, redraws and resets in any order; the
  section drawn from must follow the configuration; 32-bit arithmetic.
- **CPRMAN.**  A change must reach every clock below it and none must depend on
  the order of writes; registers and clocks are matched by index arithmetic.
- **Launchers.**  Several threads share flags without a lock; a stale marker in
  the queue, a Restart before `process` is assigned, a close during a stop.  The
  demo launcher adds a thread that plays the user.
- **SoC and board.**  A machine is put together by a long sequence of calls in
  three functions that were written apart.  Regions overlap and the order of
  mapping decides who answers; connections are made to one interrupt controller
  and made again to another; an error may be looked at much later; two functions
  compute where the video memory is, in different widths.  Correct means: a
  machine that is ready is complete, every device answers where it was mapped,
  every interrupt arrives, RAM the guest is told of is RAM and not video memory,
  and the CPU gets to the program.

`PROJECT.json` lists the components, the hazards with their lines, and for each
the properties that cover it.

## 2. Modules

```
DropOldestQueue          what the ring promises
   ^ implemented by
InputPoll  --EXTENDS-->  EventRing         ring and polling guest
   ^                                        (InputPollProofs)
   | its queue is used by
InputSources             what is put into the queue   (MCInputSources, InputSourcesProofs)

LobsterNet               fetch and compile            (MCLobsterNet, LobsterNetProofs)
Framebuffer              configuration and redraw     (MCFramebuffer, FramebufferProofs)
Cprman                   clock tree                   (MCCprman, CprmanProofs)
Launcher                 the GUI launcher and its threads   (LauncherProofs)
AutoDemo                 the launcher that drives itself    (AutoDemoProofs)

MemoryMap                which region answers an address
   ^ instantiated by
SocWiring                what the realize functions do, as data
   ^ run by
Board                    making a machine             (MCBoard, BoardProofs)
```

A definition whose comment begins with "Mutated:" is a wrong version of the
definition after it, kept to show that a property notices it; nothing else uses
it.

### EventRing, InputPoll, DropOldestQueue

`EventRing` has the ring as a record and `push_event`, ADVANCE_HEAD and CLEAR as
operators on it, for a ring of `N` slots.  `InputPoll` adds the actors.  Event
`i` is the i-th pushed.  `PushOne` and `PushTwo` are the handlers that push one
and two events under the lock; the guest's poll is one action per register
access: `ReadHead`, `ReadTail`, `ReadLow`, `ReadHigh` (a slot has 16 bytes, an
access at most 8), `WriteAdvanceHead`.  The guest is not in the repository: this
is the protocol the header comment of the device (`lobster_input.c:9-18`) and
the comment on ADVANCE_HEAD (`:413-416`) describe.  `cleared` and `overrun`
record what the properties speak of and steer nothing.

Two facts about the code shape the properties: a guest overtaken by *one* push
is unharmed, because that push moves HEAD to where the guest would have put it;
overtaken by two it may read halves of two events and move HEAD back.  Events
can be lost then, but never reordered or repeated.

`DropOldestQueue` says this without indices: events leave only at the old end
and what is received is always newer.  `InputPoll` implements it (`QueueSpec`).

### InputSources

The callbacks as actions, the queue as a sequence of which only the newest
`Capacity` stay.  `Key` is the whole of `lobster_kbd_event`: the modifiers, the
table, the event.  `held`, `pressed` are the physical keys and buttons, `view`
is what the guest knows from the events it took.  Events tell of topics: the
position, the buttons, the flags, and for the keys each code by itself.  `lost`
and `injected` are the topics the guest cannot know: the newest event about them
was lost, or came from the monitor, which does not tell the device's own state.
The next event of the topic that reaches the guest, or that comes from the
user's hands, takes them out again, so an injected click is made up for by the
next real one.  The scancode table is cut to the keys the configurations use;
Y and the space bar are among them, to which the code gives one scancode.

### LobsterNet

A command runs within the guest's write to CMD; it is several steps here, one
per call to the host that can fail, because the host may kill QEMU between two
(`Restart`).  A byte is a symbol.  `Request` is the splitting of the buffer
into token and URL, `Parse` the search for the status code.  curl and gcc
answer anything of `Bodies`, `Codes`, `Programs` and `Messages`, or fail; curl
may break off after any byte of its output (`CurlBreaksOff`), at once if it
cannot be run.  `answer` is what the host made for the last command, `left` the
temporary files the command did not remove when it returned.  A QEMU that was
restarted has no command and no files of its own: what a killed one leaves, no
code of the device could remove.

### Framebuffer

`config`, `invalidate`, `pending` as in the code; `section` is the memory mapped
by the last redraw; `told` and `reply` are what the guest was answered.
`Validate` is composed of its three parts, in the order of the code; unsigned
subtraction wraps at `Wrap`.  `lock` is never true between two handlers and is
left out, as are the palette and the drawing of lines.  `xoffset` counts bytes,
as in the code.

### Cprman

A register is the record of its fields; `Freq` is the function of each kind of
clock.  `Propagate` is QEMU's clock propagation: the clocks a write recomputes
and, after those that feed them, all that listen.  A mux listens to the source
it has selected only (`clock_mux_src_update`).  `stale` holds the clocks whose
own registers changed without the device looking at them.  The register layout
is a parameter; `MCCprman` takes three muxes four words apart, as TD0, TSENS
and UART are.

### Launcher

`reader[t]` is where the thread of launch `t` is in `_run_qemu`; Popen and the
assignment to `self.process` are two steps.  `ui` is where the window's thread
is: a stop waits up to 3 s and a restart sleeps, and meanwhile the window
handles nothing.  `process` is read anew at each use, by whichever thread.
The queue has the markers only: text does not change the window's state.
`rash` records that the user clicked while a thread was starting a QEMU or
after closing the window; the window does not prevent it, and the safety
properties are about users who do not.

### AutoDemo

As `Launcher`, with the differences of the code: the end marker *is* recognised
(`lobsteros_auto_demo.py:256`), so one that is late may be taken for that of the
next QEMU; a start neither asks whether a QEMU runs nor clears `boot_complete`; a
close waits for the stop at once.  The demo's thread posts callbacks to the
window (`posted`), looks at `proc`, and writes to the one `proc` is by then.
A thread may still read lines of a QEMU that has ended: they are in the pipe.
`touched` records that a user clicked at all, `rash` that one clicked Restart,
Launch before the demo's own launch, or anything while a QEMU was being started:
of these the window says "Stopped" of an emulator that runs (see the findings).

### MemoryMap, SocWiring, Board

`MemoryMap` states QEMU's rules, on which the code relies: placements in
containers, a higher priority on top, of equal ones the later; containers that
answer nothing themselves; aliases.  A region that is taken out keeps its
placement, with nothing to be in, so that a map only grows.  It is external, as are the connection of an
output (a later one replaces it) and the assertion on removing a region from a
container it is not in.

`SocWiring` has for each of six machines three sequences of operations: `common`
(`bcm_soc_peripherals_common_realize`), `own` (the chip's peripherals) and `soc`
(the chip).  An operation realizes a child and then maps and connects it, or
only maps and connects.  Addresses are in units of 256 bytes, the finest that
keeps devices apart; a device's registers are one unit, because what matters is
whether its first address reaches it; unimplemented blocks keep their size and
their low priority.  Disabled blocks, clock wires and properties that only
configure a device are left out.

`Board` runs the operations one by one.  Any child may fail; the common section's
error is not looked at by its caller, so `own` begins with the error set.
`PlaceVcram` is the computation in the peripherals (64 bits), `BootRam` the one
of the board (32 bits).  Two places are undefined and therefore choices: the
alias that lives on the stack may stop working (`Expire`), the window that is
added twice may damage QEMU's list (`Lost`) or not.  The constant `SdBusAlias`
is FALSE in the code; with it the Pi 5 ends at the SD card (run `board_sd`).
TRUE adds the one call `bcm2836.c:83` makes, so that the run `board` can examine
what comes after on the Pi 5 too; it changes nothing for the other machines.

The CPU starts at the entry that firmware or QEMU's own loader left.  `Loadable`
says which programs that loader takes where (external, from how the boards call
it), an ELF file at 0 among them, whose entry is not to be told from none.  On
the Pi 5 `WriteBootloader` replaces what is at 0; where an image was loaded there
too it is left to QEMU which of the two stays (`BareMetal`).  With firmware the
Pi 5 writes its loader if a kernel was given as well, and starts the firmware.

## 3. Runs

| Run | Bounds | Shows |
|---|---|---|
| `input_poll` | 4 slots, 9 pushes | `RingInOrder`, `NeverSeenBefore`, `TornOnlyWhenOverrun`, `AdvanceConsumesOne`, the refinement `QueueSpec`, liveness `Drains` |
| `input_burst` | 4 slots, 7 pushes | *violated*: the comment on ADVANCE_HEAD that no unconsumed event is lost |
| `input_sources` | queue of 2, 5 keys, 3 buttons, 4 calls | pointer, buttons, keys and flags converge; no stuck modifier |
| `net` | buffer of 3, token of 1, response of 9 | every command ends, with its own answer and code; a token once per arming; no file left after a success, at most one after a failure |
| `cprman` | 2 PLLs, 2 channels, 3 muxes, 4 writes | clocks follow; the order of writes does not matter |
| `cprman_mux` | 5 writes | *violated*: "matches CM_CTL or CM_DIV mux register" |
| `fb` | resolutions to 2, 288 requests | section and reply follow the configuration, which is valid; pixels are in the frame unless the viewport is moved along a virtual side shorter than its own |
| `launcher` | 3 launches, 2 markers waiting | one emulator, none after closing, the live one is controllable |
| `launcher_again` | 2 launches | *violated*: Launch can be clicked again |
| `board` | 6 machines, 5 sizes of video memory, 3 entries, every child failing | a ready machine is complete, every device answers where it was mapped, interrupts are heard and share no input, RAM told is RAM, the CPU gets to the program |
| `board_sd` | same, with the code's SD bus | *violated*: the bus "for board-level connections" is found |
| `demo` | 2 launches, 1 prompt waiting, 1 command | "Stopped" is true for users who are not `rash`, a demo left alone leaves no QEMU, Launch comes back |

Properties that are proved for every value of the constants and are not checked
again by a run: `TypeOK` of InputPoll, Framebuffer, Launcher and AutoDemo,
`ConsoleFollowsConfig`, `PendingIsSignalled`, and the inductive invariants; those
of InputSources, Launcher and AutoDemo stand beside their models, where TLC
checked them before they were proved.

**Why the bounds are enough.**  `MaxPush` = 9 fills a ring of 4 (3 events) three
times over, so a poll can be overtaken by every number of pushes up to a whole
turn and more, with HEAD at each slot.  A queue of 2 is lost from by the third
event; 4 calls hold a key, its twin, a release and an injection; the keys are
two of one modifier, two of one code and one without.  In `net` the
buffer has room for a token, its newline and a URL in every order, and bodies
leave room for the code, cut it, or lose it; curl breaks off at every byte.  In `cprman` 4 writes change a
PLL, its channel, the mux that selects it and one above.  In `fb` every
resolution is zero, valid or too large and every virtual one below, at or above
the real one.  In `launcher` two launches overlap and a third can meet markers
of the first; in `demo` the second launch overlaps the end of the first.  In
`board` the machines have every chip of `raspi.c` and `raspi5b.c` and 512 MiB to
4 GiB of RAM, and the video memory is smaller than the peripherals it lies
beneath, as large, the default, all of the RAM of the smaller boards, and more; programs
begin where the Pi 5's loader expects them, elsewhere, and at 0.
The wiring itself is not bounded: it is the code's.  `MaxPush`, `MaxInput`,
`MaxWrite`, `MaxLaunch` and `MaxQueue` are the only bounds; each is in a guard of the action that counts.

**Deadlock.**  It is checked in `input_poll`, `input_burst`, `net`, `fb`, `board`
and `board_sd`, where the end of making a machine is a step of its own
(`Stopped`).  In the others a bound on inputs makes the model stop (`MaxInput`,
`MaxWrite`, `MaxLaunch`), and the launchers really end when their window
is closed.

**Fairness.**  `InputPoll`: weak fairness of the guest's poll, whose kernel polls
in its main loop for ever; none of the host.  `Launcher`: weak fairness of the
window's event loop (`root.after(50, ...)` always re-arms, `lobsteros_gui.py:318`),
of the end of a stop (terminate, then kill, `:463-468`), and of each thread.
`AutoDemo`: the same of the window's loop (`:264`), its callbacks, the wait in a
stop (`:275-282`), every thread and the demo's thread.
QEMU's exit and the user's clicks are not fair.  No other module
states liveness.

**Violated properties.**  Each quotes a comment or document of the repository and
is explained under "findings" in `PROJECT.json`, with further divergences that
need no run: the UART's default clock written to the wrong word, scancodes of Y,
RIGHT and UP, limits and versions in the register tables, an offset in bytes,
devices without vmstate; modifiers of two keys in one bit.  Where the code goes
wrong and a passing property has to leave a case out, the finding names the
property and the case: Y and the space bar (`KeysConverge`), messages of gcc that
cannot be opened (`ReplyIsTheCommands`), a status code nobody sent
(`CodeIsTheCommands`), temporary files not removed (`LeftBehind`), an offset that
is not clipped (`PixelsInFrame`), "Stopped" after a Restart (`StoppedIsStopped`),
an ELF file at 0 (`EntryReachesProgram`).  And of the Pi 5 the lost interrupts, the
hidden UART alias, the empty SCB bus, the RP1's UARTs without registers, the
memory node that is never added.

## 4. Proofs

`tlapm` checks them without leaving a step unproved.  Each module of proofs
extends the model it is about; the listed theorems are in `PROJECT.json`.

**InputPollProofs**, for every `N >= 2` and every `MaxPush`.  The properties are
not inductive: that a slot read now is newer than all consumed before depends on
how many pushes fit between the guest's accesses.  `IInv` adds `Written` (a slot
written since the last CLEAR holds the event its age tells), `HeadInWritten`
(HEAD is in that part and not before what the guest consumed), `HeadNearPoll`
(not overtaken: HEAD is where the poll read it; overtaken once: the ring is full
and the poll's slot is the next to go), `PollAimsAtNew`, `ReadLowNew`,
`ReadHighNew`.  All of it rests on `PushFacts` and `AdvanceFacts`: how ages and
counts modulo `N` change.  `HostPush` is one push; `PushTwo` uses it twice.
Proved: `TypeOK`, `RingInOrder`, `NeverSeenBefore`, `TornOnlyWhenOverrun`; the
action property `AdvanceConsumesOne`; and `QueueSpec`, that the ring implements
the queue that drops its oldest event.  For the last two `PendingIsLast` gives
the unread slots a closed form, the last so many events pushed; a push, an
ADVANCE_HEAD and a CLEAR then are suffixes of it (`PushIsSend`, `AdvanceOfPoll`,
`SuffixOfLast`), and `QueueStep` takes the actions one by one, two pushes in one
handler being one step of the queue.
Assumed of constants: `RingSize`, `PushBound`, `ZeroedSlots`.

**InputSourcesProofs**, for every capacity of the queue, screen, set of keys and
of buttons, and number of calls.  The four convergence properties are one: for a
topic (position, buttons, flags, one scancode) the newest event about it in the
queue says what the device says, and if there is none and none was lost, the
guest's view says it (`ConvergeInv`).  `PushConverges` and `TakeConverges` show
that a push that drops events, and the guest's taking one, keep that for every
topic; each handler then needs only what its events say.  Proved: `TypeOK`,
`NoStuckModifier`, `PointerConverges`, `ButtonsConverge`, `FlagsConverge` and
`KeysConverge`.  Of the table nothing is assumed: a code the guest holds down is
always that of a key that is down, and a key that is down is held by the guest
if no other has its code (`Sole`).  The code gives Y and the space bar the same,
one of the findings, and then the guest does forget a key that is down.
Assumed: `InputBounds`.

**LobsterNetProofs**, for every buffer size and every behaviour of curl and gcc.
`NetInv` strengthens each property with where a command is: AUTH_MODE set
implies armed, a fetch in progress has taken it back, a request exists only
during a fetch, temporary files exist only from the step that makes them.  It
gives `NeverSeenBusy`, `TokenOncePerArming`, `LeftBehind`: each return is
weighed by the files it leaves, the two that leak included.  `TypeOK` is in parts,
one for the buffer, one for the registers, one for what is known; it is what
bounds the response by its buffer.  `RequestSplitsBuffer` is `RequestFacts`, the
taking apart of the buffer at its first newline.  `ReplyIsTheCommands` and
`CodeIsTheCommands` rest on `AnswerInv` (the registers hold what the last command
answered, also while its files are removed), on `FetchReadsPrefix` (what is read,
whole, cut by the buffer or broken off, is a beginning of what curl wrote) and on `CurlOutputParsed`: whatever
newlines and digits the body has, the parser finds the code curl appended, unless
it was cut.  The value of the digits is a recursive function; `NumberIsNat` shows
by induction over the length that there is such a function and that it gives
numbers.  Assumed: `NetSizes`, `NetInputs`; its last part, that a code is shorter
than the room the code leaves for it, is what curl's `%{http_code}` gives (three
digits) and the parser's buffer has room for (`lobster_net.c:207`).

**FramebufferProofs**, for every screen size, initial configuration and set of
requests.  The point is that validation is idempotent although it clips with a
difference that may wrap (`ValidateFacts`: its first two parts leave its result
alone, and clipping twice is clipping once).  Proved: `TypeOK`,
`SectionFollowsConfig`, `ReplyDescribesConfig`, `ConfigIsValid`,
`ConsoleFollowsConfig`, `PendingIsSignalled`; and `PixelsInFrame`, for every
viewport and virtual screen but a viewport moved along a virtual side shorter
than its own (`ViewportInside` needs an offset that was clipped or is 0), if the
pixels of the largest screen fit in a word (`PixelsFit`, a hypothesis of the theorem:
the code does not check it, and the product that wraps is a hazard of its own).
Assumed: `FbSizes`, `FbConfigs`.

**CprmanProofs**, for every tree of clocks without cycles and every layout of the
registers.  `ClocksFollow` with the types and with "every mux selects a source it
has" is inductive; the work is `Propagate`, a pass over the clocks in an order in
which each comes after those that feed it.  `StepsTaken` shows that the pass, a
fold, has a state after each of its visits; `PropagateFacts`, by induction over
the visits, that a clock that was touched or whose feeder changed ends with the
frequency its registers give, and the others keep theirs.  That needs `FreqIsLocal`
(a frequency depends only on what the clock listens to) and that a clock listens
only to clocks before it.  `OrderOfWrites` follows: where every clock follows,
computing the tree anew changes nothing (`NothingToSettle`).  Assumed:
`ClockKinds`, `ClockInputs`, `ClockTree`, `ClockNumbers`, `ClockReset`; TLC
evaluates all five on the tables `MCCprman` takes from the code.

**LauncherProofs**, for every number of launches.  For a user who is not `rash`,
`IInv` says who may be running at each place the window's thread and the launch
threads can be in: while a QEMU is being started it is the last launch's, the
window is free and no other runs (`StartingAlone`); otherwise none runs but the
one the window knows, and that only where `running` says so (`KnownOnly`); a
window that is closing has stopped everything once its stop is over
(`ClosingStops`).  `ButtonsFollow` is part of it: that Launch is never enabled
again, a finding, is what keeps a second launch away.  Proved: the types,
`OneEmulator`, `CloseLeavesNothing`, `LiveIsControllable`.  Assumed: `Bounds`.

**AutoDemoProofs**, for every number of launches and commands.  Here Launch comes
back, so `OneAtATime` has to carry what was there a matter of buttons: the queue
holds at most one marker of an end, as its last item, and Launch can be clicked
only after it was handled; `LastIsKnown` says where `proc` and `running` are while
the last thread is at each of its places.  `DemoAlone` follows the demo nobody
interferes with, `DemoInOrder` what it posts.  Proved: the types,
`StoppedIsStopped`, `DemoCleansUp`.  Assumed: `DemoBounds`.

**BoardProofs**, for every size of video memory, every entry and either value of
`SdBusAlias`; the wiring is the code's.

- *Complete.*  `ReadyIsComplete` is not inductive: it speaks of the end only.
  `BuildInv` says that without an error every child before the next operation is
  realized (`RealizedUpTo`), and so all of every section that has ended; that a
  section ends only behind its last child needs `SectionsAreSequences`, because
  the sequences are concatenations of functions.  The step that matters is the
  end of `common`, where an error is passed by: then nothing is claimed until it
  clears, and it never does.
- *Booting.*  `ProgramIsReached` is a case for each way to boot and what it may
  leave at 0, for every address at which programs begin; the Pi 5's loader is
  written after the entry was read and the two change together.  A program at 0
  on the Pi 5 is the one exception.  `VcramInv` is
  the two computations of the base: the framebuffer refuses a base of zero, so in
  a machine that is ready the board takes the base the peripherals chose and does
  not subtract again.
- *What answers.*  `Answer` is a recursion over regions and addresses.  It is well
  founded, although containers hold containers and aliases show containers: what
  a region asks has a lower address or a lower place in the tree, so 7 times the
  address plus the height of the region decreases (`AsksLower`), and there is a
  function that satisfies the definition (`AnswerIsShown`).
- *Good operations.*  Every operation of every section is good (`GoodProgram`): its
  placements are listed and stay away from the RAM and from what the GPU sees of it
  (`Apart`), and
  its connections follow one table of what drives which input (`Driver`), but for
  two that the Pi 5's chip makes again (`Moved`).  These lemmas walk the wiring, in
  the pieces in which `SocWiring` has it.
- *The map.*  `MapInv`: the RAM is in the map, the GPU's view of it once it was
  placed, and all else is apart.  So an address below the peripherals hits one
  placement (`OneThingAnswers`), and `RamToldIsRam` and `VideoMemoryIsApart` follow
  with `VcramInv`.
- *Who answers.*  `NoDeviceHidden` needs to know all that may be in the map, so
  `Apart` also says that a placement is `Listed`: which region, in which container,
  where.  That list alone is not enough, since on the Pi 5 the RP1 covers the
  address of the random number generator: `OrderInv` says that the generator is
  not placed before the RP1 (`Rp1ToCome`), which makes it the upper one, and that
  the peripherals and the RP1 are there when the sections that place them have
  ended.  `Begins` is a recursion over the regions; what a region is placed in is
  less deep in the tree, so four rounds determine it (`BeginsIsSum`).  Then one lemma
  for each kind of device says that it is the topmost that is no hole
  (`IsOnTopWith`): each offset in the peripherals has one owner, and behind the RP1
  it is one where the RP1 has nothing (`SpotsAreApart`, `Rp1Holes`).
- *The SD bus.*  `OnlyPi5LacksSdBus` is the other side of the run `board_sd`: no
  other machine ends there, the Pi 5 never gets past it, and with the call
  `bcm2836.c:83` makes it does.
- *The lines.*  `LineInv`: every connection follows the table, and without an error
  all that an ended section connects is connected.  `OneSourcePerInput` follows
  because the table is a function and both moved outputs have been moved at the
  end; `InterruptsHeard` because every relay's own output is connected and four
  steps back from the CPUs reach them all (`ReachingInSteps` unfolds the recursion).

Assumed: `BoardConstants`.

**Induction.**  The library's induction theorems take a predicate and cannot be
used here.  Where a proof needs induction the predicate is given as a set:
`LeastNumber` (a set of numbers has a least one, from the well-foundedness of `<`)
and `InductionUpTo`.  The two are repeated in the three modules that need them.

**Model-checked only.**  Liveness (`Drains`, `LaunchReturns`), which the prover
cannot do; and the runs that expect a violation, which have nothing to prove.  Every
safety invariant and every action property the passing runs check is a theorem.

## 5. Not modelled

- `bcm_pcie.c`: registers that store what is written.  `bcm2712_v3d.c`: the same,
  but for a reset bit and an interrupt mask without an interrupt line; no board
  realizes it (`bcm2712_peripherals.c:260` is disabled).
- The machine code of the loaders and of the secondary CPUs, the removal of nodes
  from the device tree.
- The shell scripts and the guest demo: they run once and keep no state.
- Pixels, palette and colour order, console text, logging.
- Migration: only CPRMAN and the framebuffer have a vmstate.  See the plan.
- The guest, beyond the protocol its devices ask for; QEMU's own clock and input
  layers, beyond what the calls in the code rely on (marked external in the map).
- Time: a timeout may always expire.  That gcc runs without a limit (`lobster_net.c:306`)
  is therefore a hazard without a property.

## 6. Plan

Done, in this order: EventRing and InputPoll, InputSources, LobsterNet, Cprman,
Framebuffer, Launcher; then MemoryMap, SocWiring and Board, and AutoDemo; then
proofs of every safety property and action property the passing runs check, and
of the refinement `QueueSpec`.  Left:

1. The lemmas about numbers and sequences that three proof modules share, in a
   module of their own if a fourth needs them.
2. `BootTest` (`tools/gui_test.py`): the serial handshake, with output that
   arrives in pieces, timeouts and retries; "a command that is reported as
   answered was answered by the guest".
3. `Snapshot` (`vm.sh` with the devices): save, resume, delete; what survives in
   devices with and without vmstate, against "save full machine state".
4. The framebuffer's drawing of lines, as an operator checked against the pixels
   of the section it is given.
