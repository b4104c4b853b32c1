------------------------------ MODULE InputSources ------------------------------
(***************************************************************************)
(* What the lobster-input device puts into its queue: the handlers QEMU's  *)
(* display layer calls for the pointer, the buttons and the keyboard, and  *)
(* the injection functions of the monitor, against the state the device    *)
(* keeps for them.  The queue is the one the ring implements               *)
(* (DropOldestQueue, checked in InputPoll); the guest takes one event at a *)
(* time and keeps its own view of pointer, buttons and keys.               *)
(***************************************************************************)
EXTENDS Integers, Sequences, FiniteSets

CONSTANTS
  Capacity,   \* events the queue holds
  Keys,       \* the keys of the host's keyboard that are used
  Buttons,    \* the buttons that are used, the wheel's turns among them
  MaxPos,     \* the largest coordinate of each axis (max_x, max_y)
  Steps,      \* the distances of relative moves
  MaxInput    \* bounds the calls of the handlers

Axis == {"x", "y"}

\* The queue has room, a screen has coordinates from 0, a mouse moves by integers.
ASSUME InputBounds ==
  /\ Capacity \in Nat \ {0} /\ MaxInput \in Nat
  /\ MaxPos \in [Axis -> Nat] /\ Steps \subseteq Int
  /\ "left" \in Buttons

Positions == [x : 0 .. MaxPos.x, y : 0 .. MaxPos.y]

VARIABLES
  queue,      \* the events in the ring, oldest first
  modifiers,  \* the device's modifier bits
  btnState,   \* the device's btn_state
  pos,        \* abs_x and abs_y
  held,       \* the keys physically down
  pressed,    \* the buttons physically down
  unsynced,   \* the pointer moved since the last event that tells where it is
  injected,   \* the topics the monitor told of last, and not the user's hands
  lost,       \* the topics whose newest event the guest did not get
  view,       \* the guest's pointer, buttons, keys and modifiers
  inputs      \* calls so far

device == <<queue, modifiers, btnState, pos>>
vars == <<device, held, pressed, unsynced, injected, lost, view, inputs>>

-----------------------------------------------------------------------------
(* Keys and events.                                                        *)

Modifier == {"shift", "ctrl", "alt", "gui"}

\* The modifier bit a key stands for: left and right share one.
ModifierOf(k) ==
  CASE k \in {"SHIFT", "SHIFT_R"} -> {"shift"}
    [] k \in {"CTRL", "CTRL_R"}   -> {"ctrl"}
    [] k \in {"ALT", "ALT_R"}     -> {"alt"}
    [] k \in {"META_L", "META_R"} -> {"gui"}
    [] OTHER                      -> {}

\* qcode_to_hid, for the keys a model may use; 0 for a key it does not map.
Scancode(k) ==
  CASE k = "SHIFT" -> 225 [] k = "SHIFT_R" -> 229
    [] k = "CTRL" -> 224  [] k = "CTRL_R" -> 228
    [] k = "ALT" -> 226   [] k = "ALT_R" -> 230
    [] k = "META_L" -> 227 [] k = "META_R" -> 231
    [] k = "A" -> 4 [] k = "Y" -> 44 [] k = "SPC" -> 44
    [] OTHER -> 0

Mapped == {k \in Keys : Scancode(k) # 0}
Code == {Scancode(k) : k \in Keys} \cup {0}
Nowhere == [a \in Axis |-> 0]

MoveEvent(flags, at) ==
  [type |-> "move", flags |-> flags, at |-> at, btn |-> {}, key |-> 0]
BtnEvent(flags, at, btn) ==
  [type |-> "btn", flags |-> flags, at |-> at, btn |-> btn, key |-> 0]
KeyEvent(type, flags, key) ==
  [type |-> type, flags |-> flags, at |-> Nowhere, btn |-> {}, key |-> key]

Event == [type : {"move", "btn", "press", "release"}, flags : SUBSET Modifier,
          at : Positions, btn : SUBSET Buttons, key : Code]

\* What an event can tell of: the pointer, the buttons, the flags, and for the
\* keys the state of one code.
Part == {"pos", "btn", "key", "flags"}
Topic == [part : {"key"}, code : Code] \cup [part : Part \ {"key"}, code : {0}]

Whole(part) == [part |-> part, code |-> 0]
KeyTopic(code) == [part |-> "key", code |-> code]

\* What ev tells of.  A key event tells of one code only, so it does not make up
\* for an event of another that was lost.
Concerns(ev) ==
  CASE ev.type = "move" -> {Whole("pos"), Whole("flags")}
    [] ev.type = "btn"  -> {Whole("pos"), Whole("btn"), Whole("flags")}
    [] OTHER            -> {KeyTopic(ev.key), Whole("flags")}

TypeOK ==
  /\ queue \in Seq(Event) /\ Len(queue) <= Capacity
  /\ modifiers \subseteq Modifier
  /\ btnState \subseteq Buttons
  /\ pos \in Positions
  /\ held \subseteq Keys /\ pressed \subseteq Buttons
  /\ unsynced \in BOOLEAN
  /\ injected \subseteq Topic \ {Whole("pos")} /\ lost \subseteq Topic
  /\ view \in [pos : Positions, btn : SUBSET Buttons,
               keys : SUBSET Code, flags : SUBSET Modifier]
  /\ inputs \in 0 .. MaxInput

\* realize: the pointer in the middle of the screen, nothing held.
Middle == [a \in Axis |-> (MaxPos[a] + 1) \div 2]
BootView == [pos |-> Middle, btn |-> {}, keys |-> {}, flags |-> {}]

Init ==
  /\ queue = <<>> /\ modifiers = {} /\ btnState = {} /\ pos = Middle
  /\ held = {} /\ pressed = {} /\ unsynced = FALSE /\ injected = {}
  /\ lost = {} /\ inputs = 0
  /\ view = BootView

-----------------------------------------------------------------------------
(* The queue.                                                              *)

Told(evs) == UNION {Concerns(evs[i]) : i \in DOMAIN evs}

\* push_event for each of evs: the oldest events make room.
PushAll(evs) ==
  LET all  == queue \o evs
      over == IF Len(all) > Capacity THEN Len(all) - Capacity ELSE 0
  IN  /\ queue' = SubSeq(all, over + 1, Len(all))
      /\ lost' = lost \cup Told(SubSeq(all, 1, over))
Push(ev) == PushAll(<<ev>>)

Input == inputs < MaxInput /\ inputs' = inputs + 1

-----------------------------------------------------------------------------
(* The handlers of the display layer.                                      *)

\* Mutated: a coordinate is clamped at the far edge only.
ClampHigh(v, max) == IF v > max THEN max ELSE v

Clamp(v, max) == IF v < 0 THEN 0 ELSE IF v > max THEN max ELSE v

MoveRel(a, d) ==
  /\ Input
  /\ pos' = [pos EXCEPT ![a] = Clamp(@ + d, MaxPos[a])]
  /\ unsynced' = TRUE
  /\ UNCHANGED <<queue, modifiers, btnState, held, pressed, injected, lost, view>>

\* qemu_input_scale_axis maps an absolute position into the screen.
MoveAbs(a, v) ==
  /\ Input
  /\ pos' = [pos EXCEPT ![a] = v]
  /\ unsynced' = TRUE
  /\ UNCHANGED <<queue, modifiers, btnState, held, pressed, injected, lost, view>>

\* The buttons that have a bit in btn_state.
Tracked == {"left", "right", "middle"}

\* Mutated: the device remembers the last button only.
BtnLast(b, down) == IF down THEN {b} \cap Tracked ELSE {}

BtnAfter(b, down) ==
  IF down THEN btnState \cup ({b} \cap Tracked) ELSE btnState \ {b}

\* The event carries the state of all buttons; it takes back what was injected of
\* them, and of the flags.
Button(b, down) ==
  /\ Input
  /\ down <=> b \notin pressed
  /\ pressed' = IF down THEN pressed \cup {b} ELSE pressed \ {b}
  /\ btnState' = BtnAfter(b, down)
  /\ LET ev == BtnEvent(modifiers, pos, btnState')
     IN  Push(ev) /\ injected' = injected \ Concerns(ev)
  /\ unsynced' = FALSE
  /\ UNCHANGED <<modifiers, pos, held, view>>

Sync ==
  /\ Input
  /\ LET ev == MoveEvent(modifiers, pos)
     IN  Push(ev) /\ injected' = injected \ Concerns(ev)
  /\ unsynced' = FALSE
  /\ UNCHANGED <<modifiers, btnState, pos, held, pressed, view>>

\* Mutated: the release of a right-hand key is not tracked.
ModifiersAfterLeft(k, down) ==
  IF down THEN modifiers \cup ModifierOf(k)
  ELSE IF k \in {"SHIFT_R", "CTRL_R", "ALT_R"} THEN modifiers
  ELSE modifiers \ ModifierOf(k)

ModifiersAfter(k, down) ==
  IF down THEN modifiers \cup ModifierOf(k) ELSE modifiers \ ModifierOf(k)

KeyType(down) == IF down THEN "press" ELSE "release"

\* Mutated: the event carries the modifiers of before the key.
KeyReportEarly(k, down, mods) ==
  IF k \in Mapped THEN <<KeyEvent(KeyType(down), modifiers, Scancode(k))>> ELSE <<>>

\* Mutated: the release of a modifier is not reported.
KeyReportSilent(k, down, mods) ==
  IF k \in Mapped /\ (down \/ ModifierOf(k) = {})
    THEN <<KeyEvent(KeyType(down), mods, Scancode(k))>> ELSE <<>>

\* What the handler pushes: nothing for a key it does not map.
KeyReport(k, down, mods) ==
  IF k \in Mapped THEN <<KeyEvent(KeyType(down), mods, Scancode(k))>> ELSE <<>>

\* The modifier bits follow the key before its event is made.  A key that is
\* down goes down again when it repeats.
Key(k, down) ==
  /\ Input
  /\ ~down => k \in held
  /\ held' = IF down THEN held \cup {k} ELSE held \ {k}
  /\ modifiers' = ModifiersAfter(k, down)
  /\ LET report == KeyReport(k, down, modifiers')
     IN  PushAll(report) /\ injected' = injected \ Told(report)
  /\ UNCHANGED <<btnState, pos, pressed, unsynced, view>>

-----------------------------------------------------------------------------
(* Injection through the monitor.                                          *)

\* Mutated: the injected move does not store the position.
HmpMouseForgets(to) ==
  /\ Input
  /\ Push(MoveEvent({}, [a \in Axis |-> Clamp(to[a], MaxPos[a])]))
  /\ unsynced' = FALSE
  /\ injected' = injected \cup {Whole("flags")}
  /\ UNCHANGED <<modifiers, btnState, pos, held, pressed, view>>

HmpMouse(to) ==
  /\ Input
  /\ pos' = [a \in Axis |-> Clamp(to[a], MaxPos[a])]
  /\ Push(MoveEvent({}, pos'))
  /\ unsynced' = FALSE
  /\ injected' = injected \cup {Whole("flags")}
  /\ UNCHANGED <<modifiers, btnState, held, pressed, view>>

HmpClick(press) ==
  /\ Input
  /\ Push(BtnEvent({}, pos, IF press THEN {"left"} ELSE {}))
  /\ unsynced' = FALSE
  /\ injected' = injected \cup {Whole("btn"), Whole("flags")}
  /\ UNCHANGED <<modifiers, btnState, pos, held, pressed, view>>

HmpKey(code) ==
  /\ Input
  /\ PushAll(<<KeyEvent("press", {}, code), KeyEvent("release", {}, code)>>)
  /\ injected' = injected \cup {KeyTopic(code), Whole("flags")}
  /\ UNCHANGED <<modifiers, btnState, pos, held, pressed, unsynced, view>>

-----------------------------------------------------------------------------
(* The guest takes the oldest event, clears the queue, or is reset.        *)

Applied(v, ev) ==
  CASE ev.type = "move"    -> [v EXCEPT !.pos = ev.at, !.flags = ev.flags]
    [] ev.type = "btn"     -> [v EXCEPT !.pos = ev.at, !.btn = ev.btn, !.flags = ev.flags]
    [] ev.type = "press"   -> [v EXCEPT !.keys = @ \cup {ev.key}, !.flags = ev.flags]
    [] ev.type = "release" -> [v EXCEPT !.keys = @ \ {ev.key}, !.flags = ev.flags]

Take ==
  /\ queue # <<>>
  /\ view' = Applied(view, queue[1])
  /\ queue' = Tail(queue)
  /\ lost' = lost \ Concerns(queue[1])
  /\ UNCHANGED <<modifiers, btnState, pos, held, pressed, unsynced, injected, inputs>>

ClearQueue ==
  /\ Input
  /\ queue' = <<>>
  /\ lost' = lost \cup Told(queue)
  /\ UNCHANGED <<modifiers, btnState, pos, held, pressed, unsynced, injected, view>>

\* The device has no reset handler: a reset of the machine restarts the guest
\* and leaves the device's queue, modifiers and buttons as they are.
Reset ==
  /\ Input
  /\ view' = BootView
  /\ lost' = Topic
  /\ UNCHANGED <<device, held, pressed, unsynced, injected>>

Next ==
  \/ \E a \in Axis : \E d \in Steps : MoveRel(a, d)
  \/ \E a \in Axis : \E v \in 0 .. MaxPos[a] : MoveAbs(a, v)
  \/ \E b \in Buttons, down \in BOOLEAN : Button(b, down)
  \/ Sync
  \/ \E k \in Keys, down \in BOOLEAN : Key(k, down)
  \/ \E to \in [Axis -> {-1, 1, 9}] : HmpMouse(to)
  \/ \E press \in BOOLEAN : HmpClick(press)
  \/ \E k \in Mapped : HmpKey(Scancode(k))
  \/ Take
  \/ ClearQueue
  \/ Reset

Spec == Init /\ [][Next]_vars
-----------------------------------------------------------------------------
(* Properties.                                                             *)

Drained == queue = <<>>

\* Neither lost nor injected.
Known(t) == t \notin lost \cup injected

\* A guest that has taken all events has the pointer where the device has it,
\* however moves, clicks and injected moves were mixed and even after a full
\* queue lost events, provided the newest event about the pointer reached it.
PointerConverges == Drained /\ ~unsynced /\ Known(Whole("pos")) => view.pos = pos

\* It has the tracked buttons that are physically down, provided the newest button
\* event reached it and came from a button: one such event makes up for all that
\* were lost before, also those of before a reset, and for injected clicks.
ButtonsConverge == Drained /\ Known(Whole("btn")) => view.btn = pressed \cap Tracked

HeldCodes == {Scancode(k) : k \in held \cap Mapped}

\* No two of the keys have this code; in qcode_to_hid Y and Space have one.
Sole(code) == \A k, l \in Mapped : Scancode(k) = code /\ Scancode(l) = code => k = l

\* Of every code whose newest event reached it and came from a key, it holds the
\* key down only when one with that code is, and does so when no other key has
\* that code.  One event makes up for those of its code that were lost, also
\* before a reset, and for an injected stroke.
KeysConverge ==
  Drained => \A c \in {Scancode(k) : k \in Mapped} :
    Known(KeyTopic(c)) =>
      /\ c \in view.keys => c \in HeldCodes
      /\ Sole(c) /\ c \in HeldCodes => c \in view.keys

\* The flags of the last event it took are the device's modifiers.
FlagsConverge == Drained /\ Known(Whole("flags")) => view.flags = modifiers

\* No modifier stays set when no key for it is down.
NoStuckModifier == \A m \in modifiers : \E k \in held : m \in ModifierOf(k)

-----------------------------------------------------------------------------
(* What makes them inductive: every topic converges in the same way.       *)

About(t, ev) == t \in Concerns(ev)

\* What an event and a view say of topic t.
Says(t, ev) ==
  IF t.part = "pos" THEN ev.at
  ELSE IF t.part = "btn" THEN ev.btn
  ELSE IF t.part = "flags" THEN ev.flags
  ELSE ev.type

ViewSays(t, v) ==
  IF t.part = "pos" THEN v.pos
  ELSE IF t.part = "btn" THEN v.btn
  ELSE IF t.part = "flags" THEN v.flags
  ELSE KeyType(t.code \in v.keys)

\* What they may say, by the device or, for what it does not keep, the user's
\* hands: of a code that several keys have it is not known to be down.
MaySay(t) ==
  IF t.part = "pos" THEN {pos}
  ELSE IF t.part = "btn" THEN {pressed \cap Tracked}
  ELSE IF t.part = "flags" THEN {modifiers}
  ELSE (IF t.code \in HeldCodes THEN {"press"} ELSE {}) \cup
       (IF t.code \in HeldCodes /\ Sole(t.code) THEN {} ELSE {"release"})

\* The events are to tell the topic: the monitor was not the last to do so and
\* nothing of it is untold.
Current(t) == t \notin injected /\ (t.part = "pos" => ~unsynced)

\* For a queue q, lost topics l and a view v: the newest event about t says one
\* of vals; if there is none and none was lost, the view says it already.
NewestSays(q, t, vals) ==
  \A i \in DOMAIN q :
    About(t, q[i]) /\ (\A j \in DOMAIN q : j > i => ~About(t, q[j])) => Says(t, q[i]) \in vals
Silent(q, t) == \A i \in DOMAIN q : ~About(t, q[i])
Converging(q, l, v, t, vals) ==
  /\ NewestSays(q, t, vals)
  /\ Silent(q, t) /\ t \notin l => ViewSays(t, v) \in vals

ConvergeInv == \A t \in Topic : Current(t) => Converging(queue, lost, view, t, MaySay(t))
TracksButtons == btnState = pressed \cap Tracked

IInv == TypeOK /\ TracksButtons /\ ConvergeInv
=============================================================================
