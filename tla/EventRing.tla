------------------------------- MODULE EventRing -------------------------------
(***************************************************************************)
(* The ring of input events of the lobster-input device                    *)
(* (hw/misc/lobster_input.c), as a value with the three operations the     *)
(* device performs on it.  The modules that describe who performs them,    *)
(* InputPoll (the guest against the host) and InputSources (what the host  *)
(* puts in), keep a ring in a variable.                                    *)
(***************************************************************************)
EXTENDS Integers, FiniteSets

CONSTANTS
  N,        \* LOBSTER_EVENT_COUNT
  NoEvent   \* the content of a slot nothing was written to

\* A ring of one slot would always be full and never hold an event.
ASSUME RingSize == N \in Nat \ {0, 1}

Slot == 0 .. N - 1
Succ(s) == (s + 1) % N

Ring(Event) == [events : [Slot -> Event], head : Slot, tail : Slot]

NewRing == [events |-> [s \in Slot |-> NoEvent], head |-> 0, tail |-> 0]

-----------------------------------------------------------------------------
(* The operations.                                                         *)

\* Mutated: a full ring is not noticed.
PushUnchecked(r, ev) ==
  [events |-> [r.events EXCEPT ![r.tail] = ev],
   head   |-> r.head,
   tail   |-> Succ(r.tail)]

\* Mutated: the tail moves before the event is stored.
PushAfterMove(r, ev) ==
  [events |-> [r.events EXCEPT ![Succ(r.tail)] = ev],
   head   |-> IF Succ(r.tail) = r.head THEN Succ(r.head) ELSE r.head,
   tail   |-> Succ(r.tail)]

\* Mutated: a full ring keeps its oldest event and overwrites its newest.
PushOverNewest(r, ev) ==
  IF Succ(r.tail) = r.head
    THEN [r EXCEPT !.events[(r.tail - 1) % N] = ev]
    ELSE [events |-> [r.events EXCEPT ![r.tail] = ev],
          head   |-> r.head,
          tail   |-> Succ(r.tail)]

\* push_event: a full ring loses its oldest event.  One slot always stays
\* free, so the ring holds at most N - 1 events.
PushEvent(r, ev) ==
  [events |-> [r.events EXCEPT ![r.tail] = ev],
   head   |-> IF Succ(r.tail) = r.head THEN Succ(r.head) ELSE r.head,
   tail   |-> Succ(r.tail)]

\* Mutated: only the head is reset.
ClearHead(r) == [events |-> r.events, head |-> 0, tail |-> r.tail]

\* A write to CLEAR.  The slots keep their content.
Clear(r) == [events |-> r.events, head |-> 0, tail |-> 0]

\* Mutated: the index is reduced by the capacity instead of the slot count.
AdvanceModCapacity(r, val) == [events |-> r.events, head |-> val % (N - 1), tail |-> r.tail]

\* Mutated: everything is consumed, as CLEAR does.
AdvanceToTail(r, val) == [events |-> r.events, head |-> r.tail, tail |-> r.tail]

\* A write of val to ADVANCE_HEAD.
AdvanceHead(r, val) == [events |-> r.events, head |-> val % N, tail |-> r.tail]

-----------------------------------------------------------------------------
(* What the ring's readers see.                                            *)

\* How many events the ring holds for a reader that trusts HEAD and TAIL.
Unread(r) == IF r.head <= r.tail THEN r.tail - r.head ELSE r.tail - r.head + N

\* How many events went into the ring after the one in slot s, as long as s
\* was written since the last CLEAR: 0 for the slot just before TAIL.
Age(r, s) == IF s < r.tail THEN r.tail - 1 - s ELSE r.tail - 1 - s + N

UnreadSlots(r) == {s \in Slot : Age(r, s) < Unread(r)}
Pending(r) == {r.events[s] : s \in UnreadSlots(r)}
PendingSeq(r) == [k \in 1 .. Unread(r) |-> r.events[(r.head + k - 1) % N]]
=============================================================================
