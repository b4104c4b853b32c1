------------------------------- MODULE InputPoll -------------------------------
(***************************************************************************)
(* The lobster-input device between the host, whose handlers push events,  *)
(* and the guest, which polls.  QEMU runs every handler and every register *)
(* access under one lock, so each is one step; a poll is several accesses, *)
(* and the host's handlers run between them.                               *)
(*                                                                         *)
(* An event is the number of its push, so that order, loss and duplication *)
(* can be stated.  The guest's driver is not in the repository: its steps  *)
(* follow the register map and the comment on ADVANCE_HEAD.                *)
(***************************************************************************)
EXTENDS EventRing

CONSTANT MaxPush   \* bounds the events pushed

\* The number of pushes is bounded, by any number.
ASSUME PushBound == MaxPush \in Nat

\* Slots start out as zeros, and events are numbered from 1.
ASSUME ZeroedSlots == NoEvent = 0

VARIABLES
  ring,      \* the device's events, head and tail
  pc,        \* where the guest is in a poll
  guestHead, \* HEAD as this poll read it
  lo, hi,    \* bytes 0..7 and 8..15 of the slot as this poll read them
  last,      \* the newest event the guest has consumed
  pushed,    \* how many events were pushed
  cleared,   \* how many of these had been pushed at the last CLEAR
  overrun    \* how often a push moved HEAD since this poll read it, up to 2

hostVars == <<ring, pushed, overrun>>
guestVars == <<pc, guestHead, lo, hi, last>>
vars == <<hostVars, guestVars, cleared>>

Event == 0 .. MaxPush
Phase == {"idle", "tail", "lo", "hi", "advance"}

TypeOK ==
  /\ ring \in Ring(Event)
  /\ pc \in Phase
  /\ guestHead \in Slot
  /\ lo \in Event /\ hi \in Event /\ last \in Event
  /\ pushed \in Event /\ cleared \in 0 .. pushed
  /\ overrun \in 0 .. 2

Init ==
  /\ ring = NewRing
  /\ pc = "idle" /\ guestHead = 0 /\ lo = 0 /\ hi = 0 /\ last = 0
  /\ pushed = 0 /\ cleared = 0 /\ overrun = 0

-----------------------------------------------------------------------------
(* The host.                                                               *)

Overtaken(r, before) == IF r.head = before.head THEN 0 ELSE 1
UpTo2(n) == IF n > 2 THEN 2 ELSE n

\* A handler that pushes one event: a button, a pointer sync, a key, an
\* injected move or click.
PushOne ==
  /\ pushed < MaxPush
  /\ pushed' = pushed + 1
  /\ ring' = PushEvent(ring, pushed + 1)
  /\ overrun' = UpTo2(overrun + Overtaken(ring', ring))
  /\ UNCHANGED <<guestVars, cleared>>

\* lobster_input_hmp_key: a press and a release in one call.
PushTwo ==
  /\ pushed + 1 < MaxPush
  /\ pushed' = pushed + 2
  /\ LET half == PushEvent(ring, pushed + 1)
     IN  /\ ring' = PushEvent(half, pushed + 2)
         /\ overrun' = UpTo2(overrun + Overtaken(half, ring) + Overtaken(ring', half))
  /\ UNCHANGED <<guestVars, cleared>>

-----------------------------------------------------------------------------
(* The guest.  A poll reads HEAD and TAIL, reads a slot in two accesses    *)
(* (16 bytes, at most 8 per access) and moves HEAD past it.                *)

ReadHead ==
  /\ pc = "idle"
  /\ guestHead' = ring.head
  /\ overrun' = 0
  /\ pc' = "tail"
  /\ UNCHANGED <<ring, pushed, cleared, lo, hi, last>>

ReadTail ==
  /\ pc = "tail"
  /\ pc' = IF ring.tail = guestHead THEN "idle" ELSE "lo"
  /\ UNCHANGED <<hostVars, cleared, guestHead, lo, hi, last>>

\* A read in the slot region: the bytes of the slot at its address.
SlotBytes(s) == ring.events[s]

ReadLow ==
  /\ pc = "lo"
  /\ lo' = SlotBytes(guestHead)
  /\ pc' = "hi"
  /\ UNCHANGED <<hostVars, cleared, guestHead, hi, last>>

ReadHigh ==
  /\ pc = "hi"
  /\ hi' = SlotBytes(guestHead)
  /\ pc' = "advance"
  /\ UNCHANGED <<hostVars, cleared, guestHead, lo, last>>

WriteAdvanceHead ==
  /\ pc = "advance"
  /\ ring' = AdvanceHead(ring, guestHead + 1)
  /\ last' = hi
  /\ pc' = "idle"
  /\ UNCHANGED <<pushed, overrun, cleared, guestHead, lo, hi>>

WriteClear ==
  /\ pc = "idle"
  /\ ring' = Clear(ring)
  /\ cleared' = pushed
  /\ UNCHANGED <<pushed, overrun, guestVars>>

Poll == ReadHead \/ ReadTail \/ ReadLow \/ ReadHigh \/ WriteAdvanceHead

Next == PushOne \/ PushTwo \/ Poll \/ WriteClear

\* The guest's kernel polls from its main loop for ever.
Fairness == WF_vars(Poll)

Spec == Init /\ [][Next]_vars /\ Fairness

-----------------------------------------------------------------------------
(* Properties.                                                             *)

\* The slots between HEAD and TAIL hold exactly the newest events pushed,
\* in the order of their pushes, whatever the host overwrote and wherever a
\* guest that was overtaken put HEAD.
RingInOrder ==
  \A s \in UnreadSlots(ring) : ring.events[s] = pushed - Age(ring, s)

\* The guest never sees an event twice and never one older than an event it
\* has consumed: what a poll reads is newer than what all polls before read.
NeverSeenBefore ==
  /\ pc \in {"hi", "advance"} => lo > last
  /\ pc = "advance" => hi >= lo

\* A poll whose two halves belong to different events was overtaken by at
\* least two pushes to a full ring: one such push is harmless.
TornOnlyWhenOverrun == pc = "advance" /\ lo # hi => overrun = 2

\* A poll that was overtaken at most once consumes the event it read and
\* nothing else.
AdvanceConsumesOne ==
  [][WriteAdvanceHead /\ overrun < 2 => Pending(ring') = Pending(ring) \ {hi}]_vars

\* The slot the poll is aimed at was written since the last CLEAR with an
\* event newer than all that were consumed.
AimsAtNew(r, p) ==
  /\ Age(r, guestHead) < p - cleared
  /\ last < p - Age(r, guestHead)

\* What makes the properties above inductive, for a ring r into which p events
\* went and a poll that was overtaken o times.

\* Each slot written since the last CLEAR holds the event its age tells, and
\* HEAD lies in that part and not before what the guest consumed.
Written(r, p) ==
  \A s \in Slot : Age(r, s) < p - cleared => r.events[s] = p - Age(r, s)
HeadInWritten(r, p) == Unread(r) <= p - cleared /\ last <= p - Unread(r)

\* A poll not overtaken still has HEAD where it read it; overtaken once, the
\* slot the poll reads is the next to be overwritten; a poll that was overtaken
\* finds the ring full.
HeadNearPoll(r, o) ==
  /\ pc # "idle" /\ o = 0 => r.head = guestHead
  /\ pc # "idle" /\ o = 1 => r.head = Succ(guestHead) /\ r.tail = guestHead
  /\ pc # "idle" /\ o > 0 => Unread(r) = N - 1

\* The slot the poll reads holds an event the guest has not consumed ...
PollAimsAtNew(r, p, o) ==
  /\ pc = "tail" /\ guestHead # r.tail => AimsAtNew(r, p)
  /\ pc \in {"lo", "hi", "advance"} => AimsAtNew(r, p) /\ (o = 0 => r.tail # guestHead)

\* ... and what it read of it is new, and not overwritten unless the poll was
\* overtaken twice.
ReadLowNew(r, o) == pc \in {"hi", "advance"} =>
  /\ last < lo /\ lo <= r.events[guestHead]
  /\ o < 2 => lo = r.events[guestHead]
ReadHighNew(r, o) == pc = "advance" =>
  /\ lo <= hi /\ hi <= r.events[guestHead]
  /\ o < 2 => hi = r.events[guestHead]

PollInv(r, p, o) ==
  /\ Written(r, p)
  /\ HeadInWritten(r, p)
  /\ HeadNearPoll(r, o)
  /\ PollAimsAtNew(r, p, o)
  /\ ReadLowNew(r, o)
  /\ ReadHighNew(r, o)
IInv == TypeOK /\ PollInv(ring, pushed, overrun)

\* "Unlike CLEAR this preserves unconsumed events, so a multi-event burst is
\* not lost when the guest drains one event per poll" (the comment on
\* ADVANCE_HEAD): moving HEAD keeps every event but the one consumed.
BurstPreserved ==
  [][WriteAdvanceHead => Pending(ring) \ {hi} \subseteq Pending(ring')]_vars

\* When the host falls silent the guest reads the ring empty and it stays so.
Drains == <>[](Unread(ring) = 0)

\* The ring and its guest implement the queue of DropOldestQueue.
Queue == INSTANCE DropOldestQueue
  WITH Capacity <- N - 1, queue <- PendingSeq(ring), sent <- pushed, seen <- last
QueueSpec == Queue!Spec
=============================================================================
