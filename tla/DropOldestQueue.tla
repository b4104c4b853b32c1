---------------------------- MODULE DropOldestQueue ----------------------------
(***************************************************************************)
(* What the input ring promises its guest, without slots or indices: a     *)
(* queue of numbered events that is always in the order the events arose,  *)
(* loses events only at its old end, and hands over each event at most     *)
(* once, in order.  Receiving is allowed to lose events too, because a     *)
(* guest that is overtaken while it polls loses some (InputPoll).          *)
(***************************************************************************)
EXTENDS Integers, SequencesExt

CONSTANT Capacity

VARIABLES
  queue,   \* the events not received and not lost, oldest first
  sent,    \* how many events arose so far; event i is the i-th
  seen     \* the last event received, 0 if none was

vars == <<queue, sent, seen>>

Newest(q, n) == IF Len(q) <= n THEN q ELSE SubSeq(q, Len(q) - n + 1, Len(q))

Init == queue = <<>> /\ sent = 0 /\ seen = 0

\* n events arise at once; when they do not fit, the oldest are lost.
Send(n) ==
  /\ sent' = sent + n
  /\ queue' = Newest(queue \o [i \in 1 .. n |-> sent + i], Capacity)
  /\ UNCHANGED seen

\* An event newer than all received before is received, and what remains is
\* newer still.
Receive ==
  /\ seen' \in seen + 1 .. sent
  /\ IsSuffix(queue', queue)
  /\ \A i \in DOMAIN queue' : queue'[i] > seen'
  /\ UNCHANGED sent

Discard ==
  /\ queue' = <<>>
  /\ UNCHANGED <<sent, seen>>

Next == Send(1) \/ Send(2) \/ Receive \/ Discard

Spec == Init /\ [][Next]_vars
=============================================================================
