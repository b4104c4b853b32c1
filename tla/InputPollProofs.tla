---------------------------- MODULE InputPollProofs ----------------------------
(***************************************************************************)
(* Proofs about InputPoll for every ring size and every number of pushes.  *)
(*                                                                         *)
(* Everything rests on how a push changes the age of a slot and the number *)
(* of unread events, which are facts about indices modulo N; with them the *)
(* inductive invariant is linear arithmetic, one lemma for a push by the   *)
(* host and one step per action of the guest.                              *)
(***************************************************************************)
EXTENDS InputPoll, SequenceTheorems, TLAPS

-----------------------------------------------------------------------------
(* Slots and ages.                                                         *)

\* The slot after s.
LEMMA SuccValue ==
  ASSUME NEW s \in Slot
  PROVE  Succ(s) = IF s = N - 1 THEN 0 ELSE s + 1
  BY RingSize DEF Succ, Slot

\* A ring's indices are slots, and so are the counts derived from them.
LEMMA RingRanges ==
  ASSUME NEW E, NEW r \in Ring(E)
  PROVE  /\ r.head \in Slot /\ r.tail \in Slot
         /\ r.events \in [Slot -> E]
         /\ Unread(r) \in 0 .. N - 1
         /\ \A s \in Slot : Age(r, s) \in 0 .. N - 1
<1>1. r.head \in 0 .. N - 1 /\ r.tail \in 0 .. N - 1 /\ r.events \in [Slot -> E]
      BY DEF Ring, Slot
<1>2. Unread(r) \in 0 .. N - 1
      BY <1>1, RingSize DEF Unread
<1>3. ASSUME NEW s \in Slot PROVE Age(r, s) \in 0 .. N - 1
      BY <1>1, RingSize DEF Age, Slot
<1> QED BY <1>1, <1>2, <1>3 DEF Slot

\* What a push of ev to r does, q being the ring after it: it stores the event
\* at age 0, makes every other event one step older, and moves HEAD exactly
\* when the ring is full.
PushEffect(r, q, ev) ==
  /\ q.tail = Succ(r.tail)
  /\ q.events[r.tail] = ev
  /\ Age(q, r.tail) = 0
  /\ \A s \in Slot \ {r.tail} :
       q.events[s] = r.events[s] /\ Age(q, s) = Age(r, s) + 1
  /\ Unread(r) < N - 1 => q.head = r.head /\ Unread(q) = Unread(r) + 1
  /\ Unread(r) = N - 1 => /\ q.head = Succ(r.head) /\ q.head # r.head
                          /\ r.head = Succ(r.tail)
                          /\ Unread(q) = N - 1

\* push_event keeps the ring a ring and has that effect.
LEMMA PushFacts ==
  ASSUME NEW E, NEW r \in Ring(E), NEW ev \in E
  PROVE  PushEvent(r, ev) \in Ring(E) /\ PushEffect(r, PushEvent(r, ev), ev)
<1> DEFINE q == PushEvent(r, ev)
<1>1. /\ r.head \in 0 .. N - 1 /\ r.tail \in 0 .. N - 1 /\ r.events \in [Slot -> E]
      BY DEF Ring, Slot
<1>2. /\ q.tail = Succ(r.tail)
      /\ q.events = [r.events EXCEPT ![r.tail] = ev]
      /\ q.head = IF Succ(r.tail) = r.head THEN Succ(r.head) ELSE r.head
      BY DEF PushEvent
<1>3. /\ Succ(r.tail) = IF r.tail = N - 1 THEN 0 ELSE r.tail + 1
      /\ Succ(r.head) = IF r.head = N - 1 THEN 0 ELSE r.head + 1
      BY <1>1, SuccValue DEF Slot
<1>4. q \in Ring(E)
      BY <1>1, <1>2, <1>3, RingSize DEF Ring, Slot, PushEvent
<1>5. q.events[r.tail] = ev /\ \A s \in Slot \ {r.tail} : q.events[s] = r.events[s]
      BY <1>1, <1>2 DEF Slot
<1>6. Age(q, r.tail) = 0
      BY <1>1, <1>2, <1>3, RingSize DEF Age
<1>7. \A s \in Slot \ {r.tail} : Age(q, s) = Age(r, s) + 1
      BY <1>1, <1>2, <1>3, RingSize DEF Age, Slot
<1>8. Unread(r) < N - 1 => q.head = r.head /\ Unread(q) = Unread(r) + 1
      BY <1>1, <1>2, <1>3, RingSize DEF Unread
<1>9. Unread(r) = N - 1 => /\ q.head = Succ(r.head) /\ q.head # r.head
                           /\ r.head = Succ(r.tail)
                           /\ Unread(q) = N - 1
      BY <1>1, <1>2, <1>3, RingSize DEF Unread
<1> QED BY <1>2, <1>4, <1>5, <1>6, <1>7, <1>8, <1>9 DEF PushEffect

\* Moving HEAD past slot s leaves as many events as are newer than that slot's.
LEMMA AdvanceFacts ==
  ASSUME NEW E, NEW r \in Ring(E), NEW s \in Slot
  PROVE  LET q == AdvanceHead(r, s + 1)
         IN  /\ q \in Ring(E)
             /\ q.events = r.events /\ q.tail = r.tail
             /\ q.head = Succ(s)
             /\ Unread(q) = Age(r, s)
             /\ \A x \in Slot : Age(q, x) = Age(r, x)
<1> DEFINE q == AdvanceHead(r, s + 1)
<1>1. r.head \in 0 .. N - 1 /\ r.tail \in 0 .. N - 1 /\ r.events \in [Slot -> E]
      BY DEF Ring, Slot
<1>2. q = [events |-> r.events, head |-> Succ(s), tail |-> r.tail]
      BY DEF AdvanceHead, Ring, Succ
<1>3. Succ(s) = IF s = N - 1 THEN 0 ELSE s + 1
      BY SuccValue
<1>4. q \in Ring(E)
      BY <1>1, <1>2, <1>3, RingSize DEF Ring, Slot
<1>5. Unread(q) = Age(r, s)
      BY <1>1, <1>2, <1>3, RingSize DEF Unread, Age, Slot
<1>6. \A x \in Slot : Age(q, x) = Age(r, x)
      BY <1>2 DEF Age
<1> QED BY <1>2, <1>4, <1>5, <1>6

\* CLEAR leaves nothing unread.
LEMMA ClearFacts ==
  ASSUME NEW E, NEW r \in Ring(E)
  PROVE  Clear(r) \in Ring(E) /\ Unread(Clear(r)) = 0
  BY RingSize DEF Clear, Ring, Slot, Unread

-----------------------------------------------------------------------------
(* The inductive invariant.                                                *)

\* A push by the host keeps the invariant, wherever the guest is in its poll.
LEMMA HostPush ==
  ASSUME NEW r \in Ring(Event), NEW p \in Nat, NEW o \in 0 .. 2,
         p < MaxPush, cleared \in 0 .. p, guestHead \in Slot,
         lo \in Event, hi \in Event, last \in Event, pc \in Phase,
         PollInv(r, p, o),
         NEW q, q = PushEvent(r, p + 1),
         NEW o2, o2 = UpTo2(o + Overtaken(q, r))
  PROVE  /\ q \in Ring(Event) /\ o2 \in 0 .. 2
         /\ PollInv(q, p + 1, o2)
<1>1. p + 1 \in Event
      BY PushBound DEF Event
<1>2. q \in Ring(Event) /\ PushEffect(r, q, p + 1)
      BY <1>1, PushFacts
<1> USE DEF PushEffect
<1>3. /\ r.head \in Slot /\ r.tail \in Slot
      /\ Unread(r) \in 0 .. N - 1
      /\ \A s \in Slot : Age(r, s) \in 0 .. N - 1
      BY RingRanges
<1>4. /\ Unread(r) < N - 1 => o2 = o
      /\ Unread(r) = N - 1 => o2 = UpTo2(o + 1)
      BY <1>2 DEF UpTo2, Overtaken
<1>5. o2 \in 0 .. 2
      BY <1>3, <1>4, RingSize DEF UpTo2
<1>6. Written(q, p + 1)
  <2>1. ASSUME NEW s \in Slot, Age(q, s) < (p + 1) - cleared
        PROVE  q.events[s] = (p + 1) - Age(q, s)
    <3>1. CASE s = r.tail
          BY <3>1, <1>2
    <3>2. CASE s # r.tail
      <4>1. Age(q, s) = Age(r, s) + 1 /\ q.events[s] = r.events[s]
            BY <3>2, <1>2
      <4>2. Age(r, s) < p - cleared
            BY <4>1, <2>1, <1>3
      <4>3. r.events[s] = p - Age(r, s)
            BY <4>2 DEF PollInv, Written
      <4> QED BY <4>1, <4>3, <1>3
    <3> QED BY <3>1, <3>2
  <2> QED BY <2>1 DEF Written
<1>7. HeadInWritten(q, p + 1)
  <2>1. /\ Unread(r) <= p - cleared /\ last <= p - Unread(r)
        /\ last \in Nat /\ cleared \in Nat
        BY PushBound DEF PollInv, HeadInWritten, Event
  <2>2. CASE Unread(r) < N - 1
        BY <1>2, <1>3, <2>1, <2>2 DEF HeadInWritten
  <2>3. CASE Unread(r) = N - 1
        BY <1>2, <1>3, <2>1, <2>3, RingSize DEF HeadInWritten
  <2> QED BY <1>3, <2>2, <2>3, RingSize
<1>8. HeadNearPoll(q, o2)
  <2>1. CASE Unread(r) < N - 1
    <3>1. o # 1 \/ pc = "idle"
          BY <2>1, <1>3, SuccValue, RingSize DEF PollInv, HeadNearPoll, Unread, Slot
    <3>2. o = 0 \/ pc = "idle"
          BY <1>3, <2>1, <3>1, RingSize DEF PollInv, HeadNearPoll
    <3> QED BY <1>2, <1>4, <2>1, <3>2 DEF PollInv, HeadNearPoll
  <2>2. CASE Unread(r) = N - 1
    <3>1. o2 = 1 => o = 0
          BY <1>4, <2>2 DEF UpTo2
    <3>2. o2 # 0
          BY <1>4, <2>2 DEF UpTo2
    <3> QED BY <1>2, <1>5, <2>2, <3>1, <3>2 DEF PollInv, HeadNearPoll
  <2> QED BY <1>3, <2>1, <2>2, RingSize
\* The slot the poll reads: the push either ages it or writes to it.
<1>9. AimsAtNew(r, p) => AimsAtNew(q, p + 1)
  <2>1. last \in Nat /\ cleared \in 0 .. p /\ last <= p
        BY <1>3, PushBound DEF PollInv, HeadInWritten, Event
  <2>2. CASE guestHead = r.tail
        BY <1>2, <2>1, <2>2 DEF AimsAtNew
  <2>3. CASE guestHead # r.tail
        BY <1>2, <1>3, <2>1, <2>3 DEF AimsAtNew
  <2> QED BY <2>2, <2>3
<1>10. guestHead = r.tail => AimsAtNew(q, p + 1)
      BY <1>2, <1>3, PushBound DEF PollInv, HeadInWritten, AimsAtNew, Event
<1>11. pc = "tail" => AimsAtNew(q, p + 1)
      BY <1>9, <1>10 DEF PollInv, PollAimsAtNew
<1>12. PollAimsAtNew(q, p + 1, o2)
  <2> SUFFICES ASSUME pc \in {"lo", "hi", "advance"}, o2 = 0
               PROVE  q.tail # guestHead
      BY <1>9, <1>11 DEF PollInv, PollAimsAtNew
  <2>1. o = 0 /\ Unread(r) < N - 1
        BY <1>3, <1>4, RingSize DEF UpTo2
  <2>2. r.head = guestHead
        BY <2>1 DEF PollInv, HeadNearPoll
  <2> QED BY <1>2, <1>3, <2>1, <2>2, SuccValue, RingSize DEF Unread, Slot
<1>13. pc \in {"hi", "advance"} =>
         /\ r.events[guestHead] <= q.events[guestHead]
         /\ o2 < 2 => q.events[guestHead] = r.events[guestHead]
  <2> SUFFICES ASSUME pc \in {"hi", "advance"}
               PROVE  /\ r.events[guestHead] <= q.events[guestHead]
                      /\ o2 < 2 => q.events[guestHead] = r.events[guestHead]
      OBVIOUS
  <2>1. r.events[guestHead] = p - Age(r, guestHead)
        BY DEF PollInv, PollAimsAtNew, Written, AimsAtNew
  <2>2. CASE guestHead # r.tail
        BY <1>2, <1>3, <2>1, <2>2
  <2>3. CASE guestHead = r.tail
    <3>1. o # 0
          BY <2>3 DEF PollInv, PollAimsAtNew, HeadNearPoll
    <3>2. o = 1 => r.head = Succ(r.tail)
          BY <2>3 DEF PollInv, PollAimsAtNew, HeadNearPoll
    <3>3. o = 1 => Unread(r) = N - 1
          BY <1>3, <3>2, SuccValue, RingSize DEF Unread, Slot
    <3>4. o2 = 2
          BY <1>3, <1>4, <3>1, <3>3, RingSize DEF UpTo2
    <3> QED BY <1>2, <1>3, <2>1, <2>3, <3>4
  <2> QED BY <2>2, <2>3
<1>14. pc \in {"hi", "advance"} => q.events[guestHead] \in Int /\ r.events[guestHead] \in Int
      BY <1>2, PushBound DEF Ring, Event
<1>15. ReadLowNew(q, o2)
  <2> SUFFICES ASSUME pc \in {"hi", "advance"}
               PROVE  /\ last < lo /\ lo <= q.events[guestHead]
                      /\ o2 < 2 => lo = q.events[guestHead]
      BY DEF ReadLowNew
  <2>1. /\ last < lo /\ lo <= r.events[guestHead]
        /\ o < 2 => lo = r.events[guestHead]
        BY DEF PollInv, ReadLowNew
  <2>2. o2 < 2 => o < 2
        BY <1>3, <1>4, RingSize DEF UpTo2
  <2>3. lo \in Int
        BY PushBound DEF Event
  <2> QED BY <1>13, <1>14, <2>1, <2>2, <2>3
<1>16. ReadHighNew(q, o2)
  <2> SUFFICES ASSUME pc = "advance"
               PROVE  /\ lo <= hi /\ hi <= q.events[guestHead]
                      /\ o2 < 2 => hi = q.events[guestHead]
      BY DEF ReadHighNew
  <2>1. /\ lo <= hi /\ hi <= r.events[guestHead]
        /\ o < 2 => hi = r.events[guestHead]
        BY DEF PollInv, ReadHighNew
  <2>2. o2 < 2 => o < 2
        BY <1>3, <1>4, RingSize DEF UpTo2
  <2>3. hi \in Int
        BY PushBound DEF Event
  <2> QED BY <1>13, <1>14, <2>1, <2>2, <2>3
<1>17. PollInv(q, p + 1, o2)
      BY <1>6, <1>7, <1>8, <1>12, <1>15, <1>16 DEF PollInv
<1> QED BY <1>2, <1>5, <1>17

\* The zeroed ring and the idle guest satisfy the invariant.
LEMMA InitIInv == Init => IInv
  BY RingSize, PushBound, ZeroedSlots
     DEF Init, IInv, TypeOK, PollInv, Written, HeadInWritten, HeadNearPoll, PollAimsAtNew,
         ReadLowNew, ReadHighNew, NewRing, Ring, Slot, Event, Phase, Unread, Age

\* Every handler that pushes and every register access of the guest keeps it.
LEMMA NextIInv == IInv /\ [Next]_vars => IInv'
<1> SUFFICES ASSUME IInv, [Next]_vars
             PROVE  IInv'
    OBVIOUS
<1> USE PushBound
<1>1. /\ ring \in Ring(Event) /\ pc \in Phase /\ guestHead \in Slot
      /\ lo \in Event /\ hi \in Event /\ last \in Event
      /\ pushed \in Event /\ pushed \in Nat /\ cleared \in 0 .. pushed /\ overrun \in 0 .. 2
      /\ PollInv(ring, pushed, overrun)
      BY DEF IInv, TypeOK, Event
<1>2. CASE PushOne
  <2>1. pushed < MaxPush /\ pushed + 1 \in Event
        BY <1>1, <1>2 DEF PushOne, Event
  <2>2. /\ ring' \in Ring(Event) /\ overrun' \in 0 .. 2
        /\ PollInv(ring', pushed', overrun')
        BY <1>1, <1>2, <2>1, HostPush DEF PushOne
  <2> QED BY <1>1, <1>2, <2>1, <2>2 DEF PushOne, guestVars, IInv, TypeOK, PollInv, Written, HeadInWritten,
           HeadNearPoll, PollAimsAtNew, AimsAtNew, ReadLowNew, ReadHighNew
<1>3. CASE PushTwo
  <2> DEFINE half == PushEvent(ring, pushed + 1)
             between == UpTo2(overrun + Overtaken(half, ring))
  <2>1. pushed + 1 < MaxPush /\ pushed < MaxPush /\ pushed + 1 \in Nat /\ pushed + 2 \in Event
        BY <1>1, <1>3 DEF PushTwo, Event
  <2>2. /\ half \in Ring(Event) /\ between \in 0 .. 2
        /\ PollInv(half, pushed + 1, between)
        BY <1>1, <2>1, HostPush
  <2>3. ring' = PushEvent(half, pushed + 1 + 1)
        BY <1>1, <1>3 DEF PushTwo
  <2>4. overrun' = UpTo2(between + Overtaken(ring', half))
        BY <1>1, <1>3 DEF PushTwo, UpTo2, Overtaken
  <2>5. cleared \in 0 .. pushed + 1
        BY <1>1
  <2>6. /\ ring' \in Ring(Event) /\ overrun' \in 0 .. 2
        /\ PollInv(ring', pushed + 1 + 1, overrun')
    <3> HIDE DEF half, between
    <3> QED BY <1>1, <2>1, <2>2, <2>3, <2>4, <2>5, HostPush
  <2>7. pushed' = pushed + 1 + 1
        BY <1>1, <1>3 DEF PushTwo
  <2> QED BY <1>1, <1>3, <2>1, <2>6, <2>7 DEF PushTwo, guestVars, IInv, TypeOK, PollInv, Written, HeadInWritten,
           HeadNearPoll, PollAimsAtNew, AimsAtNew, ReadLowNew, ReadHighNew
<1>4. CASE ReadHead
  <2>1. /\ ring' = ring /\ pushed' = pushed /\ cleared' = cleared /\ last' = last
        /\ lo' = lo /\ hi' = hi
        /\ guestHead' = ring.head /\ overrun' = 0 /\ pc' = "tail"
        BY <1>4 DEF ReadHead
  <2>2. ring.head \in Slot /\ ring.tail \in Slot
        BY <1>1, RingRanges
  <2>3. ring.head # ring.tail => Age(ring, ring.head) = Unread(ring) - 1
        BY <2>2, RingSize DEF Age, Unread, Slot
  <2>4. ring.head # ring.tail => AimsAtNew(ring, pushed)'
    <3>1. Unread(ring) <= pushed - cleared /\ last <= pushed - Unread(ring)
          BY <1>1 DEF PollInv, HeadInWritten
    <3>2. Unread(ring) \in Nat /\ last \in Nat /\ cleared \in Nat
          BY <1>1, RingRanges DEF Event
    <3> QED BY <1>1, <2>1, <2>3, <3>1, <3>2 DEF AimsAtNew
  <2>5. TypeOK'
        BY <1>1, <2>1, <2>2 DEF TypeOK, Phase
  <2>6. Written(ring, pushed)' /\ HeadInWritten(ring, pushed)'
        BY <1>1, <2>1 DEF PollInv, Written, HeadInWritten
  <2>7. HeadNearPoll(ring, overrun)'
        BY <2>1 DEF HeadNearPoll
  <2>8. PollAimsAtNew(ring, pushed, overrun)'
        BY <2>1, <2>4 DEF PollAimsAtNew
  <2>9. ReadLowNew(ring, overrun)' /\ ReadHighNew(ring, overrun)'
        BY <2>1 DEF ReadLowNew, ReadHighNew
  <2> QED BY <2>5, <2>6, <2>7, <2>8, <2>9 DEF IInv, PollInv
<1>5. CASE ReadTail
  <2>1. /\ UNCHANGED <<ring, pushed, overrun, cleared, guestHead, lo, hi, last>>
        /\ pc = "tail"
        /\ pc' = IF ring.tail = guestHead THEN "idle" ELSE "lo"
        BY <1>5 DEF ReadTail, hostVars
  <2>2. TypeOK'
        BY <1>1, <2>1 DEF TypeOK, Phase
  <2>3. Written(ring, pushed)' /\ HeadInWritten(ring, pushed)'
        BY <1>1, <2>1 DEF PollInv, Written, HeadInWritten
  <2>4. HeadNearPoll(ring, overrun)'
        BY <1>1, <2>1 DEF PollInv, HeadNearPoll
  <2>5. PollAimsAtNew(ring, pushed, overrun)'
        BY <1>1, <2>1 DEF PollInv, PollAimsAtNew, AimsAtNew
  <2>6. ReadLowNew(ring, overrun)' /\ ReadHighNew(ring, overrun)'
        BY <2>1 DEF ReadLowNew, ReadHighNew
  <2> QED BY <2>2, <2>3, <2>4, <2>5, <2>6 DEF IInv, PollInv
<1>6. CASE ReadLow
  <2>1. /\ UNCHANGED <<ring, pushed, overrun, cleared, guestHead, hi, last>>
        /\ pc = "lo" /\ pc' = "hi"
        /\ lo' = ring.events[guestHead]
        BY <1>6 DEF ReadLow, SlotBytes, hostVars
  <2>2. /\ ring.events[guestHead] \in Event
        /\ Age(ring, guestHead) \in 0 .. N - 1
        BY <1>1, RingRanges
  <2>3. TypeOK'
        BY <1>1, <2>1, <2>2 DEF TypeOK, Phase
  <2>4. Written(ring, pushed)' /\ HeadInWritten(ring, pushed)'
        BY <1>1, <2>1 DEF PollInv, Written, HeadInWritten
  <2>5. HeadNearPoll(ring, overrun)'
        BY <1>1, <2>1 DEF PollInv, HeadNearPoll
  <2>6. PollAimsAtNew(ring, pushed, overrun)'
        BY <1>1, <2>1 DEF PollInv, PollAimsAtNew, AimsAtNew
  <2>7. ReadLowNew(ring, overrun)'
    <3>1. last < pushed - Age(ring, guestHead) /\ Age(ring, guestHead) < pushed - cleared
          BY <1>1, <2>1 DEF PollInv, PollAimsAtNew, AimsAtNew
    <3>2. ring.events[guestHead] = pushed - Age(ring, guestHead)
          BY <1>1, <3>1 DEF PollInv, Written
    <3> QED BY <2>1, <2>2, <3>1, <3>2 DEF ReadLowNew, Event
  <2>8. ReadHighNew(ring, overrun)'
        BY <2>1 DEF ReadHighNew
  <2> QED BY <2>3, <2>4, <2>5, <2>6, <2>7, <2>8 DEF IInv, PollInv
<1>7. CASE ReadHigh
  <2>1. /\ UNCHANGED <<ring, pushed, overrun, cleared, guestHead, lo, last>>
        /\ pc = "hi" /\ pc' = "advance"
        /\ hi' = ring.events[guestHead]
        BY <1>7 DEF ReadHigh, SlotBytes, hostVars
  <2>2. ring.events[guestHead] \in Event
        BY <1>1, RingRanges
  <2>3. TypeOK'
        BY <1>1, <2>1, <2>2 DEF TypeOK, Phase
  <2>4. Written(ring, pushed)' /\ HeadInWritten(ring, pushed)'
        BY <1>1, <2>1 DEF PollInv, Written, HeadInWritten
  <2>5. HeadNearPoll(ring, overrun)'
        BY <1>1, <2>1 DEF PollInv, HeadNearPoll
  <2>6. PollAimsAtNew(ring, pushed, overrun)'
        BY <1>1, <2>1 DEF PollInv, PollAimsAtNew, AimsAtNew
  <2>7. ReadLowNew(ring, overrun)'
        BY <1>1, <2>1 DEF PollInv, ReadLowNew
  <2>8. ReadHighNew(ring, overrun)'
        BY <1>1, <2>1, <2>2 DEF PollInv, ReadLowNew, ReadHighNew, Event
  <2> QED BY <2>3, <2>4, <2>5, <2>6, <2>7, <2>8 DEF IInv, PollInv
<1>8. CASE WriteAdvanceHead
  <2>1. /\ ring' \in Ring(Event)
        /\ ring'.events = ring.events
        /\ Unread(ring') = Age(ring, guestHead)
        /\ \A s \in Slot : Age(ring', s) = Age(ring, s)
        BY <1>1, <1>8, AdvanceFacts DEF WriteAdvanceHead
  <2>2. /\ UNCHANGED <<pushed, overrun, cleared, guestHead, lo, hi>>
        /\ pc = "advance" /\ pc' = "idle" /\ last' = hi
        BY <1>8 DEF WriteAdvanceHead
  <2>3. TypeOK'
        BY <1>1, <2>1, <2>2 DEF TypeOK, Phase
  <2>4. Written(ring, pushed)'
        BY <1>1, <2>1, <2>2 DEF PollInv, Written
  <2>5. HeadInWritten(ring, pushed)'
    <3>1. /\ Age(ring, guestHead) < pushed - cleared
          /\ hi <= ring.events[guestHead]
          BY <1>1, <2>2 DEF PollInv, PollAimsAtNew, AimsAtNew, ReadHighNew
    <3>2. ring.events[guestHead] = pushed - Age(ring, guestHead)
          BY <1>1, <3>1 DEF PollInv, Written
    <3>3. Age(ring, guestHead) \in 0 .. N - 1
          BY <1>1, RingRanges
    <3> QED BY <1>1, <2>1, <2>2, <3>1, <3>2, <3>3, RingSize DEF HeadInWritten
  <2>6. /\ HeadNearPoll(ring, overrun)' /\ PollAimsAtNew(ring, pushed, overrun)'
        /\ ReadLowNew(ring, overrun)' /\ ReadHighNew(ring, overrun)'
        BY <2>2 DEF HeadNearPoll, PollAimsAtNew, ReadLowNew, ReadHighNew
  <2> QED BY <2>3, <2>4, <2>5, <2>6 DEF IInv, PollInv
<1>9. CASE WriteClear
  <2>1. ring' \in Ring(Event) /\ Unread(ring') = 0
        BY <1>1, <1>9, ClearFacts DEF WriteClear
  <2>2. /\ UNCHANGED <<pushed, overrun, pc, guestHead, lo, hi, last>>
        /\ pc = "idle" /\ cleared' = pushed
        BY <1>9 DEF WriteClear, guestVars
  <2>3. TypeOK'
        BY <1>1, <2>1, <2>2 DEF TypeOK
  <2>4. Written(ring, pushed)'
    <3>1. \A s \in Slot : Age(ring', s) \in 0 .. N - 1
          BY <2>1, RingRanges
    <3> QED BY <1>1, <2>2, <3>1, RingSize DEF Written
  <2>5. HeadInWritten(ring, pushed)'
    <3>1. last <= pushed - Unread(ring) /\ Unread(ring) \in Nat
          BY <1>1, RingRanges DEF PollInv, HeadInWritten
    <3> QED BY <1>1, <2>1, <2>2, <3>1 DEF HeadInWritten, Event
  <2>6. /\ HeadNearPoll(ring, overrun)' /\ PollAimsAtNew(ring, pushed, overrun)'
        /\ ReadLowNew(ring, overrun)' /\ ReadHighNew(ring, overrun)'
        BY <2>2 DEF HeadNearPoll, PollAimsAtNew, ReadLowNew, ReadHighNew
  <2> QED BY <2>3, <2>4, <2>5, <2>6 DEF IInv, PollInv
<1>10. CASE UNCHANGED vars
  <2> QED BY <1>1, <1>10 DEF vars, hostVars, guestVars, IInv, TypeOK, PollInv, Written, HeadInWritten,
           HeadNearPoll, PollAimsAtNew, AimsAtNew, ReadLowNew, ReadHighNew
<1> QED BY <1>2, <1>3, <1>4, <1>5, <1>6, <1>7, <1>8, <1>9, <1>10 DEF Next, Poll

\* What relates the slots, the indices and the poll in progress holds for ever:
\* the theorems below are its consequences.
THEOREM InductiveInvariant == Spec => []IInv
  BY InitIInv, NextIInv, PTL DEF Spec

-----------------------------------------------------------------------------
(* The theorems.                                                           *)

\* Every variable keeps its type: in particular HEAD, TAIL and the slot a poll
\* reads are always slots of the ring.
THEOREM TypeCorrect == Spec => []TypeOK
  BY InductiveInvariant, PTL DEF IInv

\* The unread part of the ring is always the newest events in the order of
\* their pushes.
THEOREM RingStaysInOrder == Spec => []RingInOrder
<1>1. IInv => RingInOrder
  <2> SUFFICES ASSUME IInv, NEW s \in UnreadSlots(ring)
               PROVE  ring.events[s] = pushed - Age(ring, s)
      BY DEF RingInOrder
  <2>1. s \in Slot /\ Age(ring, s) < Unread(ring)
        BY DEF UnreadSlots
  <2>2. /\ Age(ring, s) \in Nat /\ Unread(ring) \in Nat
        /\ pushed \in Nat /\ cleared \in Nat
        BY <2>1, RingRanges, PushBound DEF IInv, TypeOK, Event
  <2>3. Age(ring, s) < pushed - cleared
        BY <2>1, <2>2 DEF IInv, PollInv, HeadInWritten
  <2> QED BY <2>1, <2>3 DEF IInv, PollInv, Written
<1> QED BY <1>1, InductiveInvariant, PTL

\* A guest never consumes an event twice nor an older event after a newer one,
\* however its poll interleaves with the host.
THEOREM NoEventSeenTwice == Spec => []NeverSeenBefore
<1>1. IInv => NeverSeenBefore
      BY DEF IInv, PollInv, ReadLowNew, ReadHighNew, NeverSeenBefore, TypeOK
<1> QED BY <1>1, InductiveInvariant, PTL

\* A poll mixes the halves of two events only when the host overtook it twice.
THEOREM TornOnlyByTwo == Spec => []TornOnlyWhenOverrun
<1>1. IInv => TornOnlyWhenOverrun
      BY DEF IInv, PollInv, ReadLowNew, ReadHighNew, TornOnlyWhenOverrun, TypeOK
<1> QED BY <1>1, InductiveInvariant, PTL

-----------------------------------------------------------------------------
(* What a reader sees, in closed form: the unread events are the last of    *)
(* the pushed ones.                                                         *)

\* The numbers of the last u of p events, oldest first.
LastOf(p, u) == [k \in 1 .. u |-> p - u + k]

\* An index that was moved on by less than the size of the ring.
LEMMA WrappedIndex ==
  ASSUME NEW x \in 0 .. 2 * N - 2
  PROVE  x % N = IF x < N THEN x ELSE x - N
<1>1. CASE x < N
      BY <1>1, RingSize
<1>2. CASE x >= N
  <2>1. x - N \in 0 .. N - 1 /\ x = N + (x - N)
        BY <1>2, RingSize
  <2> QED BY <1>2, <2>1, RingSize
<1> QED BY <1>1, <1>2, RingSize

\* The k-th unread slot from HEAD on, and the only slot of its age.
LEMMA UnreadSlotValue ==
  ASSUME NEW E, NEW r \in Ring(E), NEW k \in 1 .. Unread(r)
  PROVE  /\ (r.head + k - 1) % N \in Slot
         /\ Age(r, (r.head + k - 1) % N) = Unread(r) - k
<1>1. /\ r.head \in 0 .. N - 1 /\ r.tail \in 0 .. N - 1
      /\ Unread(r) \in 0 .. N - 1 /\ k \in 1 .. N - 1
      BY RingRanges, RingSize DEF Slot
<1> DEFINE x == r.head + k - 1
           s == x % N
<1>2. x \in 0 .. 2 * N - 2
      BY <1>1, RingSize
<1>3. s = IF x < N THEN x ELSE x - N
  <2> HIDE DEF x
  <2> QED BY <1>2, WrappedIndex
<1>4. s \in 0 .. N - 1
      BY <1>1, <1>2, <1>3, RingSize
<1>5. Age(r, s) = Unread(r) - k
  <2> HIDE DEF s
  <2> QED BY <1>1, <1>3, <1>4, RingSize DEF Age, Unread
<1> QED BY <1>4, <1>5 DEF Slot

\* For a ring r into which p events went: what it holds unread.
LEMMA PendingIsLast ==
  ASSUME NEW r \in Ring(Event), NEW p \in Nat, cleared \in 0 .. p,
         Written(r, p), Unread(r) <= p - cleared
  PROVE  /\ PendingSeq(r) = LastOf(p, Unread(r))
         /\ Pending(r) = (p - Unread(r)) + 1 .. p
<1>1. Unread(r) \in 0 .. N - 1
      BY RingRanges
<1>2. ASSUME NEW k \in 1 .. Unread(r)
      PROVE  r.events[(r.head + k - 1) % N] = p - Unread(r) + k
  <2> DEFINE s == (r.head + k - 1) % N
  <2>1. s \in Slot /\ Age(r, s) = Unread(r) - k
        BY UnreadSlotValue
  <2>2. Age(r, s) < p - cleared
        BY <1>1, <2>1, RingSize
  <2>3. r.events[s] = p - Age(r, s)
        BY <2>1, <2>2 DEF Written
  <2> QED BY <1>1, <2>1, <2>3, RingSize
<1>3. PendingSeq(r) = LastOf(p, Unread(r))
      BY <1>2 DEF PendingSeq, LastOf
<1>4. ASSUME NEW e \in Pending(r)
      PROVE  e \in (p - Unread(r)) + 1 .. p
  <2>1. PICK s \in Slot : e = r.events[s] /\ Age(r, s) < Unread(r)
        BY DEF Pending, UnreadSlots
  <2>2. Age(r, s) \in 0 .. N - 1
        BY RingRanges
  <2>3. Age(r, s) < p - cleared
        BY <1>1, <2>1, <2>2, RingSize
  <2>4. e = p - Age(r, s)
        BY <2>1, <2>3 DEF Written
  <2> QED BY <1>1, <2>1, <2>2, <2>4, RingSize
<1>5. ASSUME NEW e \in (p - Unread(r)) + 1 .. p
      PROVE  e \in Pending(r)
  <2> DEFINE k == e - (p - Unread(r))
             s == (r.head + k - 1) % N
  <2>1. k \in 1 .. Unread(r)
        BY <1>1, RingSize
  <2>2. s \in Slot /\ Age(r, s) < Unread(r)
        BY <1>1, <2>1, UnreadSlotValue, RingSize
  <2>3. r.events[s] = p - Unread(r) + k
        BY <1>2, <2>1
  <2>4. r.events[s] = e
        BY <1>1, <2>3, RingSize
  <2> QED BY <2>2, <2>4 DEF Pending, UnreadSlots
<1> QED BY <1>3, <1>4, <1>5

\* The invariant says so of the ring the device holds.
LEMMA PendingOfIInv ==
  IInv => /\ PendingSeq(ring) = LastOf(pushed, Unread(ring))
          /\ Pending(ring) = (pushed - Unread(ring)) + 1 .. pushed
          /\ Unread(ring) \in 0 .. N - 1 /\ Unread(ring) <= pushed
          /\ pushed \in Nat
<1> SUFFICES ASSUME IInv
             PROVE  /\ PendingSeq(ring) = LastOf(pushed, Unread(ring))
                    /\ Pending(ring) = (pushed - Unread(ring)) + 1 .. pushed
                    /\ Unread(ring) \in 0 .. N - 1 /\ Unread(ring) <= pushed
                    /\ pushed \in Nat
    OBVIOUS
<1>1. /\ ring \in Ring(Event) /\ pushed \in Nat /\ cleared \in 0 .. pushed
      /\ Written(ring, pushed) /\ Unread(ring) <= pushed - cleared
      BY PushBound DEF IInv, TypeOK, Event, PollInv, HeadInWritten
<1>2. Unread(ring) \in 0 .. N - 1
      BY <1>1, RingRanges
<1> QED BY <1>1, <1>2, PendingIsLast, RingSize

\* What the guest's ADVANCE_HEAD leaves: the events newer than the one in the
\* slot its poll was aimed at.  An overtaken poll consumes nothing of what the
\* ring held; one that was not, the oldest of it.
LEMMA AdvanceOfPoll ==
  ASSUME IInv, WriteAdvanceHead
  PROVE  /\ Unread(ring') \in 0 .. Unread(ring)
         /\ pushed' = pushed /\ last' = hi
         /\ hi \in last + 1 .. pushed - Unread(ring')
         /\ overrun < 2 => hi = pushed - Unread(ring')
         /\ overrun = 0 => Unread(ring') = Unread(ring) - 1
         /\ overrun = 1 => Unread(ring') = Unread(ring)
<1>1. /\ ring \in Ring(Event) /\ guestHead \in Slot /\ overrun \in 0 .. 2
      /\ pushed \in Nat /\ last \in Nat /\ lo \in Nat /\ hi \in Nat /\ cleared \in 0 .. pushed
      BY PushBound DEF IInv, TypeOK, Event
<1>2. /\ ring.head \in 0 .. N - 1 /\ ring.tail \in 0 .. N - 1 /\ guestHead \in 0 .. N - 1
      /\ Unread(ring) \in 0 .. N - 1
      /\ Age(ring, guestHead) \in 0 .. N - 1
      BY <1>1, RingRanges DEF Slot
<1>3. pc = "advance" /\ pushed' = pushed /\ last' = hi
      BY DEF WriteAdvanceHead
<1>4. Unread(ring') = Age(ring, guestHead)
      BY <1>1, AdvanceFacts DEF WriteAdvanceHead
<1>5. /\ Age(ring, guestHead) < pushed - cleared
      /\ last < lo /\ lo <= hi /\ hi <= ring.events[guestHead]
      /\ overrun < 2 => hi = ring.events[guestHead]
      BY <1>3 DEF IInv, PollInv, PollAimsAtNew, AimsAtNew, ReadLowNew, ReadHighNew
<1>6. ring.events[guestHead] = pushed - Age(ring, guestHead)
      BY <1>1, <1>5 DEF IInv, PollInv, Written
<1>7. overrun = 0 => Age(ring, guestHead) = Unread(ring) - 1
  <2>1. overrun = 0 => ring.head = guestHead /\ ring.tail # guestHead
        BY <1>3 DEF IInv, PollInv, HeadNearPoll, PollAimsAtNew
  <2> QED BY <1>2, <2>1, RingSize DEF Age, Unread
<1>8. overrun = 1 => Age(ring, guestHead) = Unread(ring)
  <2>1. overrun = 1 => Unread(ring) = N - 1 /\ ring.tail = guestHead
        BY <1>3 DEF IInv, PollInv, HeadNearPoll
  <2> QED BY <1>2, <2>1, RingSize DEF Age
<1>9. overrun = 2 => Unread(ring) = N - 1
      BY <1>3 DEF IInv, PollInv, HeadNearPoll
<1>10. Age(ring, guestHead) <= Unread(ring)
      BY <1>1, <1>2, <1>7, <1>8, <1>9, RingSize
<1> QED BY <1>1, <1>2, <1>3, <1>4, <1>5, <1>6, <1>7, <1>8, <1>10

\* A poll that was overtaken at most once takes the event it read out of the
\* ring and no other: a burst of several events is drained one per poll.
THEOREM OneEventPerAdvance == Spec => AdvanceConsumesOne
<1>0. IInv' => (Pending(ring) = (pushed - Unread(ring)) + 1 .. pushed)'
      BY PendingOfIInv, PTL
<1>1. IInv /\ IInv' /\ [Next]_vars =>
        [WriteAdvanceHead /\ overrun < 2 => Pending(ring') = Pending(ring) \ {hi}]_vars
  <2> SUFFICES ASSUME IInv, IInv', WriteAdvanceHead, overrun < 2
               PROVE  Pending(ring') = Pending(ring) \ {hi}
      OBVIOUS
  <2>1. /\ pushed \in Nat
        /\ Unread(ring) \in 0 .. N - 1 /\ Unread(ring) <= pushed
        /\ Pending(ring) = (pushed - Unread(ring)) + 1 .. pushed
        BY PendingOfIInv
  <2>2. Pending(ring') = (pushed' - Unread(ring')) + 1 .. pushed'
        BY <1>0
  <2>3. /\ Unread(ring') \in 0 .. Unread(ring) /\ pushed' = pushed
        /\ hi = pushed - Unread(ring')
        /\ overrun = 0 => Unread(ring') = Unread(ring) - 1
        /\ overrun = 1 => Unread(ring') = Unread(ring)
        BY AdvanceOfPoll
  <2>4. overrun = 0 \/ overrun = 1
        BY DEF IInv, TypeOK
  <2> QED BY <2>1, <2>2, <2>3, <2>4, RingSize
<1> QED BY <1>1, InductiveInvariant, PTL DEF Spec, AdvanceConsumesOne

-----------------------------------------------------------------------------
(* The ring and its guest implement the queue that drops its oldest.        *)

\* The closed form as a sequence.
LEMMA LastOfSeq ==
  ASSUME NEW p \in Nat, NEW u \in 0 .. p
  PROVE  /\ LastOf(p, u) \in Seq(Int)
         /\ Len(LastOf(p, u)) = u
         /\ DOMAIN LastOf(p, u) = 1 .. u
         /\ \A k \in 1 .. u : LastOf(p, u)[k] = p - u + k
  BY DEF LastOf

\* n events arising at once in a queue with room for c: the last ones remain.
LEMMA NewestOfLast ==
  ASSUME NEW p \in Nat, NEW c \in Nat, NEW u \in 0 .. p, u <= c, NEW n \in Nat, NEW v,
         v = IF u + n <= c THEN u + n ELSE c
  PROVE  Queue!Newest(LastOf(p, u) \o [i \in 1 .. n |-> p + i], c) = LastOf(p + n, v)
<1> DEFINE new == [i \in 1 .. n |-> p + i]
           q == LastOf(p, u) \o new
<1>1. /\ LastOf(p, u) \in Seq(Int) /\ Len(LastOf(p, u)) = u
      /\ \A k \in 1 .. u : LastOf(p, u)[k] = p - u + k
      BY LastOfSeq
<1>2. new \in Seq(Int) /\ Len(new) = n /\ \A i \in 1 .. n : new[i] = p + i
      OBVIOUS
<1>3. q \in Seq(Int) /\ Len(q) = u + n
  <2> HIDE DEF new
  <2> QED BY <1>1, <1>2
<1>4. ASSUME NEW k \in 1 .. u + n
      PROVE  q[k] = p - u + k
  <2> HIDE DEF new
  <2>1. q[k] = IF k <= u THEN LastOf(p, u)[k] ELSE new[k - u]
        BY <1>1, <1>2, ConcatProperties
  <2> HIDE DEF q
  <2>2. CASE k <= u
        BY <1>1, <2>1, <2>2
  <2>3. CASE k > u
    <3>1. k - u \in 1 .. n
          BY <2>3
    <3>2. new[k - u] = p + (k - u)
          BY <1>2, <3>1
    <3>3. q[k] = new[k - u]
          BY <2>1, <2>3
    <3>4. q[k] = p + (k - u)
          BY <3>2, <3>3
    <3> QED BY <3>4
  <2> QED BY <2>2, <2>3
<1> HIDE DEF q
<1>5. p + n \in Nat /\ v \in 0 .. p + n
      OBVIOUS
<1>6. /\ LastOf(p + n, v) \in Seq(Int) /\ Len(LastOf(p + n, v)) = v
      /\ \A k \in 1 .. v : LastOf(p + n, v)[k] = p + n - v + k
  <2> DEFINE m == p + n
  <2>1. m \in Nat /\ v \in 0 .. m
        BY <1>5
  <2> HIDE DEF m
  <2>2. /\ LastOf(m, v) \in Seq(Int) /\ Len(LastOf(m, v)) = v
        /\ \A k \in 1 .. v : LastOf(m, v)[k] = m - v + k
        BY <2>1, LastOfSeq
  <2> QED BY <2>2 DEF m
<1>7. ASSUME u + n <= c
      PROVE  Queue!Newest(q, c) = LastOf(p + n, v)
  <2>1. v = u + n
        BY <1>7
  <2>2. ASSUME NEW k \in 1 .. v
        PROVE  q[k] = LastOf(p + n, v)[k]
    <3>1. q[k] = p - u + k
          BY <1>4, <2>1
    <3>2. LastOf(p + n, v)[k] = p + n - v + k
          BY <1>6
    <3> QED BY <2>1, <3>1, <3>2
  <2>3. q = LastOf(p + n, v)
        BY <1>3, <1>6, <2>1, <2>2, SeqEqual
  <2> QED BY <1>3, <1>7, <2>3 DEF Queue!Newest
<1>8. ASSUME u + n > c
      PROVE  Queue!Newest(q, c) = LastOf(p + n, v)
  <2>1. v = c
        BY <1>8
  <2>2. Queue!Newest(q, c) = SubSeq(q, u + n - c + 1, u + n)
        BY <1>3, <1>8 DEF Queue!Newest
  <2>3. /\ SubSeq(q, u + n - c + 1, u + n) \in Seq(Int)
        /\ Len(SubSeq(q, u + n - c + 1, u + n)) = c
        /\ \A k \in 1 .. c : SubSeq(q, u + n - c + 1, u + n)[k] = q[u + n - c + k]
        BY <1>3, <1>8
  <2>4. \A k \in 1 .. c : q[u + n - c + k] = p + n - c + k
        BY <1>4, <1>8
  <2> DEFINE t == SubSeq(q, u + n - c + 1, u + n)
  <2>5. \A k \in 1 .. c : t[k] = LastOf(p + n, v)[k]
        BY <1>6, <2>1, <2>3, <2>4
  <2>6. t = LastOf(p + n, v)
    <3> HIDE DEF t
    <3> QED BY <1>6, <2>1, <2>3, <2>5, SeqEqual DEF t
  <2> QED BY <2>2, <2>6
<1>9. Queue!Newest(q, c) = LastOf(p + n, v)
      BY <1>7, <1>8
<1> QED BY <1>9 DEF q

\* What remains when the oldest are taken is a suffix.
LEMMA SuffixOfLast ==
  ASSUME NEW p \in Nat, NEW u \in 0 .. p, NEW v \in 0 .. u
  PROVE  Queue!IsSuffix(LastOf(p, v), LastOf(p, u))
<1> DEFINE rev(w) == [i \in 1 .. w |-> p - i + 1]
<1>1. ASSUME NEW w \in 0 .. p
      PROVE  /\ Queue!Reverse(LastOf(p, w)) = rev(w)
             /\ rev(w) \in Seq(Int) /\ Len(rev(w)) = w
  <2>1. /\ Len(LastOf(p, w)) = w
        /\ \A k \in 1 .. w : LastOf(p, w)[k] = p - w + k
        BY <1>1, LastOfSeq
  <2>2. ASSUME NEW i \in 1 .. w
        PROVE  LastOf(p, w)[(w - i) + 1] = p - i + 1
    <3>1. (w - i) + 1 \in 1 .. w
          OBVIOUS
    <3>2. LastOf(p, w)[(w - i) + 1] = p - w + ((w - i) + 1)
          BY <2>1, <3>1
    <3> QED BY <3>2
  <2> QED BY <2>1, <2>2 DEF Queue!Reverse
<1>2. v \in 0 .. p /\ u \in 0 .. p /\ v <= u
      OBVIOUS
<1>3. SubSeq(rev(v), 1, v) = SubSeq(rev(u), 1, v)
  <2>1. /\ SubSeq(rev(v), 1, v) = [i \in 1 .. v |-> rev(v)[i]]
        /\ SubSeq(rev(u), 1, v) = [i \in 1 .. v |-> rev(u)[i]]
    <3> HIDE DEF rev
    <3> QED BY <1>1, <1>2
  <2>2. \A i \in 1 .. v : rev(v)[i] = rev(u)[i]
        BY <1>2
  <2> QED BY <2>1, <2>2
<1>4. Queue!IsPrefix(rev(v), rev(u))
  <2> HIDE DEF rev
  <2> QED BY <1>1, <1>2, <1>3 DEF Queue!IsPrefix
<1>5. /\ Queue!Reverse(LastOf(p, v)) = rev(v)
      /\ Queue!Reverse(LastOf(p, u)) = rev(u)
      BY <1>1, <1>2
<1> HIDE DEF rev
<1> QED BY <1>4, <1>5 DEF Queue!IsSuffix

\* A push into a ring that holds the last of p events is a Send of one.
LEMMA PushIsSend ==
  ASSUME NEW r \in Ring(Event), NEW p \in Nat, NEW ev \in Event, NEW q,
         Unread(r) <= p, q = PushEvent(r, ev)
  PROVE  /\ Unread(q) = IF Unread(r) + 1 <= N - 1 THEN Unread(r) + 1 ELSE N - 1
         /\ Unread(q) \in 0 .. N - 1 /\ Unread(q) <= p + 1
<1>1. q \in Ring(Event) /\ PushEffect(r, q, ev)
      BY PushFacts
<1>2. Unread(r) \in 0 .. N - 1 /\ Unread(q) \in 0 .. N - 1
      BY <1>1, RingRanges
<1> QED BY <1>1, <1>2, RingSize DEF PushEffect

\* Each step of the device or of the guest is a step of the queue or leaves it.
LEMMA QueueStep ==
  ASSUME IInv, IInv', [Next]_vars,
         PendingSeq(ring') = LastOf(pushed', Unread(ring'))
  PROVE  [Queue!Next]_(Queue!vars)
<1> DEFINE u == Unread(ring)
           v == Unread(ring')
<1>1. /\ PendingSeq(ring) = LastOf(pushed, u)
      /\ u \in 0 .. N - 1 /\ u <= pushed /\ pushed \in Nat
      BY PendingOfIInv
<1>2. ring \in Ring(Event) /\ last \in Nat
      BY PushBound DEF IInv, TypeOK, Event
<1>3. N - 1 \in Nat
      BY RingSize
<1>4. ASSUME NEW n \in Nat, v = IF u + n <= N - 1 THEN u + n ELSE N - 1,
             pushed' = pushed + n, last' = last
      PROVE  Queue!Send(n)
  <2>1. Queue!Newest(LastOf(pushed, u) \o [i \in 1 .. n |-> pushed + i], N - 1)
          = LastOf(pushed + n, v)
    <3> HIDE DEF u, v
    <3> DEFINE c == N - 1
    <3>1. c \in Nat /\ u \in 0 .. pushed /\ u <= c
          BY <1>1, <1>3
    <3>2. v = IF u + n <= c THEN u + n ELSE c
          BY <1>4
    <3> HIDE DEF c
    <3>3. Queue!Newest(LastOf(pushed, u) \o [i \in 1 .. n |-> pushed + i], c)
            = LastOf(pushed + n, v)
          BY <1>1, <3>1, <3>2, NewestOfLast
    <3> QED BY <3>3 DEF c
  <2> QED BY <1>1, <1>4, <2>1 DEF Queue!Send
<1>5. CASE PushOne
  <2>1. /\ pushed + 1 \in Event /\ ring' = PushEvent(ring, pushed + 1)
        /\ pushed' = pushed + 1 /\ last' = last
        BY <1>1, <1>5, PushBound DEF PushOne, guestVars, Event
  <2>2. v = IF u + 1 <= N - 1 THEN u + 1 ELSE N - 1
        BY <1>1, <1>2, <2>1, PushIsSend
  <2>3. Queue!Send(1)
        BY <1>4, <2>1, <2>2
  <2> QED BY <2>3 DEF Queue!Next
<1>6. CASE PushTwo
  <2> DEFINE half == PushEvent(ring, pushed + 1)
             w == Unread(half)
  <2>1. /\ pushed + 1 \in Event /\ pushed + 1 \in Nat /\ pushed + 2 \in Event
        /\ ring' = PushEvent(half, pushed + 2)
        /\ pushed' = pushed + 2 /\ last' = last
        BY <1>1, <1>6, PushBound DEF PushTwo, guestVars, Event
  <2>2. half \in Ring(Event)
        BY <1>2, <2>1, PushFacts
  <2>3. /\ w = IF u + 1 <= N - 1 THEN u + 1 ELSE N - 1
        /\ w \in 0 .. N - 1 /\ w <= pushed + 1
        BY <1>1, <1>2, <2>1, PushIsSend
  <2>4. v = IF w + 1 <= N - 1 THEN w + 1 ELSE N - 1
    <3> HIDE DEF half
    <3> QED BY <2>1, <2>2, <2>3, PushIsSend
  <2>5. v = IF u + 2 <= N - 1 THEN u + 2 ELSE N - 1
    <3> HIDE DEF u, v, w
    <3> QED BY <1>1, <2>3, <2>4, RingSize
  <2>6. Queue!Send(2)
        BY <1>4, <2>1, <2>5
  <2> QED BY <2>6 DEF Queue!Next
<1>7. CASE WriteAdvanceHead
  <2>1. /\ v \in 0 .. u /\ pushed' = pushed /\ last' = hi
        /\ hi \in last + 1 .. pushed - v
        BY <1>7, AdvanceOfPoll
  <2>2. Queue!IsSuffix(LastOf(pushed, v), LastOf(pushed, u))
    <3> HIDE DEF u, v
    <3>1. u \in 0 .. pushed
          BY <1>1
    <3> QED BY <1>1, <2>1, <3>1, SuffixOfLast
  <2>3. hi \in last + 1 .. pushed
    <3> HIDE DEF u, v
    <3> QED BY <1>1, <1>2, <2>1
  <2>4. \A i \in DOMAIN LastOf(pushed, v) : LastOf(pushed, v)[i] > hi
    <3> HIDE DEF u, v
    <3>1. v \in 0 .. pushed
          BY <1>1, <2>1
    <3>2. /\ DOMAIN LastOf(pushed, v) = 1 .. v
          /\ \A k \in 1 .. v : LastOf(pushed, v)[k] = pushed - v + k
          BY <1>1, <3>1, LastOfSeq
    <3> QED BY <1>1, <1>2, <2>1, <3>1, <3>2
  <2>5. Queue!Receive
        BY <1>1, <2>1, <2>2, <2>3, <2>4 DEF Queue!Receive
  <2> QED BY <2>5 DEF Queue!Next
<1>8. CASE WriteClear
  <2>1. v = 0 /\ pushed' = pushed /\ last' = last
        BY <1>2, <1>8, ClearFacts DEF WriteClear, guestVars
  <2>2. PendingSeq(ring') = <<>>
        BY <2>1 DEF PendingSeq
  <2>3. Queue!Discard
        BY <2>1, <2>2 DEF Queue!Discard
  <2> QED BY <2>3 DEF Queue!Next
<1>9. CASE ReadHead \/ ReadTail \/ ReadLow \/ ReadHigh \/ UNCHANGED vars
      BY <1>9 DEF ReadHead, ReadTail, ReadLow, ReadHigh, vars, hostVars, guestVars, Queue!vars
<1> QED BY <1>5, <1>6, <1>7, <1>8, <1>9 DEF Next, Poll

\* The ring with its polling guest implements the queue of DropOldestQueue, for
\* every size of the ring: whatever the host overwrites and the guest overtakes,
\* the guest sees a queue that loses events at its old end only and never hands
\* one over twice.
THEOREM RingImplementsQueue == Spec => QueueSpec
<1>1. Init => Queue!Init
  <2> SUFFICES ASSUME Init PROVE Queue!Init
      OBVIOUS
  <2>1. Unread(ring) = 0
        BY DEF Init, NewRing, Unread
  <2>2. PendingSeq(ring) = <<>>
        BY <2>1 DEF PendingSeq
  <2> QED BY <2>2 DEF Init, Queue!Init
<1>2. IInv' => (PendingSeq(ring) = LastOf(pushed, Unread(ring)))'
      BY PendingOfIInv, PTL
<1>3. IInv /\ IInv' /\ [Next]_vars => [Queue!Next]_(Queue!vars)
      BY <1>2, QueueStep
<1> QED BY <1>1, <1>3, InductiveInvariant, PTL DEF Spec, QueueSpec, Queue!Spec
=============================================================================
