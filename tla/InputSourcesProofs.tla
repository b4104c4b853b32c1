--------------------------- MODULE InputSourcesProofs ---------------------------
(***************************************************************************)
(* Proofs about InputSources for every capacity of the queue, every        *)
(* screen, every set of keys and buttons and any number of calls.          *)
(*                                                                         *)
(* The guest's view converges part by part in the same way, so one         *)
(* invariant over topics covers them: the newest event about a topic tells *)
(* the truth, or there is none and the view does, unless it was lost.      *)
(***************************************************************************)
EXTENDS InputSources, SequenceTheorems, TLAPS

-----------------------------------------------------------------------------
(* Keys and events.                                                        *)

\* The keys that stand for a modifier are mapped.
LEMMA KeyFacts ==
  ASSUME NEW k \in Keys
  PROVE  /\ Scancode(k) \in Code
         /\ ModifierOf(k) \subseteq Modifier
         /\ k \notin Mapped => ModifierOf(k) = {}
<1>1. Scancode(k) \in Code
      BY DEF Code
<1>2. ModifierOf(k) \subseteq Modifier
      BY DEF ModifierOf, Modifier
<1>3. Scancode(k) = 0 => ModifierOf(k) = {}
      BY DEF Scancode, ModifierOf
<1> QED BY <1>1, <1>2, <1>3 DEF Mapped

\* A topic is its part and its code.
LEMMA TopicFacts ==
  /\ \A t \in Topic : /\ t.part \in Part /\ t.code \in Code
                      /\ t.part # "key" => t = Whole(t.part)
                      /\ t.part = "key" => t = KeyTopic(t.code)
  /\ \A part \in Part \ {"key"} : Whole(part) \in Topic /\ Whole(part).part = part
  /\ \A c \in Code : KeyTopic(c) \in Topic /\ KeyTopic(c).part = "key" /\ KeyTopic(c).code = c
<1>1. ASSUME NEW t \in Topic
      PROVE  /\ t.part \in Part /\ t.code \in Code
             /\ t.part # "key" => t = Whole(t.part)
             /\ t.part = "key" => t = KeyTopic(t.code)
  <2>1. CASE t \in [part : {"key"}, code : Code]
        BY <2>1 DEF Part, KeyTopic
  <2>2. CASE t \in [part : Part \ {"key"}, code : {0}]
        BY <2>2 DEF Part, Whole, Code
  <2> QED BY <2>1, <2>2 DEF Topic
<1>2. ASSUME NEW part \in Part \ {"key"}
      PROVE  Whole(part) \in Topic /\ Whole(part).part = part
      BY DEF Topic, Whole
<1>3. ASSUME NEW c \in Code
      PROVE  KeyTopic(c) \in Topic /\ KeyTopic(c).part = "key" /\ KeyTopic(c).code = c
      BY DEF Topic, KeyTopic
<1> QED BY <1>1, <1>2, <1>3

\* The topics an event tells about.
LEMMA ConcernsFacts ==
  ASSUME NEW ev \in Event
  PROVE  /\ Concerns(ev) \subseteq Topic
         /\ \A t \in Topic :
              About(t, ev) <=>
                \/ t.part = "flags"
                \/ t.part = "pos" /\ ev.type \in {"move", "btn"}
                \/ t.part = "btn" /\ ev.type = "btn"
                \/ t.part = "key" /\ ev.type \in {"press", "release"} /\ t.code = ev.key
<1>1. ev.type \in {"move", "btn", "press", "release"} /\ ev.key \in Code
      BY DEF Event
<1>2. "pos" \in Part \ {"key"} /\ "btn" \in Part \ {"key"} /\ "flags" \in Part \ {"key"}
      BY DEF Part
<1>3. Concerns(ev) \subseteq Topic
      BY <1>1, <1>2, TopicFacts DEF Concerns
<1>4. ASSUME NEW t \in Topic
      PROVE  /\ t = Whole("pos") <=> t.part = "pos"
             /\ t = Whole("btn") <=> t.part = "btn"
             /\ t = Whole("flags") <=> t.part = "flags"
             /\ t = KeyTopic(ev.key) <=> t.part = "key" /\ t.code = ev.key
      BY <1>1, <1>2, TopicFacts
<1>5. ASSUME NEW t \in Topic
      PROVE  About(t, ev) <=>
               \/ t.part = "flags"
               \/ t.part = "pos" /\ ev.type \in {"move", "btn"}
               \/ t.part = "btn" /\ ev.type = "btn"
               \/ t.part = "key" /\ ev.type \in {"press", "release"} /\ t.code = ev.key
  <2>1. CASE ev.type = "move"
        BY <1>4, <2>1 DEF About, Concerns
  <2>2. CASE ev.type = "btn"
        BY <1>4, <2>2 DEF About, Concerns
  <2>3. CASE ev.type \in {"press", "release"}
        BY <1>4, <2>3 DEF About, Concerns
  <2> QED BY <1>1, <2>1, <2>2, <2>3
<1> QED BY <1>3, <1>5

\* A position is one coordinate per axis within the screen.
LEMMA PositionFacts ==
  /\ \A p : p \in Positions <=> p \in [Axis -> Int] /\ \A a \in Axis : p[a] \in 0 .. MaxPos[a]
  /\ Middle \in Positions
  /\ \A a \in Axis : MaxPos[a] \in Nat
<1>1. \A a \in Axis : MaxPos[a] \in Nat
      BY InputBounds
<1>2. ASSUME NEW p \in Positions
      PROVE  p \in [Axis -> Int] /\ \A a \in Axis : p[a] \in 0 .. MaxPos[a]
      BY <1>1 DEF Positions, Axis
<1>3. ASSUME NEW p \in [Axis -> Int], \A a \in Axis : p[a] \in 0 .. MaxPos[a]
      PROVE  p \in Positions
      BY <1>1, <1>3 DEF Positions, Axis
<1>4. \A a \in Axis : (MaxPos[a] + 1) \div 2 \in 0 .. MaxPos[a]
      BY <1>1
<1>5. Middle \in Positions
      BY <1>1, <1>3, <1>4 DEF Middle
<1> QED BY <1>1, <1>2, <1>3, <1>5

\* What the handlers and the monitor push are events.
LEMMA MoveEventFacts ==
  ASSUME NEW flags \in SUBSET Modifier, NEW at \in Positions
  PROVE  MoveEvent(flags, at) \in Event
  BY DEF MoveEvent, Event, Code

\* The same of an event of the buttons.
LEMMA BtnEventFacts ==
  ASSUME NEW flags \in SUBSET Modifier, NEW at \in Positions, NEW btn \in SUBSET Buttons
  PROVE  BtnEvent(flags, at, btn) \in Event
  BY DEF BtnEvent, Event, Code

\* The same of an event of a key.
LEMMA KeyEventFacts ==
  ASSUME NEW flags \in SUBSET Modifier, NEW code \in Code, NEW type \in {"press", "release"}
  PROVE  KeyEvent(type, flags, code) \in Event
<1>1. Nowhere \in Positions
      BY PositionFacts DEF Nowhere
<1> QED BY <1>1 DEF KeyEvent, Event

-----------------------------------------------------------------------------
(* The queue.                                                              *)

\* What push_event makes of the queue: a suffix of what was there and what
\* comes in, as long as fits.
LEMMA PushFacts ==
  ASSUME queue \in Seq(Event), NEW evs \in Seq(Event), PushAll(evs)
  PROVE  LET all == queue \o evs
         IN  /\ all \in Seq(Event) /\ Len(all) = Len(queue) + Len(evs)
             /\ \A i \in 1 .. Len(all) :
                  all[i] = IF i <= Len(queue) THEN queue[i] ELSE evs[i - Len(queue)]
             /\ \E over \in 0 .. Len(all) :
                  /\ queue' \in Seq(Event) /\ Len(queue') = Len(all) - over
                  /\ Len(queue') <= Capacity
                  /\ \A i \in 1 .. Len(queue') : queue'[i] = all[over + i]
                  /\ \A i \in 1 .. over : Concerns(all[i]) \subseteq lost'
                  /\ lost \subseteq lost'
                  /\ lost' \subseteq lost \cup Topic
<1> DEFINE all == queue \o evs
           over == IF Len(all) > Capacity THEN Len(all) - Capacity ELSE 0
           gone == SubSeq(all, 1, over)
<1>1. /\ all \in Seq(Event) /\ Len(all) = Len(queue) + Len(evs)
      /\ \A i \in 1 .. Len(all) :
           all[i] = IF i <= Len(queue) THEN queue[i] ELSE evs[i - Len(queue)]
      BY ConcatProperties
<1>2. queue' = SubSeq(all, over + 1, Len(all)) /\ lost' = lost \cup Told(gone)
      BY DEF PushAll
<1> HIDE DEF all
<1>3. Len(all) \in Nat /\ over \in 0 .. Len(all) /\ Len(all) - over <= Capacity
      BY <1>1, InputBounds
<1> HIDE DEF over
<1>4. /\ queue' \in Seq(Event) /\ Len(queue') = Len(all) - over
      /\ \A i \in 1 .. Len(queue') : queue'[i] = all[over + i]
  <2>1. \A i \in over + 1 .. Len(all) : all[i] \in Event
        BY <1>1, <1>3, ElementOfSeq
  <2>2. /\ SubSeq(all, over + 1, Len(all)) \in Seq(Event)
        /\ Len(SubSeq(all, over + 1, Len(all))) = Len(all) - over
        /\ \A i \in 1 .. Len(all) - over : SubSeq(all, over + 1, Len(all))[i] = all[over + i]
        BY <1>3, <2>1, SubSeqProperties
  <2> QED BY <1>2, <2>2
<1>5. /\ gone \in Seq(Event) /\ Len(gone) = over
      /\ \A i \in 1 .. over : gone[i] = all[i]
  <2>1. \A i \in 1 .. over : all[i] \in Event
        BY <1>1, <1>3, ElementOfSeq
  <2> QED BY <1>3, <2>1, SubSeqProperties
<1> HIDE DEF gone
<1>6. DOMAIN gone = 1 .. over
      BY <1>5, LenProperties
<1>7. \A i \in 1 .. over : Concerns(all[i]) \subseteq lost'
      BY <1>2, <1>5, <1>6 DEF Told
<1>8. Told(gone) \subseteq Topic
  <2>1. \A i \in 1 .. over : gone[i] \in Event
        BY <1>5
  <2> QED BY <1>6, <2>1, ConcernsFacts DEF Told
<1> QED BY <1>1, <1>2, <1>3, <1>4, <1>7, <1>8 DEF all

\* Pushing keeps a topic converging to vals, if the new events do not mention it
\* or the newest that does says vals.
LEMMA PushConverges ==
  ASSUME queue \in Seq(Event), NEW evs \in Seq(Event), PushAll(evs),
         NEW t \in Topic, NEW vals,
         NewestSays(evs, t, vals),
         Silent(evs, t) => Converging(queue, lost, view, t, vals)
  PROVE  Converging(queue', lost', view, t, vals)
<1> DEFINE all == queue \o evs
<1>1. /\ all \in Seq(Event) /\ Len(all) = Len(queue) + Len(evs)
      /\ \A i \in 1 .. Len(all) :
           all[i] = IF i <= Len(queue) THEN queue[i] ELSE evs[i - Len(queue)]
      BY PushFacts
<1>2. PICK over \in 0 .. Len(all) :
        /\ queue' \in Seq(Event) /\ Len(queue') = Len(all) - over
        /\ \A i \in 1 .. Len(queue') : queue'[i] = all[over + i]
        /\ \A i \in 1 .. over : Concerns(all[i]) \subseteq lost'
        /\ lost \subseteq lost'
      BY PushFacts
<1> HIDE DEF all
<1>3. /\ DOMAIN queue = 1 .. Len(queue) /\ DOMAIN evs = 1 .. Len(evs)
      /\ DOMAIN queue' = 1 .. Len(queue')
      /\ Len(queue) \in Nat /\ Len(evs) \in Nat /\ Len(queue') \in Nat
      BY <1>2, LenProperties
\* The newest event about t among all of them.
<1>4. ASSUME NEW i \in 1 .. Len(all), About(t, all[i]),
             \A j \in 1 .. Len(all) : j > i => ~About(t, all[j])
      PROVE  Says(t, all[i]) \in vals
  <2>1. CASE i > Len(queue)
    <3>1. i - Len(queue) \in 1 .. Len(evs) /\ all[i] = evs[i - Len(queue)]
          BY <1>1, <1>3, <2>1
    <3>2. ASSUME NEW j \in 1 .. Len(evs), j > i - Len(queue)
          PROVE  ~About(t, evs[j])
      <4>1. j + Len(queue) \in 1 .. Len(all) /\ j + Len(queue) > i
            BY <1>1, <1>3, <3>2
      <4>2. all[j + Len(queue)] = evs[(j + Len(queue)) - Len(queue)]
            BY <1>1, <1>3, <4>1
      <4>3. (j + Len(queue)) - Len(queue) = j
            BY <1>3
      <4> QED BY <1>4, <4>1, <4>2, <4>3
    <3> QED BY <1>3, <1>4, <3>1, <3>2 DEF NewestSays
  <2>2. CASE i <= Len(queue)
    <3>1. all[i] = queue[i] /\ i \in 1 .. Len(queue)
          BY <1>1, <1>3, <2>2
    <3>2. Silent(evs, t)
      <4>1. ASSUME NEW j \in 1 .. Len(evs)
            PROVE  ~About(t, evs[j])
        <5>1. j + Len(queue) \in 1 .. Len(all) /\ j + Len(queue) > i
              BY <1>1, <1>3, <2>2
        <5>2. all[j + Len(queue)] = evs[(j + Len(queue)) - Len(queue)]
              BY <1>1, <1>3, <5>1
        <5>3. (j + Len(queue)) - Len(queue) = j
              BY <1>3
        <5> QED BY <1>4, <5>1, <5>2, <5>3
      <4> QED BY <1>3, <4>1 DEF Silent
    <3>3. ASSUME NEW j \in 1 .. Len(queue), j > i
          PROVE  ~About(t, queue[j])
      <4>1. j \in 1 .. Len(all) /\ all[j] = queue[j]
            BY <1>1, <1>3
      <4> QED BY <1>4, <3>3, <4>1
    <3>4. NewestSays(queue, t, vals)
          BY <3>2 DEF Converging
    <3>5. Says(t, queue[i]) \in vals
          BY <1>3, <1>4, <3>1, <3>3, <3>4, Zenon DEF NewestSays
    <3> QED BY <3>1, <3>5
  <2>3. i > Len(queue) \/ i <= Len(queue)
        BY <1>1, <1>3
  <2> QED BY <2>1, <2>2, <2>3
<1>5. NewestSays(queue', t, vals)
  <2>1. ASSUME NEW i \in 1 .. Len(queue'), About(t, queue'[i]),
               \A j \in 1 .. Len(queue') : j > i => ~About(t, queue'[j])
        PROVE  Says(t, queue'[i]) \in vals
    <3>1. over + i \in 1 .. Len(all) /\ queue'[i] = all[over + i]
          BY <1>1, <1>2, <1>3
    <3>2. ASSUME NEW j \in 1 .. Len(all), j > over + i
          PROVE  ~About(t, all[j])
      <4>1. j - over \in 1 .. Len(queue') /\ j - over > i /\ over + (j - over) = j
            BY <1>1, <1>2, <1>3, <3>2
      <4>2. queue'[j - over] = all[over + (j - over)]
            BY <1>2, <4>1
      <4> QED BY <2>1, <4>1, <4>2
    <3> QED BY <1>4, <2>1, <3>1, <3>2
  <2> QED BY <1>3, <2>1 DEF NewestSays
<1>6. ASSUME Silent(queue', t), t \notin lost'
      PROVE  ViewSays(t, view) \in vals
  <2>1. ASSUME NEW i \in 1 .. Len(all)
        PROVE  ~About(t, all[i])
    <3>1. CASE i <= over
          BY <1>2, <1>6, <3>1 DEF About
    <3>2. CASE i > over
      <4>1. i - over \in 1 .. Len(queue') /\ over + (i - over) = i
            BY <1>1, <1>2, <1>3, <3>2
      <4>2. queue'[i - over] = all[over + (i - over)]
            BY <1>2, <4>1
      <4> QED BY <1>3, <1>6, <4>1, <4>2 DEF Silent
    <3> QED BY <1>1, <1>2, <1>3, <3>1, <3>2
  <2>2. Silent(queue, t)
        BY <1>1, <1>3, <2>1 DEF Silent
  <2>3. Silent(evs, t)
    <3>1. ASSUME NEW j \in 1 .. Len(evs)
          PROVE  ~About(t, evs[j])
      <4>1. j + Len(queue) \in 1 .. Len(all) /\ (j + Len(queue)) - Len(queue) = j
            BY <1>1, <1>3
      <4>2. all[j + Len(queue)] = evs[(j + Len(queue)) - Len(queue)]
            BY <1>1, <1>3, <4>1
      <4> QED BY <2>1, <4>1, <4>2
    <3> QED BY <1>3, <3>1 DEF Silent
  <2> QED BY <1>2, <1>6, <2>2, <2>3 DEF Converging
<1> QED BY <1>5, <1>6 DEF Converging

\* Pushing one event: it is what the topics it is about converge to.
LEMMA PushOneConverges ==
  ASSUME queue \in Seq(Event), NEW ev \in Event, Push(ev),
         NEW t \in Topic, NEW vals,
         About(t, ev) => Says(t, ev) \in vals,
         ~About(t, ev) => Converging(queue, lost, view, t, vals)
  PROVE  Converging(queue', lost', view, t, vals)
<1> DEFINE evs == <<ev>>
<1>1. evs \in Seq(Event) /\ DOMAIN evs = {1} /\ evs[1] = ev
      OBVIOUS
<1>2. PushAll(evs)
      BY DEF Push
<1> HIDE DEF evs
<1>3. NewestSays(evs, t, vals)
      BY <1>1 DEF NewestSays
<1>4. Silent(evs, t) => Converging(queue, lost, view, t, vals)
      BY <1>1 DEF Silent
<1> QED BY <1>1, <1>2, <1>3, <1>4, PushConverges

\* Events about other topics only.
LEMMA PushOthersConverges ==
  ASSUME queue \in Seq(Event), NEW evs \in Seq(Event), PushAll(evs),
         NEW t \in Topic, NEW vals, Silent(evs, t), Converging(queue, lost, view, t, vals)
  PROVE  Converging(queue', lost', view, t, vals)
<1>1. NewestSays(evs, t, vals)
      BY DEF NewestSays, Silent
<1> QED BY <1>1, PushConverges

-----------------------------------------------------------------------------
(* The guest.                                                              *)

View == [pos : Positions, btn : SUBSET Buttons, keys : SUBSET Code, flags : SUBSET Modifier]

\* An event sets what it is about in the view and nothing else.
LEMMA AppliedFacts ==
  ASSUME NEW v \in View, NEW ev \in Event, NEW w, w = Applied(v, ev)
  PROVE  /\ w \in View
         /\ \A t \in Topic : /\ About(t, ev) => ViewSays(t, w) = Says(t, ev)
                             /\ ~About(t, ev) => ViewSays(t, w) = ViewSays(t, v)
<1>1. /\ ev.type \in {"move", "btn", "press", "release"} /\ ev.flags \in SUBSET Modifier
      /\ ev.at \in Positions /\ ev.btn \in SUBSET Buttons /\ ev.key \in Code
      BY DEF Event
<1> DEFINE Agrees(t) == /\ About(t, ev) => ViewSays(t, w) = Says(t, ev)
                        /\ ~About(t, ev) => ViewSays(t, w) = ViewSays(t, v)
<1>2. CASE ev.type = "move"
  <2>1. w = [v EXCEPT !.pos = ev.at, !.flags = ev.flags]
        BY <1>2 DEF Applied
  <2>2. /\ w \in View /\ w.pos = ev.at /\ w.flags = ev.flags
        /\ w.btn = v.btn /\ w.keys = v.keys
        BY <1>1, <2>1 DEF View
  <2>3. ASSUME NEW t \in Topic
        PROVE  Agrees(t)
        BY <1>2, <2>2, ConcernsFacts DEF Says, ViewSays, KeyType
  <2> QED BY <2>2, <2>3
<1>3. CASE ev.type = "btn"
  <2>1. w = [v EXCEPT !.pos = ev.at, !.btn = ev.btn, !.flags = ev.flags]
        BY <1>3 DEF Applied
  <2>2. /\ w \in View /\ w.pos = ev.at /\ w.flags = ev.flags
        /\ w.btn = ev.btn /\ w.keys = v.keys
        BY <1>1, <2>1 DEF View
  <2>3. ASSUME NEW t \in Topic
        PROVE  Agrees(t)
        BY <1>3, <2>2, ConcernsFacts DEF Says, ViewSays, KeyType
  <2> QED BY <2>2, <2>3
<1>4. CASE ev.type = "press"
  <2>1. w = [v EXCEPT !.keys = @ \cup {ev.key}, !.flags = ev.flags]
        BY <1>4 DEF Applied
  <2>2. /\ w \in View /\ w.pos = v.pos /\ w.flags = ev.flags
        /\ w.btn = v.btn /\ w.keys = v.keys \cup {ev.key}
    <3> DEFINE keys == v.keys \cup {ev.key}
    <3>1. keys \in SUBSET Code
          BY <1>1 DEF View
    <3>2. w = [v EXCEPT !.keys = keys, !.flags = ev.flags]
          BY <2>1
    <3> HIDE DEF keys
    <3>3. w \in View /\ w.pos = v.pos /\ w.flags = ev.flags /\ w.btn = v.btn /\ w.keys = keys
      <4>1. w.pos = v.pos /\ w.flags = ev.flags /\ w.btn = v.btn /\ w.keys = keys
            BY <3>2 DEF View
      <4>2. w = [pos |-> v.pos, btn |-> v.btn, keys |-> keys, flags |-> ev.flags]
            BY <3>2 DEF View
      <4>3. w \in View
            BY <1>1, <3>1, <4>2 DEF View
      <4> QED BY <4>1, <4>3
    <3> QED BY <3>3 DEF keys
  <2>3. ASSUME NEW t \in Topic
        PROVE  Agrees(t)
    <3>1. About(t, ev) <=> t.part = "flags" \/ (t.part = "key" /\ t.code = ev.key)
          BY <1>4, ConcernsFacts
    <3>2. t.part \in {"pos", "btn", "key", "flags"}
          BY TopicFacts DEF Part
    <3>3. CASE t.part = "key"
          BY <1>4, <2>2, <3>1, <3>3 DEF Says, ViewSays, KeyType
    <3>4. CASE t.part \in {"pos", "btn", "flags"}
          BY <2>2, <3>1, <3>4 DEF Says, ViewSays
    <3> QED BY <3>2, <3>3, <3>4
  <2> QED BY <2>2, <2>3
<1>5. CASE ev.type = "release"
  <2>1. w = [v EXCEPT !.keys = @ \ {ev.key}, !.flags = ev.flags]
        BY <1>5 DEF Applied
  <2>2. /\ w \in View /\ w.pos = v.pos /\ w.flags = ev.flags
        /\ w.btn = v.btn /\ w.keys = v.keys \ {ev.key}
    <3> DEFINE keys == v.keys \ {ev.key}
    <3>1. keys \in SUBSET Code
          BY <1>1 DEF View
    <3>2. w = [v EXCEPT !.keys = keys, !.flags = ev.flags]
          BY <2>1
    <3> HIDE DEF keys
    <3>3. w \in View /\ w.pos = v.pos /\ w.flags = ev.flags /\ w.btn = v.btn /\ w.keys = keys
      <4>1. w.pos = v.pos /\ w.flags = ev.flags /\ w.btn = v.btn /\ w.keys = keys
            BY <3>2 DEF View
      <4>2. w = [pos |-> v.pos, btn |-> v.btn, keys |-> keys, flags |-> ev.flags]
            BY <3>2 DEF View
      <4>3. w \in View
            BY <1>1, <3>1, <4>2 DEF View
      <4> QED BY <4>1, <4>3
    <3> QED BY <3>3 DEF keys
  <2>3. ASSUME NEW t \in Topic
        PROVE  Agrees(t)
    <3>1. About(t, ev) <=> t.part = "flags" \/ (t.part = "key" /\ t.code = ev.key)
          BY <1>5, ConcernsFacts
    <3>2. t.part \in {"pos", "btn", "key", "flags"}
          BY TopicFacts DEF Part
    <3>3. CASE t.part = "key"
          BY <1>5, <2>2, <3>1, <3>3 DEF Says, ViewSays, KeyType
    <3>4. CASE t.part \in {"pos", "btn", "flags"}
          BY <2>2, <3>1, <3>4 DEF Says, ViewSays
    <3> QED BY <3>2, <3>3, <3>4
  <2> QED BY <2>2, <2>3
<1> QED BY <1>1, <1>2, <1>3, <1>4, <1>5

\* Taking the oldest event keeps every topic converging.
LEMMA TakeConverges ==
  ASSUME queue \in Seq(Event), view \in View, Take,
         NEW t \in Topic, NEW vals, Converging(queue, lost, view, t, vals)
  PROVE  Converging(queue', lost', view', t, vals)
<1>1. /\ queue # <<>> /\ view' = Applied(view, queue[1]) /\ queue' = Tail(queue)
      /\ lost' = lost \ Concerns(queue[1])
      BY DEF Take
<1>2. /\ queue' \in Seq(Event) /\ Len(queue') = Len(queue) - 1 /\ Len(queue) \in Nat \ {0}
      /\ \A i \in 1 .. Len(queue') : queue'[i] = queue[i + 1]
      BY <1>1, HeadTailProperties, EmptySeq
<1>3. /\ DOMAIN queue = 1 .. Len(queue) /\ DOMAIN queue' = 1 .. Len(queue')
      /\ queue[1] \in Event
      BY <1>2, LenProperties
<1>4. NewestSays(queue', t, vals)
  <2>1. ASSUME NEW i \in 1 .. Len(queue'), About(t, queue'[i]),
               \A j \in 1 .. Len(queue') : j > i => ~About(t, queue'[j])
        PROVE  Says(t, queue'[i]) \in vals
    <3>1. i + 1 \in 1 .. Len(queue) /\ queue'[i] = queue[i + 1]
          BY <1>2
    <3>2. ASSUME NEW j \in 1 .. Len(queue), j > i + 1
          PROVE  ~About(t, queue[j])
      <4>1. j - 1 \in 1 .. Len(queue') /\ j - 1 > i /\ (j - 1) + 1 = j
            BY <1>2, <3>2
      <4>2. queue'[j - 1] = queue[(j - 1) + 1]
            BY <1>2, <4>1
      <4> QED BY <2>1, <4>1, <4>2
    <3> QED BY <1>3, <2>1, <3>1, <3>2 DEF Converging, NewestSays
  <2> QED BY <1>3, <2>1 DEF NewestSays
<1>5. ASSUME Silent(queue', t), t \notin lost'
      PROVE  ViewSays(t, view') \in vals
  <2>1. ASSUME NEW j \in 1 .. Len(queue), j > 1
        PROVE  ~About(t, queue[j])
    <3>1. j - 1 \in 1 .. Len(queue') /\ (j - 1) + 1 = j
          BY <1>2, <2>1
    <3>2. queue'[j - 1] = queue[(j - 1) + 1]
          BY <1>2, <3>1
    <3> QED BY <1>3, <1>5, <3>1, <3>2 DEF Silent
  <2>4. /\ About(t, queue[1]) => ViewSays(t, view') = Says(t, queue[1])
        /\ ~About(t, queue[1]) => ViewSays(t, view') = ViewSays(t, view)
    <3> DEFINE ev == queue[1]
    <3>1. ev \in Event /\ view' = Applied(view, ev)
          BY <1>1, <1>3
    <3> HIDE DEF ev
    <3>2. /\ About(t, ev) => ViewSays(t, view') = Says(t, ev)
          /\ ~About(t, ev) => ViewSays(t, view') = ViewSays(t, view)
          BY <3>1, AppliedFacts
    <3> QED BY <3>2 DEF ev
  <2>2. CASE About(t, queue[1])
    <3>1. Says(t, queue[1]) \in vals
          BY <1>2, <1>3, <2>1, <2>2 DEF Converging, NewestSays
    <3>2. ViewSays(t, view') = Says(t, queue[1])
          BY <2>2, <2>4
    <3> QED BY <3>1, <3>2
  <2>3. CASE ~About(t, queue[1])
    <3>1. Silent(queue, t)
          BY <1>2, <1>3, <2>1, <2>3 DEF Silent
    <3>2. t \notin lost
          BY <1>1, <1>5, <2>3 DEF About
    <3>3. ViewSays(t, view) \in vals
          BY <3>1, <3>2 DEF Converging
    <3> QED BY <2>3, <2>4, <3>3
  <2> QED BY <2>2, <2>3
<1> QED BY <1>4, <1>5 DEF Converging

-----------------------------------------------------------------------------
(* Types.                                                                  *)

\* A handler that pushes events leaves a queue of events, no longer than it may be.
LEMMA PushTypes ==
  ASSUME TypeOK, NEW evs \in Seq(Event), PushAll(evs)
  PROVE  queue' \in Seq(Event) /\ Len(queue') <= Capacity /\ lost' \subseteq Topic
<1>1. queue \in Seq(Event) /\ lost \subseteq Topic
      BY DEF TypeOK
<1> QED BY <1>1, PushFacts

\* The same of a handler that pushes one event.
LEMMA PushOneTypes ==
  ASSUME TypeOK, NEW ev \in Event, Push(ev)
  PROVE  queue' \in Seq(Event) /\ Len(queue') <= Capacity /\ lost' \subseteq Topic
<1>1. <<ev>> \in Seq(Event) /\ PushAll(<<ev>>)
      BY DEF Push
<1> QED BY <1>1, PushTypes

\* The device starts with every variable in its type.
LEMMA InitTypeOK == Init => TypeOK
<1> SUFFICES ASSUME Init PROVE TypeOK
    OBVIOUS
<1>1. BootView \in View
      BY PositionFacts DEF BootView, View
<1>2. queue \in Seq(Event) /\ Len(queue) <= Capacity
      BY InputBounds DEF Init
<1>3. pos \in Positions /\ view \in View
      BY <1>1, PositionFacts DEF Init
<1>4. inputs \in 0 .. MaxInput
      BY InputBounds DEF Init
<1>5. unsynced \in BOOLEAN
      BY DEF Init
<1> QED BY <1>2, <1>3, <1>4, <1>5 DEF Init, TypeOK, View

\* Every handler, injection and step of the guest keeps the types.
LEMMA NextTypeOK == TypeOK /\ [Next]_vars => TypeOK'
<1> SUFFICES ASSUME TypeOK, [Next]_vars
             PROVE  TypeOK'
    OBVIOUS
<1>1. /\ queue \in Seq(Event) /\ Len(queue) <= Capacity /\ modifiers \in SUBSET Modifier
      /\ btnState \in SUBSET Buttons /\ pos \in Positions /\ held \subseteq Keys
      /\ pressed \subseteq Buttons /\ unsynced \in BOOLEAN /\ injected \subseteq Topic \ {Whole("pos")}
      /\ lost \subseteq Topic /\ view \in View /\ inputs \in 0 .. MaxInput
      BY DEF TypeOK, View
<1>2. Input => inputs' \in 0 .. MaxInput
      BY <1>1, InputBounds DEF Input
<1>17. /\ {Whole("btn"), Whole("flags")} \subseteq Topic \ {Whole("pos")}
       /\ \A c \in Code : KeyTopic(c) \in Topic \ {Whole("pos")}
  <2>1. \A part \in {"pos", "btn", "flags"} : Whole(part) \in Topic /\ Whole(part).part = part
        BY TopicFacts DEF Part
  <2> QED BY <2>1, TopicFacts
<1>3. ASSUME NEW a \in Axis, NEW v \in 0 .. MaxPos[a]
      PROVE  [pos EXCEPT ![a] = v] \in Positions
  <2>1. pos \in [Axis -> Int] /\ \A b \in Axis : pos[b] \in 0 .. MaxPos[b]
        BY <1>1, PositionFacts
  <2>2. v \in Int
        OBVIOUS
  <2>3. /\ [pos EXCEPT ![a] = v] \in [Axis -> Int]
        /\ \A b \in Axis : [pos EXCEPT ![a] = v][b] \in 0 .. MaxPos[b]
        BY <1>3, <2>1, <2>2
  <2> QED BY <2>3, PositionFacts
<1>4. ASSUME NEW a \in Axis, NEW d \in Int
      PROVE  Clamp(d, MaxPos[a]) \in 0 .. MaxPos[a]
      BY PositionFacts DEF Clamp
<1>5. ASSUME NEW a \in Axis, NEW d \in Steps, MoveRel(a, d)
      PROVE  TypeOK'
  <2>1. pos[a] + d \in Int
        BY <1>1, PositionFacts, InputBounds
  <2>2. pos' \in Positions
        BY <1>3, <1>4, <1>5, <2>1 DEF MoveRel
  <2> QED BY <1>1, <1>2, <1>5, <2>2 DEF MoveRel, TypeOK
<1>6. ASSUME NEW a \in Axis, NEW v \in 0 .. MaxPos[a], MoveAbs(a, v)
      PROVE  TypeOK'
  <2>1. pos' \in Positions
        BY <1>3, <1>6 DEF MoveAbs
  <2> QED BY <1>1, <1>2, <1>6, <2>1 DEF MoveAbs, TypeOK
<1>7. ASSUME NEW b \in Buttons, NEW down \in BOOLEAN, Button(b, down)
      PROVE  TypeOK'
  <2>1. btnState' \in SUBSET Buttons /\ pressed' \subseteq Buttons
        BY <1>1, <1>7 DEF Button, BtnAfter
  <2>2. BtnEvent(modifiers, pos, btnState') \in Event
        BY <1>1, <2>1, BtnEventFacts
  <2>3. Push(BtnEvent(modifiers, pos, btnState'))
        BY <1>7 DEF Button
  <2>4. queue' \in Seq(Event) /\ Len(queue') <= Capacity /\ lost' \subseteq Topic
        BY <2>2, <2>3, PushOneTypes
  <2> QED BY <1>1, <1>2, <1>7, <2>1, <2>4 DEF Button, TypeOK
<1>8. CASE Sync
  <2>1. MoveEvent(modifiers, pos) \in Event
        BY <1>1, MoveEventFacts
  <2>2. queue' \in Seq(Event) /\ Len(queue') <= Capacity /\ lost' \subseteq Topic
        BY <1>8, <2>1, PushOneTypes DEF Sync
  <2> QED BY <1>1, <1>2, <1>8, <2>2 DEF Sync, TypeOK
<1>9. ASSUME NEW k \in Keys, NEW down \in BOOLEAN, Key(k, down)
      PROVE  TypeOK'
  <2>1. modifiers' \in SUBSET Modifier /\ held' \subseteq Keys
        BY <1>1, <1>9, KeyFacts DEF Key, ModifiersAfter
  <2>2. KeyReport(k, down, modifiers') \in Seq(Event)
    <3>1. KeyEvent(KeyType(down), modifiers', Scancode(k)) \in Event
          BY <2>1, KeyFacts, KeyEventFacts DEF KeyType
    <3> QED BY <3>1 DEF KeyReport
  <2>3. queue' \in Seq(Event) /\ Len(queue') <= Capacity /\ lost' \subseteq Topic
        BY <1>9, <2>2, PushTypes DEF Key
  <2> QED BY <1>1, <1>2, <1>9, <2>1, <2>3 DEF Key, TypeOK
<1>10. ASSUME NEW to \in [Axis -> {-1, 1, 9}], HmpMouse(to)
       PROVE  TypeOK'
  <2>1. pos' \in Positions
    <3>1. \A a \in Axis : Clamp(to[a], MaxPos[a]) \in 0 .. MaxPos[a]
          BY <1>4
    <3> QED BY <1>10, <3>1, PositionFacts DEF HmpMouse
  <2>2. MoveEvent({}, pos') \in Event
        BY <2>1, MoveEventFacts
  <2>3. queue' \in Seq(Event) /\ Len(queue') <= Capacity /\ lost' \subseteq Topic
        BY <1>10, <2>2, PushOneTypes DEF HmpMouse
  <2> QED BY <1>1, <1>2, <1>10, <2>1, <2>3, <1>17 DEF HmpMouse, TypeOK
<1>11. ASSUME NEW press \in BOOLEAN, HmpClick(press)
       PROVE  TypeOK'
  <2> DEFINE ev == BtnEvent({}, pos, IF press THEN {"left"} ELSE {})
  <2>1. ev \in Event
        BY <1>1, InputBounds, BtnEventFacts
  <2>2. queue' \in Seq(Event) /\ Len(queue') <= Capacity /\ lost' \subseteq Topic
        BY <1>11, <2>1, PushOneTypes DEF HmpClick
  <2> QED BY <1>1, <1>2, <1>11, <2>2, <1>17 DEF HmpClick, TypeOK
<1>12. ASSUME NEW k \in Mapped, HmpKey(Scancode(k))
       PROVE  TypeOK'
  <2> DEFINE evs == <<KeyEvent("press", {}, Scancode(k)), KeyEvent("release", {}, Scancode(k))>>
  <2>1. /\ KeyEvent("press", {}, Scancode(k)) \in Event
        /\ KeyEvent("release", {}, Scancode(k)) \in Event
        BY KeyFacts, KeyEventFacts DEF Mapped
  <2>3. evs \in Seq(Event)
        BY <2>1
  <2>2. queue' \in Seq(Event) /\ Len(queue') <= Capacity /\ lost' \subseteq Topic
        BY <1>12, <2>3, PushTypes DEF HmpKey
  <2>4. Scancode(k) \in Code
        BY KeyFacts DEF Mapped
  <2>5. injected' \subseteq Topic \ {Whole("pos")}
        BY <1>1, <1>12, <1>17, <2>4 DEF HmpKey
  <2> QED BY <1>1, <1>2, <1>12, <2>2, <2>5 DEF HmpKey, TypeOK
<1>13. CASE Take
  <2>1. queue # <<>> /\ queue' = Tail(queue) /\ view' = Applied(view, queue[1])
        BY <1>13 DEF Take
  <2>2. queue' \in Seq(Event) /\ Len(queue') <= Capacity
        BY <1>1, <2>1, HeadTailProperties, InputBounds
  <2>3. queue[1] \in Event
        BY <1>1, <2>1
  <2>4. view' \in View
        BY <1>1, <2>1, <2>3, AppliedFacts
  <2> QED BY <1>1, <1>13, <2>2, <2>4 DEF Take, TypeOK, View
<1>14. CASE ClearQueue
  <2>1. queue' \in Seq(Event) /\ Len(queue') <= Capacity
        BY <1>14, InputBounds DEF ClearQueue
  <2>2. \A i \in DOMAIN queue : queue[i] \in Event
        BY <1>1
  <2>3. Told(queue) \subseteq Topic
        BY <2>2, ConcernsFacts DEF Told
  <2> QED BY <1>1, <1>2, <1>14, <2>1, <2>3 DEF ClearQueue, TypeOK
<1>15. CASE Reset
  <2>1. view' \in View
        BY <1>15, PositionFacts DEF Reset, BootView, View
  <2> QED BY <1>1, <1>2, <1>15, <2>1 DEF Reset, device, TypeOK, View
<1>16. CASE UNCHANGED vars
       BY <1>1, <1>16 DEF vars, device, TypeOK
<1> QED BY <1>5, <1>6, <1>7, <1>8, <1>9, <1>10, <1>11, <1>12, <1>13, <1>14, <1>15, <1>16
        DEF Next

-----------------------------------------------------------------------------
(* The buttons and the modifiers the device keeps.                         *)

\* btn_state is what is physically down of the buttons that have a bit.
LEMMA NextTracksButtons == TracksButtons /\ [Next]_vars => TracksButtons'
<1> SUFFICES ASSUME TracksButtons, [Next]_vars
             PROVE  TracksButtons'
    OBVIOUS
<1>1. ASSUME NEW b \in Buttons, NEW down \in BOOLEAN, Button(b, down)
      PROVE  TracksButtons'
      BY <1>1 DEF Button, BtnAfter, TracksButtons
<1>2. CASE UNCHANGED <<btnState, pressed>>
      BY <1>2 DEF TracksButtons
<1> QED BY <1>1, <1>2
        DEF Next, MoveRel, MoveAbs, Sync, Key, HmpMouse, HmpClick, HmpKey, Take, ClearQueue, Reset,
            device, vars

\* A modifier bit is set only while a key for it is down.
LEMMA NextNoStuckModifier == NoStuckModifier /\ [Next]_vars => NoStuckModifier'
<1> SUFFICES ASSUME NoStuckModifier, [Next]_vars
             PROVE  NoStuckModifier'
    OBVIOUS
<1>1. ASSUME NEW k \in Keys, NEW down \in BOOLEAN, Key(k, down)
      PROVE  NoStuckModifier'
  <2>1. /\ modifiers' = ModifiersAfter(k, down)
        /\ held' = IF down THEN held \cup {k} ELSE held \ {k}
        BY <1>1 DEF Key
  <2> SUFFICES ASSUME NEW m \in modifiers'
               PROVE  \E l \in held' : m \in ModifierOf(l)
      BY DEF NoStuckModifier
  <2>2. CASE down
    <3>1. CASE m \in ModifierOf(k)
          BY <2>1, <2>2, <3>1
    <3>2. CASE m \in modifiers
      <4>1. PICK l \in held : m \in ModifierOf(l)
            BY <3>2 DEF NoStuckModifier
      <4> QED BY <2>1, <2>2, <4>1
    <3> QED BY <2>1, <2>2, <3>1, <3>2 DEF ModifiersAfter
  <2>3. CASE ~down
    <3>1. m \in modifiers /\ m \notin ModifierOf(k)
          BY <2>1, <2>3 DEF ModifiersAfter
    <3>2. PICK l \in held : m \in ModifierOf(l)
          BY <3>1 DEF NoStuckModifier
    <3>3. l # k
          BY <3>1, <3>2
    <3> QED BY <2>1, <2>3, <3>2, <3>3
  <2> QED BY <2>2, <2>3
<1>2. CASE UNCHANGED <<modifiers, held>>
      BY <1>2 DEF NoStuckModifier
<1> QED BY <1>1, <1>2
        DEF Next, MoveRel, MoveAbs, Button, Sync, HmpMouse, HmpClick, HmpKey, Take, ClearQueue,
            Reset, device, vars

-----------------------------------------------------------------------------
(* Convergence.                                                            *)

\* What the events of the handlers say, and of which topics.
LEMMA MoveSays ==
  ASSUME NEW t \in Topic, NEW flags \in SUBSET Modifier, NEW at \in Positions,
         NEW ev, ev = MoveEvent(flags, at)
  PROVE  /\ About(t, ev) <=> t.part \in {"pos", "flags"}
         /\ t.part = "pos" => Says(t, ev) = at
         /\ t.part = "flags" => Says(t, ev) = flags
<1>1. ev \in Event /\ ev.type = "move" /\ ev.at = at /\ ev.flags = flags
      BY MoveEventFacts DEF MoveEvent
<1> QED BY <1>1, ConcernsFacts DEF Says

\* An event of the buttons tells of position, buttons and flags.
LEMMA BtnSays ==
  ASSUME NEW t \in Topic, NEW flags \in SUBSET Modifier, NEW at \in Positions,
         NEW btn \in SUBSET Buttons, NEW ev, ev = BtnEvent(flags, at, btn)
  PROVE  /\ About(t, ev) <=> t.part \in {"pos", "btn", "flags"}
         /\ t.part = "pos" => Says(t, ev) = at
         /\ t.part = "btn" => Says(t, ev) = btn
         /\ t.part = "flags" => Says(t, ev) = flags
<1>1. ev \in Event /\ ev.type = "btn" /\ ev.at = at /\ ev.flags = flags /\ ev.btn = btn
      BY BtnEventFacts DEF BtnEvent
<1> QED BY <1>1, ConcernsFacts DEF Says

\* An event of a key tells of flags and of that key.
LEMMA KeySays ==
  ASSUME NEW t \in Topic, NEW flags \in SUBSET Modifier, NEW code \in Code,
         NEW type \in {"press", "release"}, NEW ev, ev = KeyEvent(type, flags, code)
  PROVE  /\ About(t, ev) <=> t.part = "flags" \/ (t.part = "key" /\ t.code = code)
         /\ t.part = "flags" => Says(t, ev) = flags
         /\ t.part = "key" => Says(t, ev) = type
<1>1. ev \in Event /\ ev.type = type /\ ev.flags = flags /\ ev.key = code
      BY KeyEventFacts DEF KeyEvent
<1> QED BY <1>1, ConcernsFacts DEF Says

\* What a key that goes up or down does to the codes held.
LEMMA KeyCodes ==
  ASSUME NEW k \in Keys, NEW down \in BOOLEAN, Key(k, down)
  PROVE  /\ k \notin Mapped => HeldCodes' = HeldCodes
         /\ k \in Mapped => \A c : c # Scancode(k) => (c \in HeldCodes' <=> c \in HeldCodes)
         /\ k \in Mapped /\ down => Scancode(k) \in HeldCodes'
         /\ k \in Mapped /\ ~down /\ Sole(Scancode(k)) => Scancode(k) \notin HeldCodes'
<1>1. held' = IF down THEN held \cup {k} ELSE held \ {k}
      BY DEF Key
<1>2. k \notin Mapped => held' \cap Mapped = held \cap Mapped
      BY <1>1
<1>3. \A c : c # Scancode(k) => (c \in HeldCodes' <=> c \in HeldCodes)
      BY <1>1 DEF HeldCodes
<1>4. k \in Mapped /\ down => Scancode(k) \in HeldCodes'
      BY <1>1 DEF HeldCodes
<1>5. k \in Mapped /\ ~down /\ Sole(Scancode(k)) => Scancode(k) \notin HeldCodes'
      BY <1>1 DEF HeldCodes, Sole
<1> QED BY <1>2, <1>3, <1>4, <1>5 DEF HeldCodes

\* Every step keeps every current topic converging to what it may say.
LEMMA NextConverges == IInv /\ TracksButtons' /\ [Next]_vars => ConvergeInv'
<1> SUFFICES ASSUME IInv, TracksButtons', [Next]_vars, NEW t \in Topic, Current(t)'
             PROVE  Converging(queue', lost', view', t, MaySay(t)')
    BY DEF ConvergeInv
<1>1. /\ queue \in Seq(Event) /\ modifiers \in SUBSET Modifier
      /\ btnState \in SUBSET Buttons /\ pos \in Positions
      /\ pressed \in SUBSET Buttons /\ lost \subseteq Topic /\ view \in View
      BY DEF IInv, TypeOK, View
<1>2. t.part \in {"pos", "btn", "key", "flags"} /\ t.code \in Code
      BY TopicFacts DEF Part
<1>3. Current(t) => Converging(queue, lost, view, t, MaySay(t))
      BY DEF IInv, ConvergeInv
\* Steps that leave alone what the topic may say.
<1>15. /\ UNCHANGED held => UNCHANGED HeldCodes
       /\ t.part = "key" /\ UNCHANGED held => UNCHANGED MaySay(t)
       /\ t.part = "btn" /\ UNCHANGED pressed => UNCHANGED MaySay(t)
       /\ t.part = "pos" /\ UNCHANGED pos => UNCHANGED MaySay(t)
       /\ t.part = "flags" /\ UNCHANGED modifiers => UNCHANGED MaySay(t)
  <2>1. UNCHANGED held => UNCHANGED HeldCodes
        BY DEF HeldCodes
  <2> QED BY <2>1 DEF MaySay
<1>4. CASE \E a \in Axis : (\E d \in Steps : MoveRel(a, d)) \/ (\E v \in 0 .. MaxPos[a] : MoveAbs(a, v))
  <2>1. /\ unsynced' = TRUE
        /\ UNCHANGED <<queue, modifiers, held, pressed, injected, lost, view>>
        BY <1>4 DEF MoveRel, MoveAbs
  <2>2. t.part # "pos"
        BY <2>1 DEF Current
  <2>3. Current(t) /\ MaySay(t)' = MaySay(t)
        BY <1>2, <1>15, <2>1, <2>2 DEF Current
  <2> QED BY <1>3, <2>1, <2>3
<1>5. ASSUME NEW b \in Buttons, NEW down \in BOOLEAN, Button(b, down)
      PROVE  Converging(queue', lost', view', t, MaySay(t)')
  <2> DEFINE ev == BtnEvent(modifiers, pos, btnState')
  <2>1. /\ Push(ev) /\ UNCHANGED <<modifiers, pos, held, view>>
        /\ injected' = injected \ Concerns(ev)
        /\ btnState' \in SUBSET Buttons
        BY <1>1, <1>5 DEF Button, BtnAfter
  <2>2. ev \in Event
        BY <1>1, <2>1, BtnEventFacts
  <2>3. About(t, ev) => Says(t, ev) \in MaySay(t)'
    <3>1. btnState' = pressed' \cap Tracked
          BY DEF TracksButtons
    <3> QED BY <1>1, <1>2, <2>1, <3>1, BtnSays DEF MaySay
  <2>4. ~About(t, ev) => t.part = "key"
        BY <1>1, <1>2, <2>1, BtnSays
  <2>5. ~About(t, ev) => Converging(queue, lost, view, t, MaySay(t)')
        BY <1>3, <1>15, <2>1, <2>4 DEF Current, About
  <2> HIDE DEF ev
  <2> QED BY <1>1, <2>1, <2>2, <2>3, <2>5, PushOneConverges
<1>6. CASE Sync
  <2> DEFINE ev == MoveEvent(modifiers, pos)
  <2>1. /\ Push(ev) /\ UNCHANGED <<modifiers, pos, held, pressed, view>>
        /\ injected' = injected \ Concerns(ev)
        BY <1>6 DEF Sync
  <2>2. ev \in Event
        BY <1>1, MoveEventFacts
  <2>3. About(t, ev) => Says(t, ev) \in MaySay(t)'
        BY <1>1, <1>2, <2>1, MoveSays DEF MaySay
  <2>4. ~About(t, ev) => t.part \in {"btn", "key"}
        BY <1>1, <1>2, MoveSays
  <2>5. ~About(t, ev) => Converging(queue, lost, view, t, MaySay(t)')
        BY <1>3, <1>15, <2>1, <2>4 DEF Current, About
  <2> HIDE DEF ev
  <2> QED BY <1>1, <2>1, <2>2, <2>3, <2>5, PushOneConverges
<1>7. ASSUME NEW k \in Keys, NEW down \in BOOLEAN, Key(k, down)
      PROVE  Converging(queue', lost', view', t, MaySay(t)')
  <2>1. /\ PushAll(KeyReport(k, down, modifiers'))
        /\ injected' = injected \ Told(KeyReport(k, down, modifiers'))
        /\ modifiers' = ModifiersAfter(k, down)
        /\ UNCHANGED <<pos, pressed, unsynced, view>>
        BY <1>7 DEF Key
  <2>2. modifiers' \in SUBSET Modifier /\ Scancode(k) \in Code
        BY <1>1, <2>1, KeyFacts DEF ModifiersAfter
  <2>4. CASE k \in Mapped
    <3> DEFINE ev == KeyEvent(KeyType(down), modifiers', Scancode(k))
    <3>1. Push(ev) /\ injected' = injected \ Concerns(ev)
      <4>1. KeyReport(k, down, modifiers') = <<ev>>
            BY <2>4 DEF KeyReport
      <4> HIDE DEF ev
      <4>2. Told(<<ev>>) = Concerns(ev)
            BY DEF Told
      <4> QED BY <2>1, <4>1, <4>2 DEF Push
    <3>2. KeyType(down) \in {"press", "release"}
          BY DEF KeyType
    <3>3. ev \in Event
          BY <2>2, <3>2, KeyEventFacts
    <3>4. /\ About(t, ev) <=> t.part = "flags" \/ (t.part = "key" /\ t.code = Scancode(k))
          /\ t.part = "flags" => Says(t, ev) = modifiers'
          /\ t.part = "key" => Says(t, ev) = KeyType(down)
          BY <2>2, <3>2, KeySays
    <3>6. t.part = "key" /\ t.code = Scancode(k) => KeyType(down) \in MaySay(t)'
      <4> SUFFICES ASSUME t.part = "key", t.code = Scancode(k)
                   PROVE  KeyType(down) \in MaySay(t)'
          OBVIOUS
      <4>1. MaySay(t)' = (IF t.code \in HeldCodes' THEN {"press"} ELSE {}) \cup
                         (IF t.code \in HeldCodes' /\ Sole(t.code) THEN {} ELSE {"release"})
            BY DEF MaySay, Sole, Mapped
      <4>2. CASE down
            BY <1>7, <2>4, <4>1, <4>2, KeyCodes DEF KeyType
      <4>3. CASE ~down
            BY <1>7, <2>4, <4>1, <4>3, KeyCodes DEF KeyType
      <4> QED BY <4>2, <4>3
    <3>7. About(t, ev) => Says(t, ev) \in MaySay(t)'
      <4>1. t.part = "flags" => MaySay(t)' = {modifiers'}
            BY DEF MaySay
      <4> QED BY <3>4, <3>6, <4>1
    <3>8. t.part = "key" /\ t.code # Scancode(k) => UNCHANGED MaySay(t)
      <4>1. t.code # Scancode(k) => (t.code \in HeldCodes' <=> t.code \in HeldCodes)
            BY <1>7, <2>4, KeyCodes
      <4>2. UNCHANGED Sole(t.code)
            BY DEF Sole, Mapped
      <4> QED BY <4>1, <4>2 DEF MaySay
    <3>9. t.part \in {"pos", "btn"} => UNCHANGED MaySay(t)
          BY <1>15, <2>1
    <3>10. ~About(t, ev) => Converging(queue, lost, view, t, MaySay(t)')
      <4>1. ~About(t, ev) => Current(t)
            BY <2>1, <3>1 DEF Current, About
      <4> QED BY <1>2, <1>3, <3>4, <3>8, <3>9, <4>1
    <3> HIDE DEF ev
    <3> QED BY <1>1, <2>1, <3>1, <3>3, <3>7, <3>10, PushOneConverges
  <2>5. CASE k \notin Mapped
    <3>1. KeyReport(k, down, modifiers') = <<>> /\ modifiers' = modifiers
          BY <2>1, <2>5, KeyFacts DEF KeyReport, ModifiersAfter
    <3>2. HeldCodes' = HeldCodes
          BY <1>7, <2>5, KeyCodes
    <3>3. UNCHANGED MaySay(t)
          BY <2>1, <3>1, <3>2 DEF MaySay
    <3>4. PushAll(<<>>) /\ <<>> \in Seq(Event) /\ Silent(<<>>, t) /\ injected' = injected
          BY <2>1, <3>1 DEF Silent, Told
    <3>5. Converging(queue, lost, view, t, MaySay(t)')
          BY <1>3, <2>1, <3>3, <3>4 DEF Current
    <3> QED BY <1>1, <2>1, <3>4, <3>5, PushOthersConverges
  <2> QED BY <2>4, <2>5
<1>8. ASSUME NEW to \in [Axis -> {-1, 1, 9}], HmpMouse(to)
      PROVE  Converging(queue', lost', view', t, MaySay(t)')
  <2> DEFINE ev == MoveEvent({}, pos')
  <2>1. /\ Push(ev) /\ UNCHANGED <<modifiers, held, pressed, view>>
        /\ injected' = injected \cup {Whole("flags")}
        BY <1>8 DEF HmpMouse
  <2>2. pos' \in Positions
    <3>1. \A a \in Axis : Clamp(to[a], MaxPos[a]) \in 0 .. MaxPos[a]
          BY PositionFacts DEF Clamp
    <3> QED BY <1>8, <3>1, PositionFacts DEF HmpMouse
  <2>3. ev \in Event
        BY <2>2, MoveEventFacts
  <2>4. t.part # "flags"
        BY <2>1, TopicFacts DEF Current
  <2>5. /\ About(t, ev) <=> t.part \in {"pos", "flags"}
        /\ t.part = "pos" => Says(t, ev) = pos'
        BY <2>2, MoveSays
  <2>6. About(t, ev) => Says(t, ev) \in MaySay(t)'
        BY <2>4, <2>5 DEF MaySay
  <2>7. ~About(t, ev) => Converging(queue, lost, view, t, MaySay(t)')
        BY <1>2, <1>3, <1>15, <2>1, <2>4, <2>5 DEF Current
  <2> HIDE DEF ev
  <2> QED BY <1>1, <2>1, <2>3, <2>6, <2>7, PushOneConverges
<1>9. ASSUME NEW press \in BOOLEAN, HmpClick(press)
      PROVE  Converging(queue', lost', view', t, MaySay(t)')
  <2> DEFINE btn == IF press THEN {"left"} ELSE {}
             ev == BtnEvent({}, pos, btn)
  <2>1. /\ Push(ev) /\ UNCHANGED <<modifiers, pos, held, pressed, view>>
        /\ injected' = injected \cup {Whole("btn"), Whole("flags")}
        BY <1>9 DEF HmpClick
  <2>2. btn \in SUBSET Buttons
        BY InputBounds
  <2> HIDE DEF btn
  <2>3. ev \in Event
        BY <1>1, <2>2, BtnEventFacts
  <2>4. t.part \in {"pos", "key"}
        BY <1>2, <2>1, TopicFacts DEF Current
  <2>5. /\ About(t, ev) <=> t.part \in {"pos", "btn", "flags"}
        /\ t.part = "pos" => Says(t, ev) = pos
        BY <1>1, <2>2, BtnSays
  <2>6. About(t, ev) => Says(t, ev) \in MaySay(t)'
        BY <2>1, <2>4, <2>5 DEF MaySay
  <2>7. ~About(t, ev) => Converging(queue, lost, view, t, MaySay(t)')
        BY <1>3, <1>15, <2>1, <2>4, <2>5 DEF Current
  <2> HIDE DEF ev
  <2> QED BY <1>1, <2>1, <2>3, <2>6, <2>7, PushOneConverges
<1>10. ASSUME NEW k \in Mapped, HmpKey(Scancode(k))
       PROVE  Converging(queue', lost', view', t, MaySay(t)')
  <2> DEFINE down == KeyEvent("press", {}, Scancode(k))
             up == KeyEvent("release", {}, Scancode(k))
  <2>1. /\ PushAll(<<down, up>>)
        /\ UNCHANGED <<modifiers, pos, held, pressed, unsynced, view>>
        /\ injected' = injected \cup {KeyTopic(Scancode(k)), Whole("flags")}
        BY <1>10 DEF HmpKey
  <2>2. Scancode(k) \in Code
        BY KeyFacts DEF Mapped
  <2>3. down \in Event /\ up \in Event
        BY <2>2, KeyEventFacts
  <2>4. t.part # "flags" /\ (t.part = "key" => t.code # Scancode(k))
        BY <1>2, <2>1, TopicFacts DEF Current
  <2>5. ~About(t, down) /\ ~About(t, up)
    <3> DEFINE code == Scancode(k)
               none == {}
    <3>1. code \in Code /\ none \in SUBSET Modifier
          BY <2>2
    <3>2. down = KeyEvent("press", none, code) /\ up = KeyEvent("release", none, code)
          OBVIOUS
    <3>3. "press" \in {"press", "release"} /\ "release" \in {"press", "release"}
          OBVIOUS
    <3> HIDE DEF code, none, down, up
    <3>4. About(t, down) => t.part = "flags" \/ (t.part = "key" /\ t.code = code)
          BY <3>1, <3>2, <3>3, KeySays
    <3>5. About(t, up) => t.part = "flags" \/ (t.part = "key" /\ t.code = code)
          BY <3>1, <3>2, <3>3, KeySays
    <3> QED BY <2>4, <3>4, <3>5 DEF code
  <2> HIDE DEF down, up
  <2>6. <<down, up>> \in Seq(Event) /\ Silent(<<down, up>>, t)
        BY <2>3, <2>5 DEF Silent
  <2>7. Converging(queue, lost, view, t, MaySay(t)')
        BY <1>2, <1>3, <1>15, <2>1, <2>4 DEF Current
  <2> QED BY <1>1, <2>1, <2>6, <2>7, PushOthersConverges
<1>11. CASE Take
  <2>1. UNCHANGED <<modifiers, pos, held, pressed, unsynced, injected>>
        BY <1>11 DEF Take
  <2>2. Converging(queue, lost, view, t, MaySay(t)')
        BY <1>2, <1>3, <1>15, <2>1 DEF Current
  <2> QED BY <1>1, <1>11, <2>2, TakeConverges
<1>12. CASE ClearQueue
  <2>1. /\ UNCHANGED <<modifiers, pos, held, pressed, unsynced, injected, view>>
        /\ queue' = <<>> /\ lost' = lost \cup Told(queue)
        BY <1>12 DEF ClearQueue
  <2>2. Converging(queue, lost, view, t, MaySay(t)')
        BY <1>2, <1>3, <1>15, <2>1 DEF Current
  <2>3. t \notin lost' => t \notin lost /\ Silent(queue, t)
        BY <2>1 DEF Told, Silent, About
  <2>4. NewestSays(queue', t, MaySay(t)')
        BY <2>1 DEF NewestSays
  <2> QED BY <2>1, <2>2, <2>3, <2>4 DEF Converging
<1>13. CASE Reset
  <2>1. /\ UNCHANGED <<queue, modifiers, pos, held, pressed, unsynced, injected>>
        /\ lost' = Topic
        BY <1>13 DEF Reset, device
  <2>2. Converging(queue, lost, view, t, MaySay(t)')
        BY <1>2, <1>3, <1>15, <2>1 DEF Current
  <2> QED BY <1>2, <2>1, <2>2 DEF Converging
<1>14. CASE UNCHANGED vars
  <2>1. UNCHANGED <<queue, lost, view, modifiers, pos, held, pressed, unsynced, injected>>
        BY <1>14 DEF vars, device
  <2> QED BY <1>2, <1>3, <1>15, <2>1 DEF Current
<1> QED BY <1>4, <1>5, <1>6, <1>7, <1>8, <1>9, <1>10, <1>11, <1>12, <1>13, <1>14 DEF Next

-----------------------------------------------------------------------------
(* The theorems.                                                           *)

\* At the start the guest has nothing to be told.
LEMMA InitIInv == Init => IInv /\ NoStuckModifier
<1> SUFFICES ASSUME Init
             PROVE  IInv /\ NoStuckModifier
    OBVIOUS
<1>1. TypeOK
      BY InitTypeOK
<1>2. TracksButtons /\ NoStuckModifier
      BY DEF Init, TracksButtons, NoStuckModifier
<1>3. ConvergeInv
  <2> SUFFICES ASSUME NEW t \in Topic
               PROVE  Converging(queue, lost, view, t, MaySay(t))
      BY DEF ConvergeInv
  <2>1. NewestSays(queue, t, MaySay(t))
        BY DEF Init, NewestSays
  <2>2. ViewSays(t, view) \in MaySay(t)
        BY DEF Init, BootView, ViewSays, MaySay, HeldCodes, KeyType
  <2> QED BY <2>1, <2>2 DEF Converging
<1> QED BY <1>1, <1>2, <1>3 DEF IInv

\* The inductive invariant: of every topic that its events are to tell, the
\* newest event in the queue says what it may say, and the view does when no event
\* in the queue is about it and none was lost.
THEOREM InductiveInvariant == Spec => []IInv
<1>1. IInv /\ [Next]_vars => IInv'
  <2> SUFFICES ASSUME IInv, [Next]_vars
               PROVE  IInv'
      OBVIOUS
  <2>1. TypeOK' /\ TracksButtons'
        BY NextTypeOK, NextTracksButtons DEF IInv
  <2> QED BY <2>1, NextConverges DEF IInv
<1> QED BY <1>1, InitIInv, PTL DEF Spec

\* Every variable keeps its type and the queue its bound.
THEOREM TypeCorrect == Spec => []TypeOK
<1>1. IInv => TypeOK
      BY DEF IInv
<1> QED BY <1>1, InductiveInvariant, PTL

\* No sequence of presses, releases and repeats leaves a modifier bit set when no
\* key for it is down (lobster_input_kbd_event), for every set of keys.
THEOREM NoModifierSticks == Spec => []NoStuckModifier
<1> QED BY InitIInv, NextNoStuckModifier, PTL DEF Spec

\* What ConvergeInv says of one topic once the queue is drained.
LEMMA DrainedSays ==
  ASSUME IInv, Drained, NEW t \in Topic, Current(t), t \notin lost
  PROVE  ViewSays(t, view) \in MaySay(t)
<1>1. Silent(queue, t)
      BY DEF Drained, Silent
<1> QED BY <1>1 DEF IInv, ConvergeInv, Converging

\* The same of a topic that has no code.
LEMMA DrainedWhole ==
  ASSUME IInv, Drained, NEW part \in {"pos", "btn", "flags"}, Known(Whole(part)),
         part = "pos" => ~unsynced
  PROVE  /\ part = "pos" => view.pos = pos
         /\ part = "btn" => view.btn = pressed \cap Tracked
         /\ part = "flags" => view.flags = modifiers
<1> DEFINE t == Whole(part)
<1>1. t \in Topic /\ t.part = part
      BY TopicFacts DEF Part
<1>2. t \notin lost /\ t \notin injected
      BY DEF Known
<1> HIDE DEF t
<1>3. ViewSays(t, view) \in MaySay(t)
      BY <1>1, <1>2, DrainedSays DEF Current
<1> QED BY <1>1, <1>3 DEF ViewSays, MaySay

\* Once all events are taken, the guest's pointer is the device's.
THEOREM PointerAgrees == Spec => []PointerConverges
<1>1. IInv => PointerConverges
      BY DrainedWhole DEF PointerConverges
<1> QED BY <1>1, InductiveInvariant, PTL

\* Once all events are taken, the guest's buttons are those that are down, also
\* after injected clicks, from the next event of a button on.
THEOREM ButtonsAgree == Spec => []ButtonsConverge
<1>1. IInv => ButtonsConverge
      BY DrainedWhole DEF ButtonsConverge
<1> QED BY <1>1, InductiveInvariant, PTL

\* Once all events are taken, the flags the guest saw last are the device's
\* modifiers.
THEOREM FlagsAgree == Spec => []FlagsConverge
<1>1. IInv => FlagsConverge
      BY DrainedWhole DEF FlagsConverge
<1> QED BY <1>1, InductiveInvariant, PTL

\* Once all events are taken, the guest holds no key down whose code no held key
\* has, and holds down every held key whose code is its own, whatever keys there
\* are.
THEOREM KeysAgree == Spec => []KeysConverge
<1>1. ASSUME IInv
      PROVE  KeysConverge
  <2> SUFFICES ASSUME Drained, NEW k \in Mapped, Known(KeyTopic(Scancode(k)))
               PROVE  LET c == Scancode(k)
                      IN  /\ c \in view.keys => c \in HeldCodes
                          /\ Sole(c) /\ c \in HeldCodes => c \in view.keys
      BY DEF KeysConverge
  <2> DEFINE c == Scancode(k)
             t == KeyTopic(c)
  <2>1. c \in Code
        BY KeyFacts DEF Mapped
  <2> HIDE DEF c
  <2>2. t \in Topic /\ t.part = "key" /\ t.code = c
        BY <2>1, TopicFacts
  <2>3. t \notin lost /\ t \notin injected
        BY DEF Known, c
  <2> HIDE DEF t
  <2>4. ViewSays(t, view) \in MaySay(t)
        BY <1>1, <2>2, <2>3, DrainedSays DEF Current
  <2>5. /\ ViewSays(t, view) = IF c \in view.keys THEN "press" ELSE "release"
        /\ MaySay(t) = (IF c \in HeldCodes THEN {"press"} ELSE {}) \cup
                       (IF c \in HeldCodes /\ Sole(c) THEN {} ELSE {"release"})
        BY <2>2 DEF ViewSays, MaySay, KeyType
  <2> QED BY <2>4, <2>5 DEF c
<1> QED BY <1>1, InductiveInvariant, PTL
=============================================================================
