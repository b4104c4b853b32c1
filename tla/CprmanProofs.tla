------------------------------ MODULE CprmanProofs ------------------------------
(***************************************************************************)
(* The invariants of Cprman, for every tree of clocks without cycles and   *)
(* every layout of the registers.  What is proved about the recursion      *)
(* along the order of the clocks needs no fact about a particular tree.    *)
(***************************************************************************)
EXTENDS Cprman, SequenceTheorems, WellFoundedInduction, TLAPS

-----------------------------------------------------------------------------
(* Recursion along an order.                                               *)

\* A set of numbers has a least one.
LEMMA LeastNumber ==
  ASSUME NEW T, T \subseteq Nat, T # {}
  PROVE  \E x \in T : \A y \in T : x <= y
<1> DEFINE R == {ss \in Nat \X Nat : ss[1] < ss[2]}
<1>1. IsWellFoundedOn(R, Nat)
      BY NatLessThanWellFounded DEF OpToRel
<1>2. \A x, y \in Nat : y < x => <<y, x>> \in R
      OBVIOUS
<1> HIDE DEF R
<1>3. PICK x \in T : \A y \in T : <<y, x>> \notin R
      BY <1>1, WFMin
<1>4. ASSUME NEW y \in T
      PROVE  x <= y
  <2>1. x \in Nat /\ y \in Nat
        OBVIOUS
  <2>2. ~(y < x)
        BY <1>2, <1>3, <2>1
  <2> QED BY <2>1, <2>2
<1> QED BY <1>4

\* Induction over the numbers up to n, for a property given as a set.
LEMMA InductionUpTo ==
  ASSUME NEW n \in Nat, NEW S, 0 \in S, \A k \in 0 .. n - 1 : k \in S => k + 1 \in S
  PROVE  0 .. n \subseteq S
<1> SUFFICES ASSUME ~(0 .. n \subseteq S)
             PROVE  FALSE
    OBVIOUS
<1> DEFINE T == {k \in 0 .. n : k \notin S}
<1>1. T \subseteq Nat /\ T # {}
      OBVIOUS
<1>2. PICK x \in T : \A y \in T : x <= y
  <2> HIDE DEF T
  <2> QED BY <1>1, LeastNumber
<1>3. x # 0 /\ x \in 0 .. n
      OBVIOUS
<1>4. x - 1 \in 0 .. n - 1 /\ x - 1 \notin T
      BY <1>2, <1>3
<1>5. x - 1 \in S
      BY <1>4
<1>6. x \in S
      BY <1>4, <1>5
<1> QED BY <1>6

\* Steps that are taken one after the other lead somewhere: there is a
\* function that gives the state after each.
LEMMA StepsTaken ==
  ASSUME NEW L \in Nat, NEW S, NEW s0 \in S, NEW F \in [1 .. L -> [S -> S]]
  PROVE  \E g \in [0 .. L -> S] : g[0] = s0 /\ \A k \in 1 .. L : g[k] = F[k][g[k - 1]]
<1> DEFINE Taken(n, g) ==
             /\ g \in [0 .. n -> S] /\ g[0] = s0
             /\ \A k \in 1 .. n : g[k] = F[k][g[k - 1]]
           T == {n \in 0 .. L : \E g : Taken(n, g)}
<1>1. 0 \in T
  <2> DEFINE g == [k \in 0 .. 0 |-> s0]
  <2>1. Taken(0, g)
        OBVIOUS
  <2> HIDE DEF Taken, g
  <2> QED BY <2>1
<1>2. ASSUME NEW n \in 0 .. L - 1, n \in T
      PROVE  n + 1 \in T
  <2>1. PICK g : Taken(n, g)
        BY <1>2
  <2> DEFINE next == F[n + 1][g[n]]
             h == [k \in 0 .. n + 1 |-> IF k = n + 1 THEN next ELSE g[k]]
  <2>2. n \in Nat /\ n + 1 \in 1 .. L /\ g[n] \in S
        BY <2>1
  <2>3. next \in S
        BY <2>2
  <2> HIDE DEF next
  <2>4. Taken(n + 1, h)
    <3>1. h \in [0 .. n + 1 -> S]
          BY <2>1, <2>2, <2>3
    <3>2. h[0] = s0
          BY <2>1, <2>2
    <3>3. ASSUME NEW k \in 1 .. n + 1
          PROVE  h[k] = F[k][h[k - 1]]
      <4>1. CASE k = n + 1
            BY <2>2, <4>1 DEF next
      <4>2. CASE k # n + 1
            BY <2>1, <2>2, <4>2
      <4> QED BY <4>1, <4>2
    <3> HIDE DEF h
    <3> QED BY <3>1, <3>2, <3>3
  <2> HIDE DEF Taken, h
  <2> QED BY <2>2, <2>4
<1> HIDE DEF T
<1>3. 0 .. L \subseteq T
      BY <1>1, <1>2, InductionUpTo
<1>4. PICK g : Taken(L, g)
  <2> HIDE DEF Taken
  <2>1. L \in T
        BY <1>3
  <2> QED BY <2>1 DEF T
<1> QED BY <1>4

-----------------------------------------------------------------------------
(* The frequency of one clock.                                             *)

Freqs == [Clock -> Nat]

\* The kinds of clock exclude each other.
LEMMA Kinds ==
  ASSUME NEW n \in Clock
  PROVE  \/ n \in Pll /\ n \notin Chan /\ n \notin Mux /\ n # "dsi0hsck"
         \/ n \in Chan /\ n \notin Pll /\ n \notin Mux /\ n # "dsi0hsck"
         \/ n \in Mux /\ n \notin Pll /\ n \notin Chan /\ n # "dsi0hsck"
         \/ n = "dsi0hsck" /\ n \notin Pll /\ n \notin Chan /\ n \notin Mux
  BY ClockKinds DEF Clock

\* The frequency of each kind: that of a PLL depends on its registers only.
LEMMA FreqOfPll == ASSUME NEW r, NEW o, NEW n \in Pll PROVE Freq(r, o, n) = PllFreq(r, n)
  BY ClockKinds DEF Freq, Clock
\* A channel divides its PLL.
LEMMA FreqOfChan == ASSUME NEW r, NEW o, NEW n \in Chan PROVE Freq(r, o, n) = ChanFreq(r, o, n)
  BY ClockKinds DEF Freq, Clock
\* A mux divides the source it selects.
LEMMA FreqOfMux == ASSUME NEW r, NEW o, NEW n \in Mux PROVE Freq(r, o, n) = MuxFreq(r, o, n)
  BY ClockKinds DEF Freq, Clock
\* DSI0HSCK is one of two channels.
LEMMA FreqOfDsi == ASSUME NEW r, NEW o PROVE Freq(r, o, "dsi0hsck") = o[DsiInput[r.dsi]]
  BY ClockKinds DEF Freq, Clock

\* What a clock listens to can feed it, and is a clock.
LEMMA ListensFeeders ==
  ASSUME NEW r, Selects(r), NEW n \in Clock
  PROVE  Listens(r, n) \subseteq Feeders(n) /\ Feeders(n) \subseteq Clock
<1>1. CASE n \in Pll
  <2>1. Listens(r, n) = {} /\ Feeders(n) = {}
        BY <1>1, Kinds DEF Listens, Feeders
  <2> QED BY <2>1
<1>2. CASE n \in Chan
  <2>1. Listens(r, n) = {ParentOf[n]} /\ Feeders(n) = {ParentOf[n]}
        BY <1>2, Kinds DEF Listens, Feeders
  <2>2. ParentOf[n] \in Clock
        BY <1>2, ClockInputs DEF Clock
  <2> QED BY <2>1, <2>2
<1>3. CASE n \in Mux
  <2>1. Listens(r, n) = {Source(r, n)} \ Fixed
        BY <1>3, Kinds DEF Listens
  <2>2. Feeders(n) = {SourcesOf[n][s] : s \in Selectable(n)} \ Fixed
        BY <1>3, Kinds DEF Feeders
  <2>3. r.ctl[n].src \in Selectable(n)
        BY <1>3 DEF Selects
  <2>4. \A s \in Selectable(n) : SourcesOf[n][s] \in Clock \cup Fixed
        BY <1>3, ClockInputs
  <2> QED BY <2>1, <2>2, <2>3, <2>4 DEF Source
<1>4. CASE n = "dsi0hsck"
  <2>1. /\ Listens(r, n) = {DsiInput[b] : b \in BOOLEAN}
        /\ Feeders(n) = {DsiInput[b] : b \in BOOLEAN}
        BY <1>4, Kinds DEF Listens, Feeders
  <2> QED BY <2>1, ClockInputs DEF Clock
<1> QED BY <1>1, <1>2, <1>3, <1>4 DEF Clock

\* A frequency is a number.
LEMMA FreqIsNat ==
  ASSUME NEW r \in Registers, Selects(r), NEW o \in Freqs, NEW n \in Clock
  PROVE  Freq(r, o, n) \in Nat
<1>0. \A a, b \in Nat : b # 0 => a \div b \in Nat
      OBVIOUS
<1>1. CASE n \in Pll
  <2>1. r.a2w[n].mult \in Nat
        BY <1>1, ClockNumbers DEF Registers
  <2>2. Xosc * r.a2w[n].mult \in Nat
        BY <2>1, ClockNumbers
  <2> QED BY <1>1, <2>2, FreqOfPll DEF PllFreq
<1>2. CASE n \in Chan
  <2> DEFINE d == IF r.chan[n].div = 0 THEN MaxDiv ELSE r.chan[n].div
  <2>1. d \in Nat \ {0}
        BY <1>2, ClockNumbers DEF Registers
  <2>2. o[ParentOf[n]] \in Nat
        BY <1>2, ClockInputs DEF Freqs, Clock
  <2>3. o[ParentOf[n]] \div d \in Nat
    <3> HIDE DEF d
    <3> QED BY <1>0, <2>1, <2>2
  <2> QED BY <1>2, <2>3, FreqOfChan DEF ChanFreq
<1>3. CASE n \in Mux
  <2>1. FreqAt(o, Source(r, n)) \in Nat
    <3>1. Source(r, n) \in Clock \cup Fixed
          BY <1>3, ClockInputs DEF Selects, Source
    <3> QED BY <3>1, ClockNumbers DEF FreqAt, Freqs, Fixed
  <2>2. r.div[n] \in Nat
        BY <1>3, ClockNumbers DEF Registers
  <2>3. r.div[n] # 0 => FreqAt(o, Source(r, n)) \div r.div[n] \in Nat
        BY <1>0, <2>1, <2>2
  <2> QED BY <1>3, <2>1, <2>2, <2>3, FreqOfMux DEF MuxFreq
<1>4. CASE n = "dsi0hsck"
  <2>1. r.dsi \in BOOLEAN
        BY DEF Registers
  <2> QED BY <1>4, <2>1, FreqOfDsi, ClockInputs DEF Freqs, Clock
<1> QED BY <1>1, <1>2, <1>3, <1>4 DEF Clock

\* The frequency of a clock depends only on those it listens to.
LEMMA FreqIsLocal ==
  ASSUME NEW r \in Registers, Selects(r), NEW n \in Clock, NEW o \in Freqs, NEW q \in Freqs,
         \A i \in Listens(r, n) : o[i] = q[i]
  PROVE  Freq(r, o, n) = Freq(r, q, n)
<1>1. CASE n \in Pll
      BY <1>1, FreqOfPll
<1>2. CASE n \in Chan
  <2>1. Listens(r, n) = {ParentOf[n]}
        BY <1>2, Kinds DEF Listens
  <2> QED BY <1>2, <2>1, FreqOfChan DEF ChanFreq
<1>3. CASE n \in Mux
  <2>1. Listens(r, n) = {Source(r, n)} \ Fixed
        BY <1>3, Kinds DEF Listens
  <2>2. FreqAt(o, Source(r, n)) = FreqAt(q, Source(r, n))
        BY <2>1 DEF FreqAt, Fixed
  <2> QED BY <1>3, <2>2, FreqOfMux DEF MuxFreq
<1>4. CASE n = "dsi0hsck"
  <2>1. Listens(r, n) = {DsiInput[b] : b \in BOOLEAN}
        BY <1>4, Kinds DEF Listens
  <2>2. r.dsi \in BOOLEAN
        BY DEF Registers
  <2> QED BY <1>4, <2>1, <2>2, FreqOfDsi
<1> QED BY <1>1, <1>2, <1>3, <1>4 DEF Clock

-----------------------------------------------------------------------------
(* One pass down the tree.                                                 *)

\* What the pass does at the clock n, with the frequencies o so far.
Visit(r, touched, o, n) ==
  IF n \in touched \/ \E i \in Listens(r, n) : o[i] # out[i]
    THEN [o EXCEPT ![n] = Freq(r, o, n)]
    ELSE o

Last == Len(Order)

\* The places of the clocks in the order.
LEMMA Places ==
  /\ Last \in Nat /\ DOMAIN Order = 1 .. Last
  /\ \A k \in 1 .. Last : Order[k] \in Clock
  /\ \A n \in Clock : \E k \in 1 .. Last : n = Order[k]
  /\ \A j, k \in 1 .. Last : Order[j] = Order[k] => j = k
  BY ClockTree DEF Last

\* A visit gives numbers and changes one clock.
LEMMA VisitFacts ==
  ASSUME NEW r \in Registers, Selects(r), NEW touched, NEW o \in Freqs, NEW n \in Clock
  PROVE  /\ Visit(r, touched, o, n) \in Freqs
         /\ \A c \in Clock : c # n => Visit(r, touched, o, n)[c] = o[c]
         /\ Visit(r, touched, o, n)[n] =
              IF n \in touched \/ \E i \in Listens(r, n) : o[i] # out[i]
                THEN Freq(r, o, n) ELSE o[n]
<1>1. Freq(r, o, n) \in Nat
      BY FreqIsNat
<1> QED BY <1>1 DEF Visit, Freqs

\* A pass is a visit to each clock in its turn.
LEMMA PassIsVisits ==
  ASSUME out \in Freqs, NEW r \in Registers, Selects(r), NEW touched
  PROVE  \E u \in [0 .. Last -> Freqs] :
           /\ u[0] = out /\ Propagate(r, touched) = u[Last]
           /\ \A k \in 1 .. Last : u[k] = Visit(r, touched, u[k - 1], Order[k])
<1> DEFINE V(o, k) == Visit(r, touched, o, Order[k])
           Body(f) == [k \in 0 .. Last |-> IF k = 0 THEN out ELSE V(f[k - 1], k)]
           u == CHOOSE f : f = Body(f)
           F == [k \in 1 .. Last |-> [o \in Freqs |-> V(o, k)]]
<1>1. Propagate(r, touched) = u[Last]
      BY DEF Propagate, Visit, Last
<1>2. ASSUME NEW k \in 1 .. Last, NEW o \in Freqs
      PROVE  V(o, k) \in Freqs
      BY Places, VisitFacts
<1> HIDE DEF V
<1>3. F \in [1 .. Last -> [Freqs -> Freqs]]
      BY <1>2
<1>4. \A k \in 1 .. Last, o \in Freqs : F[k][o] = V(o, k)
      OBVIOUS
<1> HIDE DEF F
<1>5. PICK g \in [0 .. Last -> Freqs] :
        g[0] = out /\ \A k \in 1 .. Last : g[k] = F[k][g[k - 1]]
      BY <1>3, Places, StepsTaken
<1>6. \A k \in 1 .. Last : g[k] = V(g[k - 1], k)
  <2> SUFFICES ASSUME NEW k \in 1 .. Last
               PROVE  g[k] = V(g[k - 1], k)
      OBVIOUS
  <2>1. k - 1 \in 0 .. Last
        BY Places
  <2> QED BY <1>4, <1>5, <2>1
<1>7. g = Body(g)
      BY <1>5, <1>6, Places
<1>8. u = Body(u)
      BY <1>7
<1> HIDE DEF u
<1>9. u[0] = out /\ \A k \in 1 .. Last : u[k] = V(u[k - 1], k)
      BY <1>8, Places
<1>10. \A k \in 0 .. Last : u[k] \in Freqs
  <2> DEFINE T == {k \in 0 .. Last : u[k] \in Freqs}
  <2>1. 0 \in T
        BY <1>9, Places
  <2>2. ASSUME NEW k \in 0 .. Last - 1, k \in T
        PROVE  k + 1 \in T
    <3>1. k + 1 \in 1 .. Last /\ (k + 1) - 1 = k /\ u[k] \in Freqs
          BY <2>2, Places
    <3>2. u[k + 1] = V(u[k], k + 1)
          BY <1>9, <3>1
    <3> QED BY <1>2, <3>1, <3>2, Places
  <2>3. 0 .. Last \subseteq T
    <3> HIDE DEF T
    <3> QED BY <2>1, <2>2, Places, InductionUpTo
  <2> QED BY <2>3
<1>11. u \in [0 .. Last -> Freqs]
  <2>1. u = [k \in 0 .. Last |-> u[k]]
        BY <1>8
  <2> QED BY <1>10, <2>1
<1> QED BY <1>1, <1>9, <1>11 DEF V

\* After a pass a clock that was touched, or that listens to one whose
\* frequency changed, has the frequency its registers and the others give; the
\* others keep theirs.
LEMMA PropagateFacts ==
  ASSUME out \in Freqs, NEW r \in Registers, Selects(r), NEW touched
  PROVE  /\ Propagate(r, touched) \in Freqs
         /\ \A n \in Clock :
              Propagate(r, touched)[n] =
                IF n \in touched \/ \E i \in Listens(r, n) : Propagate(r, touched)[i] # out[i]
                  THEN Freq(r, Propagate(r, touched), n)
                  ELSE out[n]
<1> DEFINE P == Propagate(r, touched)
<1>1. PICK u \in [0 .. Last -> Freqs] :
        /\ u[0] = out /\ P = u[Last]
        /\ \A k \in 1 .. Last : u[k] = Visit(r, touched, u[k - 1], Order[k])
      BY PassIsVisits
<1> HIDE DEF P
<1>2. ASSUME NEW k \in 1 .. Last
      PROVE  /\ u[k - 1] \in Freqs /\ u[k] \in Freqs
             /\ \A c \in Clock : c # Order[k] => u[k][c] = u[k - 1][c]
             /\ u[k][Order[k]] =
                  IF Order[k] \in touched \/ \E i \in Listens(r, Order[k]) : u[k - 1][i] # out[i]
                    THEN Freq(r, u[k - 1], Order[k]) ELSE u[k - 1][Order[k]]
  <2>1. k - 1 \in 0 .. Last /\ k \in 0 .. Last /\ Order[k] \in Clock
        BY Places
  <2>2. u[k - 1] \in Freqs /\ u[k] = Visit(r, touched, u[k - 1], Order[k])
        BY <1>1, <2>1
  <2> QED BY <2>1, <2>2, VisitFacts
<1>3. \A k \in 0 .. Last : \A j \in k + 1 .. Last : u[k][Order[j]] = out[Order[j]]
  <2> DEFINE T == {k \in 0 .. Last : \A j \in k + 1 .. Last : u[k][Order[j]] = out[Order[j]]}
  <2>1. 0 \in T
        BY <1>1, Places
  <2>2. ASSUME NEW k \in 0 .. Last - 1, k \in T
        PROVE  k + 1 \in T
    <3>1. k + 1 \in 1 .. Last /\ (k + 1) - 1 = k /\ k + 1 \in 0 .. Last
          BY Places
    <3>2. ASSUME NEW j \in (k + 1) + 1 .. Last
          PROVE  u[k + 1][Order[j]] = out[Order[j]]
      <4>1. j \in k + 1 .. Last /\ j \in 1 .. Last /\ j # k + 1
            BY Places
      <4>2. Order[j] \in Clock /\ Order[j] # Order[k + 1]
            BY <3>1, <4>1, Places
      <4>3. u[k + 1][Order[j]] = u[k][Order[j]]
            BY <1>2, <3>1, <4>2
      <4> QED BY <2>2, <4>1, <4>3
    <3> QED BY <3>1, <3>2
  <2> HIDE DEF T
  <2>3. 0 .. Last \subseteq T
        BY <2>1, <2>2, Places, InductionUpTo
  <2> QED BY <2>3 DEF T
<1>4. \A k \in 0 .. Last : \A j \in 1 .. k : u[k][Order[j]] = u[j][Order[j]]
  <2> DEFINE T == {k \in 0 .. Last : \A j \in 1 .. k : u[k][Order[j]] = u[j][Order[j]]}
  <2>1. 0 \in T
        BY Places
  <2>2. ASSUME NEW k \in 0 .. Last - 1, k \in T
        PROVE  k + 1 \in T
    <3>1. k + 1 \in 1 .. Last /\ (k + 1) - 1 = k /\ k + 1 \in 0 .. Last
          BY Places
    <3>2. ASSUME NEW j \in 1 .. k + 1
          PROVE  u[k + 1][Order[j]] = u[j][Order[j]]
      <4>1. CASE j = k + 1
            BY <4>1
      <4>2. CASE j # k + 1
        <5>1. j \in 1 .. k /\ j \in 1 .. Last
              BY <4>2, Places
        <5>2. Order[j] \in Clock /\ Order[j] # Order[k + 1]
              BY <3>1, <4>2, <5>1, Places
        <5>3. u[k + 1][Order[j]] = u[k][Order[j]]
              BY <1>2, <3>1, <5>2
        <5> QED BY <2>2, <5>1, <5>3
      <4> QED BY <4>1, <4>2
    <3> QED BY <3>1, <3>2
  <2> HIDE DEF T
  <2>3. 0 .. Last \subseteq T
        BY <2>1, <2>2, Places, InductionUpTo
  <2> QED BY <2>3 DEF T
<1>5. P \in Freqs
      BY <1>1, Places
<1>6. ASSUME NEW n \in Clock
      PROVE  P[n] = IF n \in touched \/ \E i \in Listens(r, n) : P[i] # out[i]
                      THEN Freq(r, P, n) ELSE out[n]
  <2>1. PICK k \in 1 .. Last : n = Order[k]
        BY Places
  <2>2. k - 1 \in 0 .. Last /\ k \in (k - 1) + 1 .. Last /\ Last \in 0 .. Last /\ k \in 1 .. Last
        BY Places
  <2>3. P[n] = u[k][n]
        BY <1>1, <1>4, <2>1, <2>2
  <2>4. ASSUME NEW i \in Listens(r, n)
        PROVE  u[k - 1][i] = P[i]
    <3>1. i \in Feeders(n)
          BY ListensFeeders
    <3>2. PICK j \in 1 .. k - 1 : i = Order[j]
      <4>1. Feeders(Order[k]) \subseteq {Order[j] : j \in 1 .. k - 1}
            BY ClockTree, Places
      <4> QED BY <2>1, <3>1, <4>1
    <3>3. j \in 1 .. Last
          BY <2>2, Places
    <3>4. u[k - 1][i] = u[j][i]
          BY <1>4, <2>2, <3>2
    <3>5. P[i] = u[j][i]
          BY <1>1, <1>4, <2>2, <3>2, <3>3
    <3> QED BY <3>4, <3>5
  <2>5. u[k - 1] \in Freqs
        BY <2>2
  <2>6. Freq(r, u[k - 1], n) = Freq(r, P, n)
        BY <1>5, <2>4, <2>5, FreqIsLocal
  <2>7. u[k - 1][n] = out[n]
        BY <1>3, <2>1, <2>2
  <2>8. u[k][n] = IF n \in touched \/ \E i \in Listens(r, n) : u[k - 1][i] # out[i]
                    THEN Freq(r, u[k - 1], n) ELSE u[k - 1][n]
        BY <1>2, <2>1
  <2> QED BY <2>3, <2>4, <2>6, <2>7, <2>8
<1> QED BY <1>5, <1>6 DEF P

-----------------------------------------------------------------------------
(* The registers.                                                          *)

CmField == [anarst : BOOLEAN, held : SUBSET Chan]
A2wField == [pwrdn : BOOLEAN, mult : Mults]
ChanField == [disable : BOOLEAN, div : Divs]
CtlField == [enable : BOOLEAN, busy : BOOLEAN, src : 0 .. 9]

\* Records with the six fields of the registers.
LEMMA SixFields ==
  Registers = [cm : [Pll -> CmField], a2w : [Pll -> A2wField], chan : [Chan -> ChanField],
               dsi : BOOLEAN, ctl : [Mux -> CtlField], div : [Mux -> Divs]]
  BY DEF Registers, CmField, A2wField, ChanField, CtlField

\* q is r with one register, or all of the muxes, written.
SetCmIs(q, r, p, v) == q = [r EXCEPT !.cm[p] = v]
SetA2wIs(q, r, p, v) == q = [r EXCEPT !.a2w[p] = v]
SetChanIs(q, r, c, v) == q = [r EXCEPT !.chan[c] = v]
SetDsiIs(q, r, v) == q = [r EXCEPT !.dsi = v]
SetDivIs(q, r, m, v) == q = [r EXCEPT !.div[m] = v]
SetAllCtlIs(q, r, v) == q = [r EXCEPT !.ctl = v]
SetCtlIs(q, r, m, enable, src) ==
  q = [r EXCEPT !.ctl[m].enable = enable, !.ctl[m].src = src]

\* A write to a PLL in CM changes nothing else.
LEMMA SetCm ==
  ASSUME NEW r \in Registers, NEW p \in Pll, NEW v \in CmField, NEW q, SetCmIs(q, r, p, v)
  PROVE  /\ q \in Registers /\ \A k \in Pll : k # p => q.cm[k] = r.cm[k]
         /\ q.a2w = r.a2w /\ q.chan = r.chan /\ q.dsi = r.dsi /\ q.ctl = r.ctl /\ q.div = r.div
  BY SixFields DEF SetCmIs

\* A write to a PLL in A2W changes nothing else.
LEMMA SetA2w ==
  ASSUME NEW r \in Registers, NEW p \in Pll, NEW v \in A2wField, NEW q, SetA2wIs(q, r, p, v)
  PROVE  /\ q \in Registers /\ \A k \in Pll : k # p => q.a2w[k] = r.a2w[k]
         /\ q.cm = r.cm /\ q.chan = r.chan /\ q.dsi = r.dsi /\ q.ctl = r.ctl /\ q.div = r.div
  BY SixFields DEF SetA2wIs

\* A write to a channel changes nothing else.
LEMMA SetChan ==
  ASSUME NEW r \in Registers, NEW c \in Chan, NEW v \in ChanField, NEW q, SetChanIs(q, r, c, v)
  PROVE  /\ q \in Registers /\ \A k \in Chan : k # c => q.chan[k] = r.chan[k]
         /\ q.cm = r.cm /\ q.a2w = r.a2w /\ q.dsi = r.dsi /\ q.ctl = r.ctl /\ q.div = r.div
  BY SixFields DEF SetChanIs

\* A write to DSI0HSCK changes nothing else.
LEMMA SetDsi ==
  ASSUME NEW r \in Registers, NEW v \in BOOLEAN, NEW q, SetDsiIs(q, r, v)
  PROVE  /\ q \in Registers
         /\ q.cm = r.cm /\ q.a2w = r.a2w /\ q.chan = r.chan /\ q.ctl = r.ctl /\ q.div = r.div
  BY SixFields DEF SetDsiIs

\* A write to the divider of a mux changes nothing else.
LEMMA SetDiv ==
  ASSUME NEW r \in Registers, NEW m \in Mux, NEW v \in Divs, NEW q, SetDivIs(q, r, m, v)
  PROVE  /\ q \in Registers /\ \A k \in Mux : k # m => q.div[k] = r.div[k]
         /\ q.cm = r.cm /\ q.a2w = r.a2w /\ q.chan = r.chan /\ q.dsi = r.dsi /\ q.ctl = r.ctl
  BY SixFields DEF SetDivIs

\* A write to the CTL registers changes nothing else.
LEMMA SetAllCtl ==
  ASSUME NEW r \in Registers, NEW v \in [Mux -> CtlField], NEW q, SetAllCtlIs(q, r, v)
  PROVE  /\ q \in Registers /\ q.ctl = v
         /\ q.cm = r.cm /\ q.a2w = r.a2w /\ q.chan = r.chan /\ q.dsi = r.dsi /\ q.div = r.div
  BY SixFields DEF SetAllCtlIs

\* A write to the CTL register of a mux changes its ENABLE and SRC.
LEMMA SetCtl ==
  ASSUME NEW r \in Registers, NEW m \in Mux, NEW enable \in BOOLEAN, NEW src \in 0 .. 9,
         NEW q, SetCtlIs(q, r, m, enable, src)
  PROVE  /\ q \in Registers /\ \A n \in Mux : n # m => q.ctl[n] = r.ctl[n]
         /\ q.ctl[m].src = src
         /\ q.cm = r.cm /\ q.a2w = r.a2w /\ q.chan = r.chan /\ q.dsi = r.dsi /\ q.div = r.div
<1> DEFINE h == [r EXCEPT !.ctl[m].enable = enable]
<1>1. h.cm = r.cm /\ h.a2w = r.a2w /\ h.chan = r.chan /\ h.dsi = r.dsi /\ h.div = r.div
      BY SixFields
<1>2. h.ctl = [r.ctl EXCEPT ![m].enable = enable]
      BY SixFields
<1>3. h.ctl \in [Mux -> CtlField] /\ \A n \in Mux : n # m => h.ctl[n] = r.ctl[n]
      BY <1>2, SixFields DEF CtlField
<1>4. h \in Registers
      BY <1>3, SixFields
<1>5. q = [h EXCEPT !.ctl[m].src = src]
      BY DEF SetCtlIs
<1> HIDE DEF h
<1>6. q.cm = h.cm /\ q.a2w = h.a2w /\ q.chan = h.chan /\ q.dsi = h.dsi /\ q.div = h.div
      BY <1>4, <1>5, SixFields
<1>7. q.ctl = [h.ctl EXCEPT ![m].src = src]
      BY <1>4, <1>5, SixFields
<1>8. q.ctl \in [Mux -> CtlField] /\ \A n \in Mux : n # m => q.ctl[n] = h.ctl[n]
      BY <1>3, <1>7, SixFields DEF CtlField
<1>9. q.ctl[m].src = src
      BY <1>3, <1>7 DEF CtlField
<1>10. q \in Registers
       BY <1>4, <1>5, <1>8, SixFields
<1> QED BY <1>1, <1>3, <1>6, <1>8, <1>9, <1>10

\* The registers a and b give the clock n the same frequency: what decides it
\* is the same in both.
Same(a, b, n) ==
  /\ n \in Pll => a.a2w[n] = b.a2w[n] /\ a.cm[n].anarst = b.cm[n].anarst
  /\ n \in Chan => /\ a.chan[n] = b.chan[n]
                   /\ n \in a.cm[ParentOf[n]].held <=> n \in b.cm[ParentOf[n]].held
  /\ n \in Mux => /\ a.ctl[n].enable = b.ctl[n].enable /\ a.ctl[n].src = b.ctl[n].src
                  /\ a.div[n] = b.div[n]
  /\ n = "dsi0hsck" => a.dsi = b.dsi

\* They do.
LEMMA SameFreq ==
  ASSUME NEW a, NEW b, NEW n \in Clock, Same(a, b, n), NEW o
  PROVE  Freq(a, o, n) = Freq(b, o, n)
<1>1. CASE n \in Pll
      BY <1>1, FreqOfPll DEF Same, PllFreq, pll_is_locked
<1>2. CASE n \in Chan
      BY <1>2, FreqOfChan DEF Same, ChanFreq, pll_channel_is_enabled
<1>3. CASE n \in Mux
      BY <1>3, FreqOfMux DEF Same, MuxFreq, Source
<1>4. CASE n = "dsi0hsck"
      BY <1>4, FreqOfDsi DEF Same
<1> QED BY <1>1, <1>2, <1>3, <1>4 DEF Clock

\* BUSY is no part of that.
LEMMA BusyFacts ==
  ASSUME NEW c \in CtlField, NEW done
  PROVE  /\ BusyAfter(c, done) \in CtlField
         /\ BusyAfter(c, done).enable = c.enable /\ BusyAfter(c, done).src = c.src
<1>1. CASE done
      BY <1>1 DEF BusyAfter, CtlField
<1>2. CASE ~done
      BY <1>2 DEF BusyAfter
<1> QED BY <1>1, <1>2

-----------------------------------------------------------------------------
(* The invariant.                                                          *)

\* Every mux selects one of its sources, and every clock that was computed
\* since its registers changed follows them.
IInv == TypeOK /\ Selects(regs) /\ ClocksFollow

\* A write keeps it when the registers of no clock change but of those it is
\* about.
LEMMA WriteKeeps ==
  ASSUME IInv, NEW r \in Registers, Selects(r), NEW meant \in SUBSET Clock, NEW touched,
         Write(r, meant, touched), \A n \in Clock \ meant : Same(r, regs, n)
  PROVE  IInv'
<1> DEFINE done == touched \cup {n \in Clock : \E i \in Listens(r, n) : out'[i] # out[i]}
           busy == [m \in Mux |-> BusyAfter(r.ctl[m], m \in done)]
<1>1. /\ out' = Propagate(r, touched)
      /\ stale' = (stale \cup meant) \ done
      /\ regs' = [r EXCEPT !.ctl = busy]
      /\ writes < MaxWrite /\ writes' = writes + 1
      BY DEF Write
<1>2. /\ out \in Freqs /\ stale \subseteq Clock /\ writes \in 0 .. MaxWrite
      /\ \A n \in Clock \ stale : out[n] = Freq(regs, out, n)
      BY DEF IInv, TypeOK, ClocksFollow, Freqs
<1>3. /\ out' \in Freqs
      /\ \A n \in Clock : out'[n] = IF n \in done THEN Freq(r, out', n) ELSE out[n]
      BY <1>1, <1>2, PropagateFacts
<1>4. busy \in [Mux -> CtlField] /\ \A m \in Mux : /\ busy[m].enable = r.ctl[m].enable
                                                   /\ busy[m].src = r.ctl[m].src
  <2>1. \A m \in Mux : r.ctl[m] \in CtlField
        BY SixFields
  <2> QED BY <2>1, BusyFacts
<1> HIDE DEF busy
<1>5. /\ regs' \in Registers /\ regs'.ctl = busy /\ regs'.cm = r.cm /\ regs'.a2w = r.a2w
      /\ regs'.chan = r.chan /\ regs'.dsi = r.dsi /\ regs'.div = r.div
  <2>1. SetAllCtlIs(regs', r, busy)
        BY <1>1 DEF SetAllCtlIs
  <2> QED BY <1>4, <2>1, SetAllCtl
<1>6. \A n \in Clock : Same(r, regs', n)
      BY <1>4, <1>5 DEF Same
<1>7. Selects(regs)'
      BY <1>4, <1>5 DEF Selects
<1>8. TypeOK'
  <2>1. writes' \in 0 .. MaxWrite
        BY <1>1, <1>2, ClockNumbers
  <2> QED BY <1>1, <1>2, <1>3, <1>5, <2>1 DEF TypeOK, Freqs
<1>9. ASSUME NEW n \in Clock, n \notin stale'
      PROVE  out'[n] = Freq(regs', out', n)
  <2>1. Freq(r, out', n) = Freq(regs', out', n)
        BY <1>6, SameFreq
  <2>2. CASE n \in done
        BY <1>3, <2>1, <2>2
  <2>3. CASE n \notin done
    <3>1. n \notin stale /\ n \notin meant
          BY <1>1, <1>9, <2>3
    <3>2. Freq(r, out, n) = Freq(regs, out, n)
          BY <3>1, SameFreq
    <3>3. \A i \in Listens(r, n) : out'[i] = out[i]
          BY <2>3
    <3>4. Freq(r, out', n) = Freq(r, out, n)
          BY <1>2, <1>3, <3>3, FreqIsLocal
    <3> QED BY <1>2, <1>3, <2>1, <2>3, <3>1, <3>2, <3>4
  <2> QED BY <2>2, <2>3
<1>10. ClocksFollow'
       BY <1>9 DEF ClocksFollow
<1> QED BY <1>7, <1>8, <1>10 DEF IInv

\* The writes to the registers of a PLL, of its channels and of DSI0HSCK ...
LEMMA PllWritesKeep ==
  ASSUME IInv,
         \/ \E p \in Pll, anarst \in BOOLEAN :
              \E held \in SUBSET {c \in Chan : ParentOf[c] = p} : WriteCm(p, anarst, held)
         \/ \E p \in Pll, pwrdn \in BOOLEAN, mult \in Mults : WriteA2w(p, pwrdn, mult)
         \/ \E c \in Chan, disable \in BOOLEAN, div \in Divs : WriteChan(c, disable, div)
         \/ \E sel \in BOOLEAN : WriteDsi(sel)
  PROVE  IInv'
<1>0. regs \in Registers /\ Selects(regs)
      BY DEF IInv, TypeOK
<1>1. ASSUME NEW p \in Pll, NEW anarst \in BOOLEAN,
             NEW held \in SUBSET {c \in Chan : ParentOf[c] = p}, WriteCm(p, anarst, held)
      PROVE  IInv'
  <2> DEFINE v == [anarst |-> anarst, held |-> held]
             r == [regs EXCEPT !.cm[p] = v]
  <2>1. Write(r, PllAndChannels(p), PllAndChannels(p))
        BY <1>1 DEF WriteCm
  <2>2. v \in CmField
        BY DEF CmField
  <2> HIDE DEF v
  <2>3. /\ r \in Registers /\ \A k \in Pll : k # p => r.cm[k] = regs.cm[k]
        /\ r.a2w = regs.a2w /\ r.chan = regs.chan /\ r.dsi = regs.dsi
        /\ r.ctl = regs.ctl /\ r.div = regs.div
    <3>1. SetCmIs(r, regs, p, v)
          BY DEF SetCmIs
    <3> HIDE DEF r
    <3> QED BY <1>0, <2>2, <3>1, SetCm
  <2> HIDE DEF r
  <2>4. Selects(r)
        BY <1>0, <2>3 DEF Selects
  <2>5. PllAndChannels(p) \subseteq Clock
        BY DEF PllAndChannels, Clock
  <2>6. ASSUME NEW n \in Clock \ PllAndChannels(p)
        PROVE  Same(r, regs, n)
    <3>1. n # p /\ (n \in Chan => ParentOf[n] # p /\ ParentOf[n] \in Pll)
          BY ClockInputs DEF PllAndChannels
    <3> QED BY <2>3, <3>1 DEF Same
  <2> QED BY <2>1, <2>3, <2>4, <2>5, <2>6, WriteKeeps
<1>2. ASSUME NEW p \in Pll, NEW pwrdn \in BOOLEAN, NEW mult \in Mults, WriteA2w(p, pwrdn, mult)
      PROVE  IInv'
  <2> DEFINE v == [pwrdn |-> pwrdn, mult |-> mult]
             r == [regs EXCEPT !.a2w[p] = v]
  <2>1. Write(r, {p}, {p})
        BY <1>2 DEF WriteA2w
  <2>2. v \in A2wField
        BY DEF A2wField
  <2> HIDE DEF v
  <2>3. /\ r \in Registers /\ \A k \in Pll : k # p => r.a2w[k] = regs.a2w[k]
        /\ r.cm = regs.cm /\ r.chan = regs.chan /\ r.dsi = regs.dsi
        /\ r.ctl = regs.ctl /\ r.div = regs.div
    <3>1. SetA2wIs(r, regs, p, v)
          BY DEF SetA2wIs
    <3> HIDE DEF r
    <3> QED BY <1>0, <2>2, <3>1, SetA2w
  <2> HIDE DEF r
  <2>4. Selects(r) /\ {p} \subseteq Clock
        BY <1>0, <2>3 DEF Selects, Clock
  <2>5. \A n \in Clock \ {p} : Same(r, regs, n)
        BY <1>0, <2>3, SixFields DEF Same
  <2> QED BY <2>1, <2>3, <2>4, <2>5, WriteKeeps
<1>3. ASSUME NEW c \in Chan, NEW disable \in BOOLEAN, NEW div \in Divs, WriteChan(c, disable, div)
      PROVE  IInv'
  <2> DEFINE v == [disable |-> disable, div |-> div]
             r == [regs EXCEPT !.chan[c] = v]
  <2>1. Write(r, {c}, {c})
        BY <1>3 DEF WriteChan
  <2>2. v \in ChanField
        BY DEF ChanField
  <2> HIDE DEF v
  <2>3. /\ r \in Registers /\ \A k \in Chan : k # c => r.chan[k] = regs.chan[k]
        /\ r.cm = regs.cm /\ r.a2w = regs.a2w /\ r.dsi = regs.dsi
        /\ r.ctl = regs.ctl /\ r.div = regs.div
    <3>1. SetChanIs(r, regs, c, v)
          BY DEF SetChanIs
    <3> HIDE DEF r
    <3> QED BY <1>0, <2>2, <3>1, SetChan
  <2> HIDE DEF r
  <2>4. Selects(r) /\ {c} \subseteq Clock
        BY <1>0, <2>3 DEF Selects, Clock
  <2>5. \A n \in Clock \ {c} : Same(r, regs, n)
        BY <1>0, <2>3, SixFields DEF Same
  <2> QED BY <2>1, <2>3, <2>4, <2>5, WriteKeeps
<1>4. ASSUME NEW sel \in BOOLEAN, WriteDsi(sel)
      PROVE  IInv'
  <2> DEFINE r == [regs EXCEPT !.dsi = sel]
  <2>1. Write(r, {"dsi0hsck"}, {"dsi0hsck"})
        BY <1>4 DEF WriteDsi
  <2>2. /\ r \in Registers
        /\ r.cm = regs.cm /\ r.a2w = regs.a2w /\ r.chan = regs.chan
        /\ r.ctl = regs.ctl /\ r.div = regs.div
    <3>1. SetDsiIs(r, regs, sel)
          BY DEF SetDsiIs
    <3> HIDE DEF r
    <3> QED BY <1>0, <3>1, SetDsi
  <2> HIDE DEF r
  <2>3. Selects(r) /\ {"dsi0hsck"} \subseteq Clock
        BY <1>0, <2>2 DEF Selects, Clock
  <2>4. \A n \in Clock \ {"dsi0hsck"} : Same(r, regs, n)
        BY <2>2 DEF Same
  <2> QED BY <2>1, <2>2, <2>3, <2>4, WriteKeeps
<1> QED BY <1>1, <1>2, <1>3, <1>4

\* ... and of a mux, whichever clocks those reach, keep it.
LEMMA MuxWritesKeep ==
  ASSUME IInv,
         \/ \E m \in Mux, enable \in BOOLEAN : \E src \in Selectable(m) : WriteCtl(m, enable, src)
         \/ \E m \in Mux, div \in Divs : WriteDiv(m, div)
  PROVE  IInv'
<1>0. regs \in Registers /\ Selects(regs)
      BY DEF IInv, TypeOK
<1>1. ASSUME NEW m \in Mux, NEW enable \in BOOLEAN, NEW src \in Selectable(m),
             WriteCtl(m, enable, src)
      PROVE  IInv'
  <2> DEFINE r == [regs EXCEPT !.ctl[m].enable = enable, !.ctl[m].src = src]
  <2>1. Write(r, {m}, MuxesFor(CtlWord[m]))
        BY <1>1 DEF WriteCtl
  <2>2. src \in 0 .. 9
        BY ClockInputs
  <2>3. /\ r \in Registers /\ r.ctl[m].src = src
        /\ \A n \in Mux : n # m => r.ctl[n] = regs.ctl[n]
        /\ r.cm = regs.cm /\ r.a2w = regs.a2w /\ r.chan = regs.chan
        /\ r.dsi = regs.dsi /\ r.div = regs.div
    <3>1. SetCtlIs(r, regs, m, enable, src)
          BY DEF SetCtlIs
    <3> HIDE DEF r
    <3> QED BY <1>0, <2>2, <3>1, SetCtl
  <2> HIDE DEF r
  <2>4. Selects(r) /\ {m} \subseteq Clock
        BY <1>0, <2>3 DEF Selects, Clock
  <2>5. \A n \in Clock \ {m} : Same(r, regs, n)
        BY <2>3 DEF Same
  <2> QED BY <2>1, <2>3, <2>4, <2>5, WriteKeeps
<1>2. ASSUME NEW m \in Mux, NEW div \in Divs, WriteDiv(m, div)
      PROVE  IInv'
  <2> DEFINE r == [regs EXCEPT !.div[m] = div]
  <2>1. Write(r, {m}, MuxesFor(CtlWord[m] + 1))
        BY <1>2 DEF WriteDiv
  <2>2. /\ r \in Registers /\ \A k \in Mux : k # m => r.div[k] = regs.div[k]
        /\ r.cm = regs.cm /\ r.a2w = regs.a2w /\ r.chan = regs.chan
        /\ r.dsi = regs.dsi /\ r.ctl = regs.ctl
    <3>1. SetDivIs(r, regs, m, div)
          BY DEF SetDivIs
    <3> HIDE DEF r
    <3> QED BY <1>0, <3>1, SetDiv
  <2> HIDE DEF r
  <2>3. Selects(r) /\ {m} \subseteq Clock
        BY <1>0, <2>2 DEF Selects, Clock
  <2>4. \A n \in Clock \ {m} : Same(r, regs, n)
        BY <1>0, <2>2, SixFields DEF Same
  <2> QED BY <2>1, <2>2, <2>3, <2>4, WriteKeeps
<1> QED BY <1>1, <1>2

\* What a reset leaves alone it names.
LEMMA ResetKeeps == IInv /\ Reset => IInv'
<1> SUFFICES ASSUME IInv, Reset
             PROVE  IInv'
    OBVIOUS
<1>1. /\ writes < MaxWrite /\ writes' = writes + 1 /\ regs' = ResetRegs
      /\ stale' = ResetMisses(out) /\ out' = out
      BY DEF Reset
<1>2. TypeOK'
  <2>1. writes' \in 0 .. MaxWrite
        BY <1>1, ClockNumbers DEF IInv, TypeOK
  <2>2. ResetMisses(out) \subseteq Clock
        BY DEF ResetMisses
  <2> QED BY <1>1, <2>1, <2>2, ClockReset DEF IInv, TypeOK
<1>3. Selects(regs)'
      BY <1>1, ClockReset DEF Selects
<1>4. ClocksFollow'
      BY <1>1 DEF ClocksFollow, ResetMisses
<1> QED BY <1>2, <1>3, <1>4 DEF IInv

\* The inductive invariant holds in every reachable state.
THEOREM InductiveInvariant == Spec => []IInv
<1>1. Init => IInv
  <2> SUFFICES ASSUME Init
               PROVE  IInv
      OBVIOUS
  <2>1. TypeOK
    <3>1. out \in [Clock -> Nat]
          BY DEF Init
    <3>2. stale \subseteq Clock
          BY DEF Init, ResetMisses
    <3> QED BY <3>1, <3>2, ClockReset, ClockNumbers DEF Init, TypeOK
  <2>2. Selects(regs)
        BY ClockReset DEF Init, Selects
  <2>3. ClocksFollow
        BY DEF Init, ClocksFollow, ResetMisses
  <2> QED BY <2>1, <2>2, <2>3 DEF IInv
<1>2. ASSUME IInv, [Next]_vars
      PROVE  IInv'
  <2>1. CASE UNCHANGED vars
        BY <1>2, <2>1 DEF vars, IInv, TypeOK, Selects, ClocksFollow
  <2> QED BY <1>2, <2>1, PllWritesKeep, MuxWritesKeep, ResetKeeps DEF Next
<1> QED BY <1>1, <1>2, PTL DEF Spec

\* Frequencies stay numbers: nothing is divided by zero.
THEOREM TypeCorrect == Spec => []TypeOK
<1>1. IInv => TypeOK
      BY DEF IInv
<1> QED BY <1>1, InductiveInvariant, PTL

\* A change reaches every clock below it, whatever the tree and however many
\* of its clocks were written between.
THEOREM ChangesArrive == Spec => []ClocksFollow
<1>1. IInv => ClocksFollow
      BY DEF IInv
<1> QED BY <1>1, InductiveInvariant, PTL

\* When every clock follows its registers, computing the tree anew from the
\* top changes nothing.
LEMMA NothingToSettle ==
  ASSUME out \in Freqs, \A n \in Clock : out[n] = Freq(regs, out, n)
  PROVE  Settled(regs) = out
<1> DEFINE V(o, k) == [o EXCEPT ![Order[k]] = Freq(regs, o, Order[k])]
           Body(f) == [k \in 0 .. Last |-> IF k = 0 THEN out ELSE V(f[k - 1], k)]
           u == CHOOSE f : f = Body(f)
           g == [k \in 0 .. Last |-> out]
<1>1. Settled(regs) = u[Last]
      BY DEF Settled, Last
<1>2. \A k \in 1 .. Last : V(out, k) = out
      BY Places DEF Freqs
<1> HIDE DEF V
<1>3. g = Body(g)
      BY <1>2, Places
<1>4. u = Body(u)
      BY <1>3
<1> HIDE DEF u
<1>5. u[0] = out /\ \A k \in 1 .. Last : u[k] = V(u[k - 1], k)
      BY <1>4, Places
<1> DEFINE T == {k \in 0 .. Last : u[k] = out}
<1>6. 0 \in T
      BY <1>5, Places
<1>7. ASSUME NEW k \in 0 .. Last - 1, k \in T
      PROVE  k + 1 \in T
  <2>1. k + 1 \in 1 .. Last /\ (k + 1) - 1 = k /\ u[k] = out
        BY <1>7, Places
  <2>2. u[k + 1] = V(out, k + 1)
        BY <1>5, <2>1
  <2> QED BY <1>2, <2>1, <2>2, Places
<1>8. 0 .. Last \subseteq T
  <2> HIDE DEF T
  <2> QED BY <1>6, <1>7, Places, InductionUpTo
<1> QED BY <1>1, <1>8, Places

\* Whatever the order of the writes, the tree is the one the registers
\* describe once every clock was computed.
THEOREM OrderOfWrites == Spec => []OrderDoesNotMatter
<1>1. IInv => OrderDoesNotMatter
      BY NothingToSettle DEF IInv, TypeOK, ClocksFollow, OrderDoesNotMatter, Freqs
<1> QED BY <1>1, InductiveInvariant, PTL
=============================================================================
