--------------------------------- MODULE Cprman ---------------------------------
(***************************************************************************)
(* The clock manager (hw/misc/bcm2835_cprman.c): a tree of clocks, PLLs    *)
(* fed by the crystal, channels that divide a PLL, and muxes that select   *)
(* and divide a clock, all driven by registers.  A write to a register     *)
(* recomputes the clocks the device thinks it is about, and a clock whose  *)
(* frequency changes has the clocks it feeds recomputed.                   *)
(*                                                                         *)
(* Which register belongs to which clock, and what they contain after a    *)
(* reset, is in a header of QEMU that is not in the repository; the layout *)
(* is a parameter.  A register is the record of its fields, a frequency a  *)
(* number.  A write without the password changes nothing and is left out.  *)
(***************************************************************************)
EXTENDS Integers, Sequences, FiniteSets

CONSTANTS
  Pll, Chan,     \* the PLLs and their channels
  MuxSeq,        \* the muxes, in the order of their array
  ParentOf,      \* the PLL of a channel
  DsiInput,      \* the channels the DSI0HSCK mux selects from, by its bit
  SourcesOf,     \* the clocks a mux selects from
  Undivided,     \* the muxes without a divider
  CtlWord,       \* the index of a mux's CTL register; DIV is the next one
  Order,         \* all clocks, each after those that feed it
  ResetRegs,     \* the registers after a reset
  Xosc,          \* the frequency of the crystal
  MaxDiv,        \* the largest divider of a channel
  Mults, Divs,   \* the multipliers and dividers a guest writes
  MaxWrite       \* bounds the writes

VARIABLES
  regs,   \* the registers
  out,    \* the frequency of each clock
  stale,  \* the clocks whose own registers changed and were not looked at since
  writes  \* writes so far

vars == <<regs, out, stale, writes>>

Mux == {MuxSeq[i] : i \in DOMAIN MuxSeq}
Clock == Pll \cup Chan \cup Mux \cup {"dsi0hsck"}
Fixed == {"gnd", "xosc"}

Selectable(m) == DOMAIN SourcesOf[m]

\* A name stands for one clock.
ASSUME ClockKinds ==
  /\ Pll \cap Chan = {} /\ Pll \cap Mux = {} /\ Chan \cap Mux = {}
  /\ "dsi0hsck" \notin Pll \cup Chan \cup Mux
  /\ Fixed \cap Clock = {}

\* What feeds a clock is a clock of the right kind, or ground or the crystal.
ASSUME ClockInputs ==
  /\ ParentOf \in [Chan -> Pll] /\ DsiInput \in [BOOLEAN -> Chan]
  /\ \A m \in Mux : /\ Selectable(m) \subseteq 0 .. 9
                    /\ \A s \in Selectable(m) : SourcesOf[m][s] \in Clock \cup Fixed

\* The clocks that can feed a clock.
Feeders(n) ==
  CASE n \in Pll  -> {}
    [] n \in Chan -> {ParentOf[n]}
    [] n \in Mux  -> {SourcesOf[n][s] : s \in Selectable(n)} \ Fixed
    [] n = "dsi0hsck" -> {DsiInput[b] : b \in BOOLEAN}

\* No clock feeds itself through others.
ASSUME ClockTree ==
  /\ Order \in Seq(Clock) /\ {Order[k] : k \in DOMAIN Order} = Clock
  /\ \A j, k \in DOMAIN Order : Order[j] = Order[k] => j = k
  /\ \A k \in DOMAIN Order : Feeders(Order[k]) \subseteq {Order[j] : j \in 1 .. k - 1}

Registers == [
  cm   : [Pll -> [anarst : BOOLEAN, held : SUBSET Chan]],
  a2w  : [Pll -> [pwrdn : BOOLEAN, mult : Mults]],
  chan : [Chan -> [disable : BOOLEAN, div : Divs]],
  dsi  : BOOLEAN,
  ctl  : [Mux -> [enable : BOOLEAN, busy : BOOLEAN, src : 0 .. 9]],
  div  : [Mux -> Divs]]

\* Frequencies, multipliers and dividers are natural numbers.
ASSUME ClockNumbers ==
  /\ Xosc \in Nat /\ MaxDiv \in Nat \ {0} /\ MaxWrite \in Nat
  /\ Mults \subseteq Nat /\ Divs \subseteq Nat

\* Every mux selects a source that it has.
Selects(r) == \A m \in Mux : r.ctl[m].src \in Selectable(m)

\* The registers after a reset are registers, and select sources that exist.
ASSUME ClockReset == ResetRegs \in Registers /\ Selects(ResetRegs)

TypeOK ==
  /\ regs \in Registers
  /\ out \in [Clock -> Nat]
  /\ stale \subseteq Clock
  /\ writes \in 0 .. MaxWrite

ZeroRegs == [
  cm   |-> [p \in Pll |-> [anarst |-> FALSE, held |-> {}]],
  a2w  |-> [p \in Pll |-> [pwrdn |-> FALSE, mult |-> 0]],
  chan |-> [c \in Chan |-> [disable |-> FALSE, div |-> 0]],
  dsi  |-> FALSE,
  ctl  |-> [m \in Mux |-> [enable |-> FALSE, busy |-> FALSE, src |-> 0]],
  div  |-> [m \in Mux |-> 0]]

-----------------------------------------------------------------------------
(* The frequency of a clock from the registers r and the frequencies o.    *)

FreqAt(o, n) == IF n = "gnd" THEN 0 ELSE IF n = "xosc" THEN Xosc ELSE o[n]

pll_is_locked(r, p) == ~r.a2w[p].pwrdn /\ ~r.cm[p].anarst

\* mult stands for the multiplier, the prescaler and the divider; it is 0 when
\* the divider is.
PllFreq(r, p) == IF pll_is_locked(r, p) THEN Xosc * r.a2w[p].mult ELSE 0

pll_channel_is_enabled(r, c) == ~r.chan[c].disable /\ c \notin r.cm[ParentOf[c]].held

\* A divider of 0 is the largest.
ChanFreq(r, o, c) ==
  IF pll_channel_is_enabled(r, c)
    THEN o[ParentOf[c]] \div (IF r.chan[c].div = 0 THEN MaxDiv ELSE r.chan[c].div)
    ELSE 0

Source(r, m) == SourcesOf[m][r.ctl[m].src]

MuxFreq(r, o, m) ==
  CASE ~r.ctl[m].enable -> 0
    [] r.ctl[m].enable /\ m \in Undivided -> FreqAt(o, Source(r, m))
    [] OTHER -> IF r.div[m] = 0 THEN 0 ELSE FreqAt(o, Source(r, m)) \div r.div[m]

Freq(r, o, n) ==
  CASE n \in Pll       -> PllFreq(r, n)
    [] n \in Chan      -> ChanFreq(r, o, n)
    [] n \in Mux       -> MuxFreq(r, o, n)
    [] n = "dsi0hsck"  -> o[DsiInput[r.dsi]]

-----------------------------------------------------------------------------
(* Recomputing.                                                            *)

\* Mutated: the callback of a mux looks at no source but the crystal.
ListensXosc(r, n) ==
  CASE n \in Pll  -> {}
    [] n \in Chan -> {ParentOf[n]}
    [] n \in Mux  -> {}
    [] n = "dsi0hsck" -> {DsiInput[b] : b \in BOOLEAN}

\* The clocks whose changes make the callback of n recompute it: a mux ignores
\* the sources it has not selected.
Listens(r, n) ==
  CASE n \in Pll  -> {}
    [] n \in Chan -> {ParentOf[n]}
    [] n \in Mux  -> {Source(r, n)} \ Fixed
    [] n = "dsi0hsck" -> {DsiInput[b] : b \in BOOLEAN}

\* The clocks of the set touched are recomputed, and each that listens to one
\* whose frequency changed.
Propagate(r, touched) ==
  LET upTo[k \in 0 .. Len(Order)] ==
        IF k = 0 THEN out
        ELSE LET o == upTo[k - 1]
                 n == Order[k]
             IN  IF n \in touched \/ \E i \in Listens(r, n) : o[i] # out[i]
                   THEN [o EXCEPT ![n] = Freq(r, o, n)]
                   ELSE o
  IN  upTo[Len(Order)]

\* Mutated: what is put in place of BUSY fills SRC.
BusyOverSrc(c, done) == IF done /\ c.enable THEN [c EXCEPT !.src = 15] ELSE c

\* BUSY shows ENABLE whenever a mux is recomputed.
BusyAfter(c, done) == IF done THEN [c EXCEPT !.busy = c.enable] ELSE c

\* A write that leaves the registers r, is about the clocks in meant, and has
\* the clocks in touched recomputed.
Write(r, meant, touched) ==
  /\ writes < MaxWrite
  /\ writes' = writes + 1
  /\ out' = Propagate(r, touched)
  /\ LET done == touched \cup
                 {n \in Clock : \E i \in Listens(r, n) : out'[i] # out[i]}
     IN  /\ stale' = (stale \cup meant) \ done
         /\ regs' = [r EXCEPT !.ctl = [m \in Mux |-> BusyAfter(r.ctl[m], m \in done)]]

\* Mutated: the channels a write to the PLL's CM register holds or releases
\* are not recomputed.
PllAlone(p) == {p}

\* pll_update_all_channels.
PllAndChannels(p) == {p} \cup {c \in Chan : ParentOf[c] = p}

\* update_mux_from_cm: the first mux that has the word as its CTL register, or
\* four words after it.
Matches(m, word) == word \in {CtlWord[m], CtlWord[m] + 4}
MuxesFor(word) ==
  {MuxSeq[i] : i \in {j \in DOMAIN MuxSeq :
     /\ Matches(MuxSeq[j], word)
     /\ \A k \in 1 .. j - 1 : ~Matches(MuxSeq[k], word)}}

-----------------------------------------------------------------------------
(* Writes to the registers.                                                *)

WriteCm(p, anarst, held) ==
  Write([regs EXCEPT !.cm[p] = [anarst |-> anarst, held |-> held]],
        PllAndChannels(p), PllAndChannels(p))

WriteA2w(p, pwrdn, mult) ==
  Write([regs EXCEPT !.a2w[p] = [pwrdn |-> pwrdn, mult |-> mult]], {p}, {p})

WriteChan(c, disable, div) ==
  Write([regs EXCEPT !.chan[c] = [disable |-> disable, div |-> div]], {c}, {c})

WriteDsi(sel) == Write([regs EXCEPT !.dsi = sel], {"dsi0hsck"}, {"dsi0hsck"})

\* The guest writes BUSY as it read it.
WriteCtl(m, enable, src) ==
  Write([regs EXCEPT !.ctl[m].enable = enable, !.ctl[m].src = src],
        {m}, MuxesFor(CtlWord[m]))

WriteDiv(m, div) ==
  Write([regs EXCEPT !.div[m] = div], {m}, MuxesFor(CtlWord[m] + 1))

\* The clocks a reset leaves with a frequency their registers do not give.
ResetMisses(o) == {n \in Clock : o[n] # Freq(ResetRegs, o, n)}

\* realize sets the crystal while all registers are zero, so no clock ticks,
\* and the words it writes for the UART go to another register, because their
\* index is divided by the size of a word once too often; the machine's first
\* reset then sets the registers.
Init ==
  /\ regs = ResetRegs
  /\ out = [n \in Clock |-> 0]
  /\ stale = ResetMisses(out)
  /\ writes = 0

\* cprman_reset: the registers change, but the crystal is set to the frequency
\* it has, so no clock is recomputed.
Reset ==
  /\ writes < MaxWrite
  /\ writes' = writes + 1
  /\ regs' = ResetRegs
  /\ stale' = ResetMisses(out)
  /\ UNCHANGED out

Next ==
  \/ \E p \in Pll, anarst \in BOOLEAN :
       \E held \in SUBSET {c \in Chan : ParentOf[c] = p} : WriteCm(p, anarst, held)
  \/ \E p \in Pll, pwrdn \in BOOLEAN, mult \in Mults : WriteA2w(p, pwrdn, mult)
  \/ \E c \in Chan, disable \in BOOLEAN, div \in Divs : WriteChan(c, disable, div)
  \/ \E sel \in BOOLEAN : WriteDsi(sel)
  \/ \E m \in Mux, enable \in BOOLEAN :
       \E src \in Selectable(m) : WriteCtl(m, enable, src)
  \/ \E m \in Mux, div \in Divs : WriteDiv(m, div)
  \/ Reset

Spec == Init /\ [][Next]_vars

-----------------------------------------------------------------------------
(* Properties.                                                             *)

\* No change is missed on its way down the tree: a clock that was computed
\* after its own registers last changed has the frequency its registers and
\* the clock that feeds it give, however that clock changed since.
ClocksFollow == \A n \in Clock \ stale : out[n] = Freq(regs, out, n)

\* The tree with every clock computed anew from the registers.
Settled(r) ==
  LET upTo[k \in 0 .. Len(Order)] ==
        IF k = 0 THEN out ELSE [upTo[k - 1] EXCEPT ![Order[k]] = Freq(r, upTo[k - 1], Order[k])]
  IN  upTo[Len(Order)]

\* A guest that wrote only to registers that reach their clock has the tree
\* its registers describe, whatever the order of its writes.
OrderDoesNotMatter == stale = {} => out = Settled(regs)

\* "matches CM_CTL or CM_DIV mux register" (update_mux_from_cm): after a write
\* to either register of a mux the mux has the frequency they describe.
MuxWritesTakeEffect ==
  [][\A m \in Mux : (\/ regs'.ctl[m].src # regs.ctl[m].src
                     \/ regs'.ctl[m].enable # regs.ctl[m].enable
                     \/ regs'.div[m] # regs.div[m]) /\ regs' # ResetRegs =>
       out'[m] = Freq(regs', out', m)]_vars
=============================================================================
