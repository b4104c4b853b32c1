------------------------------ MODULE BoardProofs ------------------------------
(***************************************************************************)
(* Proofs about Board.tla.                                                 *)
(*                                                                         *)
(* A machine that is ready is complete: while no error is set, every child *)
(* before the one that is next was realized, in this section and in those  *)
(* before it.  That a section has ended means that all of its children are *)
(* behind needs the sections to be sequences, which comes first.           *)
(*                                                                         *)
(* What answers an address is found by asking ever lower regions or ever   *)
(* lower addresses, so there is one answer, and where a single placement   *)
(* is hit it is the answer of that one.  Every operation of a program is   *)
(* good: its placements stay away from the RAM and from what the GPU sees  *)
(* of it, and its connections follow one table of what drives which input. *)
(* The map and the lines are made by such operations alone.                *)
(*                                                                         *)
(* That the CPU reaches every device needs what a map may hold to be       *)
(* listed, and one thing about the order: on the Pi 5 the random number    *)
(* generator and the RP1 are placed over each other, so the generator must *)
(* come last.  Then the listed devices are where the others have holes.    *)
(***************************************************************************)
EXTENDS Board, SequenceTheorems, WellFoundedInduction, TLAPS

\* Any sequence, whatever its elements are.
IsSequence(s) == Len(s) \in Nat /\ DOMAIN s = 1 .. Len(s) /\ s \in Seq({s[k] : k \in DOMAIN s})

\* A function on 1 .. n is a sequence.
LEMMA FunctionIsSequence ==
  ASSUME NEW n \in Nat, NEW f, f = [k \in 1 .. n |-> f[k]]
  PROVE  IsSequence(f)
<1>1. f \in [1 .. n -> {f[k] : k \in DOMAIN f}]
  OBVIOUS
<1>2. f \in Seq({f[k] : k \in DOMAIN f})
  BY <1>1
<1> QED
  BY <1>2, LenProperties DEF IsSequence

\* A concatenation of sequences is one.
LEMMA ConcatIsSequence ==
  ASSUME NEW s, NEW t, IsSequence(s), IsSequence(t)
  PROVE  IsSequence(s \o t)
<1> DEFINE S == {s[k] : k \in DOMAIN s} \cup {t[k] : k \in DOMAIN t}
<1>1. s \in Seq(S) /\ t \in Seq(S)
  BY SeqMonotonic DEF IsSequence
<1> DEFINE u == s \o t
<1>2. Len(u) \in Nat /\ u \in [1 .. Len(u) -> S]
  BY <1>1, ConcatProperties, LenProperties
<1> HIDE DEF u
<1>3. u = [k \in 1 .. Len(u) |-> u[k]]
  BY <1>2
<1>4. IsSequence(u)
  BY <1>2, <1>3, FunctionIsSequence
<1> QED
  BY <1>4 DEF u

\* What is written as a tuple is a sequence.
LEMMA TupleIsSequence ==
  /\ IsSequence(<<>>)
  /\ \A a : IsSequence(<<a>>)
  /\ \A a, b : IsSequence(<<a, b>>)
  /\ \A a, b, c : IsSequence(<<a, b, c>>)
  /\ \A a, b, c, d : IsSequence(<<a, b, c, d>>)
  /\ \A a, b, c, d, e : IsSequence(<<a, b, c, d, e>>)
  /\ \A a, b, c, d, e, f, g : IsSequence(<<a, b, c, d, e, f, g>>)
  /\ \A a, b, c, d, e, f, g, h, i : IsSequence(<<a, b, c, d, e, f, g, h, i>>)
<1>1. IsSequence(<<>>) /\ (\A a : IsSequence(<<a>>)) /\ (\A a, b : IsSequence(<<a, b>>))
  BY DEF IsSequence
<1>2. \A a, b, c : IsSequence(<<a, b, c>>)
  BY DEF IsSequence
<1>3. \A a, b, c, d : IsSequence(<<a, b, c, d>>)
  BY DEF IsSequence
<1>4. \A a, b, c, d, e : IsSequence(<<a, b, c, d, e>>)
  BY DEF IsSequence
<1>5. \A a, b, c, d, e, f, g : IsSequence(<<a, b, c, d, e, f, g>>)
  BY DEF IsSequence
<1>6. \A a, b, c, d, e, f, g, h, i : IsSequence(<<a, b, c, d, e, f, g, h, i>>)
  BY DEF IsSequence
<1> QED
  BY <1>1, <1>2, <1>3, <1>4, <1>5, <1>6

\* The pieces the sections are put together from are sequences.
LEMMA PiecesAreSequences ==
  /\ \A m : IsSequence(GpuBus(m)) /\ IsSequence(SocBase(m))
  /\ IsSequence(CoreDevices) /\ IsSequence(Video) /\ IsSequence(StorageAndDma)
  /\ IsSequence(SerialBuses) /\ IsSequence(Unimplemented) /\ IsSequence(Own2835)
  /\ IsSequence(Uart2712) /\ IsSequence(Gates2712) /\ IsSequence(Sensors2712)
  /\ IsSequence(Soc2835)
<1>1. \A m : IsSequence(GpuBus(m)) /\ IsSequence(SocBase(m))
  BY DEF IsSequence, GpuBus, SocBase
<1>2. IsSequence(CoreDevices)
  BY DEF IsSequence, CoreDevices
<1>3. IsSequence(Video)
  BY DEF IsSequence, Video
<1>4. IsSequence(StorageAndDma)
  BY DEF IsSequence, StorageAndDma
<1>5. IsSequence(SerialBuses)
  BY TupleIsSequence, Zenon DEF SerialBuses
<1>6. IsSequence(Unimplemented)
  BY DEF IsSequence, Unimplemented
<1>7. IsSequence(Own2835)
  BY TupleIsSequence, Zenon DEF Own2835
<1>8. IsSequence(Uart2712)
  BY DEF IsSequence, Uart2712
<1>9. IsSequence(Gates2712)
  BY TupleIsSequence, Zenon DEF Gates2712
<1>10. IsSequence(Sensors2712)
  BY DEF IsSequence, Sensors2712
<1>11. IsSequence(Soc2835)
  BY TupleIsSequence, Zenon DEF Soc2835
<1> QED
  BY <1>1, <1>2, <1>3, <1>4, <1>5, <1>6, <1>7, <1>8, <1>9, <1>10, <1>11

\* The chips with a local controller.
LEMMA Soc2836IsSequences ==
  IsSequence(Control2836) /\ IsSequence(Cpus2836) /\ IsSequence(Soc2836)
<1>1. Cpus2836 = [k \in 1 .. 4 |-> Cpus2836[k]]
  BY SMT DEF Cpus2836
<1>2. IsSequence(Cpus2836)
  BY <1>1, FunctionIsSequence, Zenon
<1>3. IsSequence(Control2836)
  BY SMT DEF IsSequence, Control2836
<1> QED
  BY <1>2, <1>3, ConcatIsSequence, SMT DEF Soc2836

\* The pieces of the Pi 5's chip are sequences.
LEMMA Soc2712IsSequences ==
  /\ IsSequence(MemoryMap2712) /\ IsSequence(Gic2712) /\ IsSequence(Cpus2712)
  /\ IsSequence(Late2712) /\ IsSequence(PassedOn2712)
<1>1. Cpus2712 = [k \in 1 .. 4 |-> Cpus2712[k]]
  BY SMT DEF Cpus2712
<1>2. IsSequence(Cpus2712)
  BY <1>1, FunctionIsSequence, Zenon
<1>3. IsSequence(MemoryMap2712)
  BY SMT DEF IsSequence, MemoryMap2712
<1>4. IsSequence(Gic2712)
  BY SMT DEF IsSequence, Gic2712
<1>5. IsSequence(Late2712)
  BY SMT DEF IsSequence, Late2712
<1>6. IsSequence(PassedOn2712)
  BY TupleIsSequence, Zenon DEF PassedOn2712
<1> QED
  BY <1>2, <1>3, <1>4, <1>5, <1>6

\* The sections of every machine are sequences, so that one ends after its
\* last operation.
LEMMA SectionsAreSequences ==
  ASSUME NEW m \in Machine, NEW s \in Sections
  PROVE  IsSequence(Program[m][s])
<1>1. IsSequence(Common(m))
  BY PiecesAreSequences, ConcatIsSequence DEF Common
<1>2. IsSequence(Own2712)
  <2>1. IsSequence(Rp1Blocks)
    BY SMT DEF IsSequence, Rp1Blocks
  <2>2. IsSequence(Rp1I2cs)
    <3>1. Rp1I2cs = [k \in 1 .. 6 |-> Rp1I2cs[k]]
      BY SMT DEF Rp1I2cs
    <3> QED
      BY <3>1, FunctionIsSequence, Zenon
  <2>3. IsSequence(Rp1Spis)
    <3>1. Rp1Spis = [k \in 1 .. 6 |-> Rp1Spis[k]]
      BY SMT DEF Rp1Spis
    <3> QED
      BY <3>1, FunctionIsSequence, Zenon
  <2>4. IsSequence(Rp1)
    BY <2>1, <2>2, <2>3, ConcatIsSequence, SMT DEF Rp1
  <2>5. IsSequence(Storage2712)
    BY <2>4, TupleIsSequence, ConcatIsSequence, SMT DEF Storage2712
  <2> QED
    BY <2>5, PiecesAreSequences, ConcatIsSequence, SMT DEF Own2712
<1>3. IsSequence(Soc2712)
  BY Soc2712IsSequences, ConcatIsSequence, SMT DEF Soc2712
<1>4. IsSequence(SocBase(m) \o Soc2835) /\ IsSequence(SocBase(m) \o Soc2836)
  BY Soc2836IsSequences, PiecesAreSequences, ConcatIsSequence
<1>5. /\ Program[m]["common"] = Common(m)
      /\ Program[m]["own"] \in {Own2712, Own2835}
      /\ Program[m]["soc"] \in {Soc2712, SocBase(m) \o Soc2835, SocBase(m) \o Soc2836}
  BY SMT DEF Program
<1> QED
  BY <1>1, <1>2, <1>3, <1>4, <1>5, PiecesAreSequences, Zenon DEF Sections

-----------------------------------------------------------------------------
(* The invariant.                                                          *)

Phases == Sections \cup {"start", "card", "boot", "ready", "failed", "no_sd_bus"}

\* The children among the first operations of section s are realized.
RealizedUpTo(s, upto) ==
  \A k \in DOMAIN Program[machine][s] :
    k < upto /\ Program[machine][s][k].kind = "child" => Program[machine][s][k].dev \in realized

AllRealized(s) ==
  \A k \in DOMAIN Program[machine][s] :
    Program[machine][s][k].kind = "child" => Program[machine][s][k].dev \in realized

Past == {"card", "boot", "ready", "no_sd_bus"}

Ended(s) ==
  \/ phase \in Past
  \/ phase = "own" /\ s = "common"
  \/ phase = "soc" /\ s \in {"common", "own"}

BuildInv ==
  /\ machine \in Machine /\ phase \in Phases /\ at \in Nat /\ error \in BOOLEAN
  /\ phase = "start" => at = 1
  /\ phase \in Past => ~error
  /\ ~error => \A s \in Sections : Ended(s) => AllRealized(s)
  /\ ~error /\ phase \in Sections => RealizedUpTo(phase, at)

\* An operation of a section is done, and what was to be realized is.
LEMMA AdvanceKeepsBuildInv ==
  ASSUME BuildInv, Working, Advance, error' = error, realized \subseteq realized',
         Op.kind = "child" => Op.dev \in realized'
  PROVE  BuildInv'
<1>1. phase \in Sections /\ phase' = phase /\ machine' = machine /\ at' = at + 1
  BY DEF Working, Advance
<1>2. IsSequence(Section)
  BY <1>1, SectionsAreSequences DEF BuildInv, Section
<1>3. ASSUME ~error PROVE RealizedUpTo(phase, at)'
  <2>1. \A k \in DOMAIN Section : k < at + 1 => k < at \/ k = at
    BY <1>2 DEF BuildInv, IsSequence
  <2> QED
    BY <1>1, <1>3, <2>1 DEF BuildInv, RealizedUpTo, Section, Op
<1>4. ASSUME ~error PROVE \A s \in Sections : Ended(s)' => AllRealized(s)'
  BY <1>1, <1>4 DEF BuildInv, Ended, AllRealized
<1> QED
  BY <1>1, <1>3, <1>4 DEF BuildInv, Past, Sections

\* Where an error is set, only the phase has to be right.
LEMMA ErrorKeepsBuildInv ==
  ASSUME BuildInv, Working, Skip, error'
  PROVE  BuildInv'
<1>1. IsSequence(Section)
  BY SectionsAreSequences DEF BuildInv, Section, Working
<1>2. at' \in Nat
  BY <1>1 DEF Skip, IsSequence
<1> QED
  BY <1>2 DEF BuildInv, Skip, Working, Past, Sections

\* A section ends when nothing of it is left, so all of its children are
\* realized; the chip's own section and the chip look at the error.
LEMMA EndSectionKeepsBuildInv ==
  ASSUME BuildInv, EndSection
  PROVE  BuildInv'
<1>1. phase \in Sections /\ at > Len(Section) /\ at' = 1
      /\ UNCHANGED <<machine, error, realized>>
  BY DEF EndSection, built
<1>2. IsSequence(Section)
  BY <1>1, SectionsAreSequences DEF BuildInv, Section
<1>3. ASSUME ~error PROVE AllRealized(phase)
  BY <1>1, <1>2, <1>3 DEF BuildInv, RealizedUpTo, AllRealized, Section, IsSequence
<1>4. \/ error /\ phase # "common" /\ phase' = "failed"
      \/ phase = "common" /\ phase' = "own"
      \/ ~error /\ phase = "own" /\ phase' = "soc"
      \/ ~error /\ phase = "soc" /\ phase' = "card"
  BY <1>1 DEF EndSection, Return, Sections
<1>5. ASSUME ~error PROVE \A s \in Sections : Ended(s)' => AllRealized(s)'
  BY <1>1, <1>3, <1>4, <1>5 DEF BuildInv, Ended, AllRealized, Past, Sections
<1>6. ASSUME phase' \in Sections PROVE RealizedUpTo(phase, at)'
  <2>1. IsSequence(Program[machine'][phase'])
    BY <1>1, <1>6, SectionsAreSequences DEF BuildInv
  <2> QED
    BY <1>1, <2>1 DEF RealizedUpTo, IsSequence
<1> QED
  BY <1>1, <1>4, <1>5, <1>6 DEF BuildInv, Phases, Past, Sections

\* Nothing that the invariant is about changes but the phase, and that to one
\* after the sections.
LEMMA LaterPhaseKeepsBuildInv ==
  ASSUME BuildInv, UNCHANGED <<machine, at, error, realized>>,
         phase' \in Phases \ (Sections \cup {"start"}), phase' \in Past => phase \in Past
  PROVE  BuildInv'
BY DEF BuildInv, Past, Phases, Ended, AllRealized, Sections

\* Realizing goes on without an error only as long as every child before the
\* next operation was realized, and what follows is reached only without one.
THEOREM BuildInvariant == Spec => []BuildInv
<1>1. Init => BuildInv
  <2>1. Init => machine \in Machine /\ phase = "start" /\ at = 1 /\ error = FALSE
    BY Zenon DEF Init
  <2> SUFFICES ASSUME machine \in Machine, phase = "start", at = 1, error = FALSE
               PROVE  BuildInv
    BY <2>1
  <2> QED
    BY DEF BuildInv, Phases, Past, Ended, Sections
<1>2. BuildInv /\ [Next]_vars => BuildInv'
  <2> SUFFICES ASSUME BuildInv, [Next]_vars PROVE BuildInv'
    OBVIOUS
  <2>1. CASE RamIsWrong
    BY <2>1, LaterPhaseKeepsBuildInv DEF RamIsWrong, built, Phases, Past, Sections
  <2>2. CASE RamIsRight
    <3>1. /\ phase' = "common" /\ at' = 1
          /\ UNCHANGED <<machine, error, realized>>
      BY <2>2 DEF RamIsRight, BuildInv
    <3>2. RealizedUpTo(phase, at)'
      <4>1. IsSequence(Program[machine']["common"])
        BY <3>1, SectionsAreSequences DEF BuildInv, Sections
      <4> QED
        BY <3>1, <4>1 DEF RealizedUpTo, IsSequence
    <3> QED
      BY <3>1, <3>2 DEF BuildInv, Phases, Past, Ended, Sections
  <2>3. CASE WireUp
    BY <2>3, AdvanceKeepsBuildInv DEF WireUp
  <2>4. CASE Realize
    BY <2>4, AdvanceKeepsBuildInv DEF Realize
  <2>5. CASE RealizeFails
    BY <2>5, ErrorKeepsBuildInv DEF RealizeFails
  <2>6. CASE RealizeUnderError
    BY <2>6, ErrorKeepsBuildInv DEF RealizeUnderError
  <2>7. CASE PlaceVcram
    BY <2>7, AdvanceKeepsBuildInv DEF PlaceVcram
  <2>8. CASE Unmap
    BY <2>8, AdvanceKeepsBuildInv DEF Unmap
  <2>9. CASE UnmapAsserts
    BY <2>9, LaterPhaseKeepsBuildInv DEF UnmapAsserts, built, Phases, Past, Sections
  <2>10. CASE Expire
    BY <2>10, AdvanceKeepsBuildInv DEF Expire
  <2>11. CASE Lost
    BY <2>11, LaterPhaseKeepsBuildInv DEF Lost, built, Phases, Past, Sections
  <2>12. CASE PassSdBus
    BY <2>12, AdvanceKeepsBuildInv DEF PassSdBus
  <2>13. CASE EndSection
    BY <2>13, EndSectionKeepsBuildInv
  <2>14. CASE SdCard
    BY <2>14, LaterPhaseKeepsBuildInv DEF SdCard, built, Phases, Past, Sections
  <2>15. CASE BootFirmware
    BY <2>15, LaterPhaseKeepsBuildInv DEF BootFirmware, built, Phases, Past, Sections
  <2>16. CASE FirmwareFails
    BY <2>16, LaterPhaseKeepsBuildInv DEF FirmwareFails, built, Phases, Past, Sections
  <2>17. CASE BootKernel
    BY <2>17, LaterPhaseKeepsBuildInv DEF BootKernel, built, Phases, Past, Sections
  <2>18. CASE UNCHANGED vars
    BY <2>18 DEF vars, built, BuildInv, Past, Ended, AllRealized, RealizedUpTo
  <2> QED
    BY <2>1, <2>2, <2>3, <2>4, <2>5, <2>6, <2>7, <2>8, <2>9, <2>10, <2>11, <2>12, <2>13,
       <2>14, <2>15, <2>16, <2>17, <2>18 DEF Next, Stopped
<1> QED
  BY <1>1, <1>2, PTL DEF Spec

\* What is ready is complete, for every machine, whatever fails on the way.
THEOREM ReadyMachineIsComplete == Spec => []ReadyIsComplete
<1>1. BuildInv => ReadyIsComplete
  BY DEF BuildInv, ReadyIsComplete, Past, Ended, AllRealized
<1> QED
  BY <1>1, BuildInvariant, PTL

-----------------------------------------------------------------------------
(* The program that is booted.                                             *)

\* The CPU gets to the program, wherever the programs begin, with one exception
\* that EntryReachesProgram names: on the Pi 5 one that begins at 0, for whose
\* entry its loader jumps to 0x80000 (raspi5b.c:140-143).  The loader is written
\* after the entry was read, and entry and loader change together.
THEOREM ProgramIsReached == Spec => []EntryReachesProgram
<1> DEFINE Unbooted == phase # "ready" => boot = NoBoot
<1>1. Init => EntryReachesProgram /\ Unbooted
  <2>1. Init => phase = "start" /\ boot = NoBoot
    BY Zenon DEF Init
  <2> QED
    BY <2>1 DEF EntryReachesProgram
<1>2. EntryReachesProgram /\ Unbooted /\ [Next]_vars => EntryReachesProgram' /\ Unbooted'
  <2> SUFFICES ASSUME EntryReachesProgram, Unbooted, [Next]_vars
               PROVE  EntryReachesProgram' /\ Unbooted'
    OBVIOUS
  <2>1. CASE BootFirmware
    <3>0. boot = NoBoot
      BY <2>1 DEF BootFirmware
    <3> DEFINE started == [boot EXCEPT !.ram = BootRam, !.program = FirmwareAddr,
                                       !.entry = FirmwareAddr]
    <3>1. FirmwareAddr \in {\h80, \h800}
      BY DEF FirmwareAddr
    <3>2. boot' = started \/ boot' = WriteBootloader(started)
      BY <2>1 DEF BootFirmware
    <3>3. phase' = "ready"
      BY <2>1 DEF BootFirmware
    <3>4. /\ started.program = FirmwareAddr /\ started.entry = FirmwareAddr /\ ~started.linux
      BY <3>0 DEF NoBoot
    <3>5. LET written == WriteBootloader(started)
          IN  written.program = FirmwareAddr /\ written.entry = 0 /\ written.stub = FirmwareAddr
      BY <3>0, <3>1, <3>4 DEF NoBoot, WriteBootloader
    <3> HIDE DEF started
    <3> QED
      BY <3>1, <3>2, <3>3, <3>4, <3>5 DEF EntryReachesProgram, Reached
  <2>2. CASE BootKernel
    <3>1. PICK kind \in {"linux", "raw", "elf"}, program \in Entries, entry \in Entries \cup {0} :
            /\ Loadable(kind, program, entry)
            /\ boot' \in IF machine = "raspi5b" /\ kind # "linux"
                         THEN BareMetal(LoadKernel(kind, program, entry))
                         ELSE {LoadKernel(kind, program, entry)}
      BY <2>2 DEF BootKernel
    <3>0. boot = NoBoot /\ phase' = "ready"
      BY <2>2 DEF BootKernel
    <3>2. machine' = machine /\ program \in Nat
      BY <2>2, BoardConstants DEF BootKernel
    <3> DEFINE loaded == LoadKernel(kind, program, entry)
    <3>3. /\ loaded.program = program /\ loaded.entry = entry /\ loaded.linux = (kind # "elf")
          /\ loaded.stub = IF kind = "elf" THEN 0 ELSE program
      BY <3>0 DEF LoadKernel, NoBoot
    <3>4. CASE machine # "raspi5b" \/ kind = "linux"
      <4>1. boot' = loaded
        BY <3>1, <3>4
      <4> HIDE DEF loaded
      <4> QED
        BY <3>0, <3>1, <3>2, <3>3, <4>1 DEF EntryReachesProgram, Reached, Loadable
    <3>5. CASE machine = "raspi5b" /\ kind # "linux"
      <4> DEFINE written == WriteBootloader(loaded)
                 kept == [written EXCEPT !.stub = loaded.stub]
      <4>1. /\ written.program = program /\ written.entry = 0
            /\ written.stub = IF entry = 0 THEN KernelAddr ELSE entry
        BY <3>0, <3>3 DEF WriteBootloader, LoadKernel, NoBoot
      <4>2. kept.program = program /\ kept.entry = 0 /\ kept.stub = loaded.stub
        BY <3>0 DEF WriteBootloader, LoadKernel, NoBoot
      <4>3. boot' \in {written, kept} /\ (boot' = written \/ loaded.linux \/ program = 0)
        BY <3>1, <3>3, <3>5 DEF BareMetal
      <4> HIDE DEF loaded, written, kept
      <4>4. program # 0 => written.stub = program /\ (loaded.linux => kept.stub = program)
        BY <3>1, <3>3, <3>5, <4>1, <4>2 DEF Loadable
      <4>5. boot'.program = program /\ boot'.entry = 0
        BY <4>1, <4>2, <4>3
      <4>6. program # 0 => boot'.stub = program
        BY <4>3, <4>4
      <4> QED
        BY <3>0, <3>2, <3>5, <4>5, <4>6 DEF EntryReachesProgram, Reached
    <3> QED
      BY <3>4, <3>5
  <2>3. CASE phase' = phase /\ UNCHANGED <<machine, boot>>
    BY <2>3 DEF EntryReachesProgram, Reached
  <2>4. CASE phase # "ready" /\ phase' # "ready" /\ UNCHANGED boot
    BY <2>4 DEF EntryReachesProgram
  <2> QED
    BY <2>1, <2>2, <2>3, <2>4
       DEF Next, vars, RamIsWrong, RamIsRight, WireUp, Realize, RealizeFails,
           RealizeUnderError, PlaceVcram, Unmap, UnmapAsserts, Expire, Lost, PassSdBus,
           Advance, Skip, Working, Sections, EndSection, Return, SdCard, FirmwareFails, Stopped
<1> QED
  BY <1>1, <1>2, PTL DEF Spec

-----------------------------------------------------------------------------
(* The video memory and the RAM for booting.                               *)

Old == {"bcm2835", "bcm2836", "bcm2837"}

\* The chip, the RAM and the peripherals of each machine.
LEMMA Machines ==
  ASSUME NEW m \in Machine
  PROVE  /\ Soc(m) = "bcm2712" <=> m = "raspi5b"
         /\ m # "raspi5b" => Soc(m) \in Old
         /\ m # "raspi5b" => RamSize(m) \in {\h200000, \h400000}
         /\ m = "raspi5b" => RamSize(m) = \h1000000
         /\ Soc(m) = "bcm2835" => RamSize(m) = \h200000
         /\ PeriBase(m) = (IF Soc(m) = "bcm2835" THEN \h200000
                           ELSE IF Soc(m) = "bcm2712" THEN \h7c0000 ELSE \h3f0000)
<1>1. m \in {"raspi0", "raspi1ap", "raspi2b", "raspi3ap", "raspi3b", "raspi5b"}
  BY DEF Machine, BoardRev
<1>2. CASE m = "raspi0"
  BY <1>2, SMT DEF Soc, ProcessorId, Field, BoardRev, Pi5Revisions, RamSize, PeriBase, Old
<1>3. CASE m = "raspi1ap"
  BY <1>3, SMT DEF Soc, ProcessorId, Field, BoardRev, Pi5Revisions, RamSize, PeriBase, Old
<1>4. CASE m = "raspi2b"
  BY <1>4, SMT DEF Soc, ProcessorId, Field, BoardRev, Pi5Revisions, RamSize, PeriBase, Old
<1>5. CASE m = "raspi3ap"
  BY <1>5, SMT DEF Soc, ProcessorId, Field, BoardRev, Pi5Revisions, RamSize, PeriBase, Old
<1>6. CASE m = "raspi3b"
  BY <1>6, SMT DEF Soc, ProcessorId, Field, BoardRev, Pi5Revisions, RamSize, PeriBase, Old
<1>7. CASE m = "raspi5b"
  BY <1>7, SMT DEF Soc, ProcessorId, Field, BoardRev, Pi5Revisions, RamSize, PeriBase, Old
<1> QED
  BY <1>1, <1>2, <1>3, <1>4, <1>5, <1>6, <1>7

\* The sizes of RAM are numbers, and the Pi 5 has some of the upper RAM.
LEMMA Sizes ==
  /\ UpperRamBase \in Nat \ {0}
  /\ \A m \in Machine : RamSize(m) \in Int /\ (Soc(m) = "bcm2712" => RamSize(m) > UpperRamBase)
<1>1. UpperRamBase \in Nat \ {0}
  BY SMT DEF UpperRamBase
<1>2. \A m \in Machine : RamSize(m) \in Int /\ (Soc(m) = "bcm2712" => RamSize(m) > UpperRamBase)
  BY Machines, SMT DEF UpperRamBase
<1> QED
  BY <1>1, <1>2

\* An element of a sequence is one of any concatenation with it.
LEMMA ConcatHasElements ==
  ASSUME NEW s, NEW t, IsSequence(s), IsSequence(t)
  PROVE  /\ \A k \in DOMAIN s : \E j \in DOMAIN (s \o t) : (s \o t)[j] = s[k]
         /\ \A k \in DOMAIN t : \E j \in DOMAIN (s \o t) : (s \o t)[j] = t[k]
<1> DEFINE S == {s[k] : k \in DOMAIN s} \cup {t[k] : k \in DOMAIN t}
<1>1. s \in Seq(S) /\ t \in Seq(S)
  BY SeqMonotonic DEF IsSequence
<1> DEFINE u == s \o t
<1>2. /\ Len(u) = Len(s) + Len(t) /\ DOMAIN u = 1 .. Len(u)
      /\ \A i \in 1 .. Len(s) + Len(t) : u[i] = IF i <= Len(s) THEN s[i] ELSE t[i - Len(s)]
  BY <1>1, ConcatProperties, LenProperties
<1> HIDE DEF u
<1>3. \A k \in DOMAIN s : k \in DOMAIN u /\ u[k] = s[k]
  BY <1>2 DEF IsSequence
<1>4. \A k \in DOMAIN t : Len(s) + k \in DOMAIN u /\ u[Len(s) + k] = t[k]
  <2> SUFFICES ASSUME NEW k \in DOMAIN t
               PROVE  Len(s) + k \in DOMAIN u /\ u[Len(s) + k] = t[k]
    OBVIOUS
  <2>1. Len(s) \in Nat /\ k \in 1 .. Len(t) /\ Len(t) \in Nat
    BY DEF IsSequence
  <2>2. /\ Len(s) + k \in 1 .. Len(s) + Len(t) /\ ~(Len(s) + k <= Len(s))
        /\ (Len(s) + k) - Len(s) = k
    BY <2>1
  <2> QED
    BY <1>2, <2>2
<1>5. /\ \A k \in DOMAIN s : \E j \in DOMAIN u : u[j] = s[k]
      /\ \A k \in DOMAIN t : \E j \in DOMAIN u : u[j] = t[k]
  BY <1>3, <1>4, Zenon
<1> QED
  BY <1>5, Zenon DEF u

HasFramebuffer(s) == \E k \in DOMAIN s : s[k].kind = "child" /\ s[k].dev = "fb"

\* A concatenation has a framebuffer if one of its parts has.
LEMMA ConcatHasFramebuffer ==
  ASSUME NEW s, NEW t, IsSequence(s), IsSequence(t), HasFramebuffer(s) \/ HasFramebuffer(t)
  PROVE  HasFramebuffer(s \o t)
<1> DEFINE u == s \o t
<1>1. /\ \A k \in DOMAIN s : \E j \in DOMAIN u : u[j] = s[k]
      /\ \A k \in DOMAIN t : \E j \in DOMAIN u : u[j] = t[k]
  BY ConcatHasElements
<1> HIDE DEF u
<1>2. HasFramebuffer(u)
  BY <1>1, SMT DEF HasFramebuffer
<1> QED
  BY <1>2 DEF u

\* The framebuffer is a child of the peripherals of every chip.
LEMMA FramebufferIsChild ==
  ASSUME NEW m \in Machine
  PROVE  HasFramebuffer(Program[m]["common"])
<1>1. HasFramebuffer(Video)
  <2>1. 2 \in DOMAIN Video /\ Video[2] = Child("fb", <<At("fb_alias", "mbox", 1)>>, {Irq("fb", 0, "mboxes", 1)})
    BY SMT DEF Video
  <2> QED
    BY <2>1 DEF Child, HasFramebuffer
<1>2. Program[m]["common"] = Common(m)
  BY SMT DEF Program
<1> QED
  BY <1>1, <1>2, ConcatHasFramebuffer, PiecesAreSequences, ConcatIsSequence DEF Common

\* Once the framebuffer is realized there is video memory, and it ends below
\* the upper RAM, and within the RAM if that is large enough.
VcramInv ==
  /\ vcram \in [base : Nat, size : 0 .. UpperRamBase - 1]
  /\ vcram.base <= UpperRamBase - vcram.size
  /\ vcram.size <= RamSize(machine) => vcram.base <= RamSize(machine) - vcram.size
  /\ ~error /\ "fb" \in realized => vcram.base # 0
  /\ boot.nodes = {} /\ boot.ram \in Nat
  /\ phase = "ready" => boot.ram <= vcram.base

\* The base is computed from the size once, below the upper RAM and the end of
\* the RAM, and the RAM for booting ends where the video memory begins.
THEOREM VcramInvariant == Spec => []VcramInv
<1>1. Init => VcramInv
  <2> SUFFICES ASSUME machine \in Machine, phase = "start", realized = {}, boot = NoBoot,
                      NEW size \in Vcram, vcram = [base |-> 0, size |-> size]
               PROVE  VcramInv
    BY Zenon DEF Init
  <2> QED
    BY BoardConstants, Sizes DEF VcramInv, NoBoot
<1>2. BuildInv /\ VcramInv /\ [Next]_vars => VcramInv'
  <2> SUFFICES ASSUME BuildInv, VcramInv, [Next]_vars PROVE VcramInv'
    OBVIOUS
  <2>1. CASE RamIsRight
    BY <2>1, Sizes DEF RamIsRight, VcramInv, BuildInv
  <2>2. CASE PlaceVcram
    <3>1. VcramBase \in Nat /\ VcramBase <= UpperRamBase - vcram.size
      BY Sizes DEF BuildInv, VcramInv, VcramBase, Least
    <3>2. vcram.base # 0 => VcramBase = vcram.base
      BY Sizes DEF VcramInv, VcramBase, Least
    <3>3. vcram.size <= RamSize(machine) => VcramBase <= RamSize(machine) - vcram.size
      BY Sizes DEF BuildInv, VcramInv, VcramBase, Least
    <3> QED
      BY <2>2, <3>1, <3>2, <3>3 DEF PlaceVcram, VcramInv, Advance, Working, Sections
  <2>3. CASE Realize
    BY <2>3 DEF Realize, CanRealize, VcramInv, Advance, Working, Sections
  <2>4. CASE phase = "boot" /\ phase' = "ready" /\ UNCHANGED built /\ UNCHANGED <<machine, error>>
             /\ boot'.nodes \in {{}, MemoryNodes(BootRam)} /\ boot'.ram = BootRam
    <3>1. ~error /\ "fb" \in realized
      BY <2>4, FramebufferIsChild DEF BuildInv, Past, Ended, AllRealized, HasFramebuffer, Sections
    <3>2. BootRam = vcram.base
      BY <3>1, Sizes DEF VcramInv, BootRam, Least
    <3>3. MemoryNodes(BootRam) = {}
      BY <3>2, Sizes DEF VcramInv, MemoryNodes
    <3> QED
      BY <2>4, <3>2, <3>3 DEF VcramInv, built
  <2>5. CASE /\ UNCHANGED <<vcram, boot>>
             /\ machine' = machine /\ (phase' = "ready" => phase = "ready")
             /\ (error' \/ UNCHANGED <<realized, error>>)
    BY <2>5 DEF VcramInv
  <2>6. CASE BootFirmware
    <3> DEFINE started == [boot EXCEPT !.ram = BootRam, !.program = FirmwareAddr,
                                       !.entry = FirmwareAddr]
    <3>1. boot'.nodes = boot.nodes /\ boot'.ram = BootRam
      <4>1. boot' = started \/ boot' = WriteBootloader(started)
        BY <2>6 DEF BootFirmware
      <4>2. started.nodes = boot.nodes /\ started.ram = BootRam
        OBVIOUS
      <4>3. /\ WriteBootloader(started).nodes = started.nodes
            /\ WriteBootloader(started).ram = started.ram
        BY DEF WriteBootloader
      <4> QED
        BY <4>1, <4>2, <4>3
    <3> QED
      BY <2>4, <2>6, <3>1 DEF BootFirmware, VcramInv
  <2>7. CASE BootKernel
    <3>1. PICK kind \in {"linux", "raw", "elf"}, program \in Entries, entry \in Entries \cup {0} :
            /\ Loadable(kind, program, entry)
            /\ boot' \in IF machine = "raspi5b" /\ kind # "linux"
                         THEN BareMetal(LoadKernel(kind, program, entry))
                         ELSE {LoadKernel(kind, program, entry)}
      BY <2>7 DEF BootKernel
    <3>2. boot'.nodes = MemoryNodes(BootRam) /\ boot'.ram = BootRam
      <4> DEFINE loaded == LoadKernel(kind, program, entry)
                 written == WriteBootloader(loaded)
                 kept == [written EXCEPT !.stub = loaded.stub]
      <4>1. boot' = loaded \/ boot' = written \/ boot' = kept
        BY <3>1 DEF BareMetal
      <4>2. loaded.nodes = MemoryNodes(BootRam) /\ loaded.ram = BootRam
        BY DEF LoadKernel
      <4>3. written.nodes = loaded.nodes /\ written.ram = loaded.ram
        BY DEF WriteBootloader
      <4>4. kept.nodes = written.nodes /\ kept.ram = written.ram
        OBVIOUS
      <4> QED
        BY <4>1, <4>2, <4>3, <4>4
    <3> QED
      BY <2>4, <2>7, <3>2 DEF BootKernel
  <2> QED
    BY <2>1, <2>2, <2>3, <2>5, <2>6, <2>7
       DEF Next, vars, built, RamIsWrong, WireUp, RealizeFails, RealizeUnderError, Unmap,
           UnmapAsserts, Expire, Lost, PassSdBus, Advance, Skip, Working, Sections,
           EndSection, Return, SdCard, FirmwareFails, Stopped
<1> QED
  BY <1>1, <1>2, BuildInvariant, PTL DEF Spec

\* The guest is never given RAM that the framebuffer shows, whatever video
\* memory is asked for.
THEOREM VideoMemoryIsNotTold == Spec => []VideoIsNotTold
<1>1. VcramInv => VideoIsNotTold
  BY Sizes DEF VcramInv, VideoIsNotTold, VideoMemory, Told
<1> QED
  BY <1>1, VcramInvariant, PTL

-----------------------------------------------------------------------------
(* What answers an address.  Answer is a recursion over regions and          *)
(* addresses; it ends because what is in a container, or shown by an alias,  *)
(* lies lower, in height or in address.                                      *)

\* A set of numbers has a least one.
LEMMA LeastNumber ==
  ASSUME NEW T, T \subseteq Nat, T # {}
  PROVE  \E x \in T : \A y \in T : x <= y
<1> DEFINE R == {ss \in Nat \X Nat : ss[1] < ss[2]}
<1>1. IsWellFoundedOn(R, Nat)
  BY NatLessThanWellFounded DEF OpToRel
<1>2. \A x, y \in Nat : y < x => <<y, x>> \in R
  OBVIOUS
<1> HIDE DEF R
<1>3. PICK x \in T : \A y \in T : <<y, x>> \notin R
  BY <1>1, WFMin
<1>4. ASSUME NEW y \in T
      PROVE  x <= y
  <2>1. x \in Nat /\ y \in Nat /\ ~(y < x)
    BY <1>2, <1>3
  <2> QED
    BY <2>1
<1> QED
  BY <1>4

\* Induction over the numbers up to n, for a property given as a set.
LEMMA InductionUpTo ==
  ASSUME NEW n \in Nat, NEW S, 0 \in S, \A k \in 0 .. n - 1 : k \in S => k + 1 \in S
  PROVE  n \in S
<1> SUFFICES ASSUME n \notin S
             PROVE  FALSE
  OBVIOUS
<1> DEFINE T == {k \in 0 .. n : k \notin S}
<1>1. T \subseteq Nat /\ T # {}
  OBVIOUS
<1>2. PICK x \in T : \A y \in T : x <= y
  <2> HIDE DEF T
  <2> QED
    BY <1>1, LeastNumber
<1>3. x # 0 /\ x \in 0 .. n
  OBVIOUS
<1>4. x - 1 \in 0 .. n - 1 /\ x - 1 \notin T
  BY <1>2, <1>3
<1> QED
  BY <1>4

\* How high a region is in the tree of regions and aliases.
Height(s) ==
  CASE s \in {"rp1.gpio", "rp1.uart0", "rp1.uart1"} -> 1
    [] s = "rp1" -> 2
    [] s = "peri" -> 3
    [] s \in DOMAIN AliasOf \ {"dma_remap"} -> 4
    [] s \in {"mbox", "scb", "system"} -> 5
    [] s \in {"gpu", "dma_remap"} -> 6
    [] OTHER -> 0

\* What is placed is lower than what it is placed in, or begins behind its start.
WellPlaced(e) ==
  /\ e = Place(e.mr, e.in, e.at, e.size, e.prio)
  /\ e.at \in Nat /\ e.size \in Nat /\ e.prio \in Int
  /\ e.in # "none" => e.at > 0 \/ Height(e.mr) < Height(e.in)

WellFormed(mp) == IsSequence(mp) /\ \A k \in DOMAIN mp : WellPlaced(mp[k])

\* Heights are few, and an alias is higher than what it shows.
LEMMA Heights ==
  /\ \A s : Height(s) \in 0 .. 6
  /\ \A s \in DOMAIN AliasOf : Height(AliasOf[s]) < Height(s)
<1>1. \A s : Height(s) \in 0 .. 6
  BY DEF Height
<1>2. /\ DOMAIN AliasOf = {"peri_alias", "peri_alias2712", "ram_alias0", "ram_alias1",
                           "ram_alias2", "ram_alias3", "fb_alias", "uart0_legacy", "dma_remap"}
      /\ AliasOf["peri_alias"] = "peri" /\ AliasOf["peri_alias2712"] = "peri"
      /\ AliasOf["ram_alias0"] = "ram" /\ AliasOf["ram_alias1"] = "ram"
      /\ AliasOf["ram_alias2"] = "ram" /\ AliasOf["ram_alias3"] = "ram"
      /\ AliasOf["fb_alias"] = "fb" /\ AliasOf["uart0_legacy"] = "uart0"
      /\ AliasOf["dma_remap"] = "system"
  BY DEF AliasOf
<1>3. /\ \A r \in {"peri", "ram", "fb", "uart0"} : Height(r) < 4
      /\ \A r \in {"system"} : Height(r) < 6
  BY <1>2 DEF Height
<1>4. Height("dma_remap") = 6 /\ \A s \in DOMAIN AliasOf \ {"dma_remap"} : Height(s) = 4
  BY <1>2 DEF Height
<1>5. \A s \in DOMAIN AliasOf \ {"dma_remap"} : AliasOf[s] \in {"peri", "ram", "fb", "uart0"}
  BY <1>2
<1>6. ASSUME NEW s \in DOMAIN AliasOf
      PROVE  Height(AliasOf[s]) < Height(s)
  <2>1. CASE s = "dma_remap"
    <3>1. AliasOf[s] \in {"system"} /\ Height(s) = 6
      BY <1>2, <1>4, <2>1
    <3> QED
      BY <1>3, <3>1
  <2>2. CASE s # "dma_remap"
    <3>1. AliasOf[s] \in {"peri", "ram", "fb", "uart0"} /\ Height(s) = 4
      BY <1>4, <1>5, <1>6, <2>2
    <3> QED
      BY <1>3, <3>1
  <2> QED
    BY <2>1, <2>2
<1> QED
  BY <1>1, <1>6

Points(mp, r, a) == Named(mp, r) \X (0 .. a)
Index(p) == 7 * p[2] + Height(p[1])

\* Of several placements one is on top.
LEMMA SomeIsOnTop ==
  ASSUME NEW mp, WellFormed(mp), NEW S, S \subseteq DOMAIN mp, S # {}
  PROVE  \E i \in S : \A j \in S : OnTop(mp, i, j)
<1> DEFINE HasTop(S1) == \E i \in S1 : \A j \in S1 : OnTop(mp, i, j)
           T == {n \in 0 .. Len(mp) : \A S1 \in SUBSET (1 .. n) : S1 # {} => HasTop(S1)}
<1>1. Len(mp) \in Nat /\ DOMAIN mp = 1 .. Len(mp)
      /\ \A i \in 1 .. Len(mp) : mp[i].prio \in Int
  BY DEF WellFormed, WellPlaced, IsSequence
<1>2. 0 \in T
  <2>1. \A S1 \in SUBSET (1 .. 0) : S1 = {}
    OBVIOUS
  <2>2. \A S1 \in SUBSET (1 .. 0) : S1 # {} => HasTop(S1)
    BY <2>1
  <2>3. 0 \in 0 .. Len(mp)
    BY <1>1
  <2> HIDE DEF HasTop
  <2> QED
    BY <2>2, <2>3, Zenon
<1>3. ASSUME NEW n \in 0 .. Len(mp) - 1, n \in T
      PROVE  n + 1 \in T
  <2>1. n \in Nat /\ n + 1 \in 1 .. Len(mp)
    BY <1>1
  <2> SUFFICES ASSUME NEW S1 \in SUBSET (1 .. n + 1), S1 # {}
               PROVE  HasTop(S1)
    BY <1>1, <2>1
  <2> DEFINE S2 == S1 \ {n + 1}
  <2>2. S2 \in SUBSET (1 .. n)
    BY <2>1
  <2>3. CASE S2 = {}
    <3>1. S1 = {n + 1}
      BY <2>3
    <3>2. OnTop(mp, n + 1, n + 1)
      BY <1>1, <2>1 DEF OnTop
    <3> QED
      BY <3>1, <3>2
  <2>4. CASE S2 # {}
    <3>1. PICK t \in S2 : \A j \in S2 : OnTop(mp, t, j)
      BY <1>3, <2>2, <2>4
    <3>2. t \in 1 .. n /\ t \in 1 .. Len(mp)
      BY <2>1, <2>2
    <3>3. CASE n + 1 \notin S1
      BY <3>1, <3>3
    <3>4. CASE n + 1 \in S1 /\ mp[t].prio > mp[n + 1].prio
      <4>1. OnTop(mp, t, n + 1)
        BY <3>4 DEF OnTop
      <4> QED
        BY <3>1, <4>1
    <3>5. CASE n + 1 \in S1 /\ ~(mp[t].prio > mp[n + 1].prio)
      <4>1. ASSUME NEW j \in S1
            PROVE  OnTop(mp, n + 1, j)
        <5>1. CASE j = n + 1
          BY <1>1, <2>1, <5>1 DEF OnTop
        <5>2. CASE j # n + 1
          <6>1. j \in 1 .. n /\ j \in 1 .. Len(mp) /\ OnTop(mp, t, j)
            BY <2>1, <2>2, <3>1, <5>2
          <6> QED
            BY <1>1, <2>1, <3>2, <3>5, <6>1 DEF OnTop
        <5> QED
          BY <5>1, <5>2
      <4> QED
        BY <3>5, <4>1
    <3> QED
      BY <3>3, <3>4, <3>5
  <2> QED
    BY <2>3, <2>4
<1> HIDE DEF T
<1>4. Len(mp) \in T
  BY <1>1, <1>2, <1>3, InductionUpTo
<1> QED
  BY <1>1, <1>4 DEF T

\* An index falls with the address, and with the height at the same address.
LEMMA LowerIndex ==
  ASSUME NEW b \in Nat, NEW d \in 0 .. b, NEW h \in 0 .. 6, NEW k \in 0 .. 6, d > 0 \/ h < k
  PROVE  7 * (b - d) + h < 7 * b + k
OBVIOUS

\* Of what answers elsewhere, only what lies lower is asked.
LEMMA AsksLower ==
  ASSUME NEW mp, WellFormed(mp), NEW r, NEW a \in Nat, NEW p \in Points(mp, r, a), NEW f, NEW g,
         \A q \in Points(mp, r, a) : Index(q) < Index(p) => f[q] = g[q]
  PROVE  Shows(mp, f, p[1], p[2]) = Shows(mp, g, p[1], p[2])
<1> DEFINE s == p[1]
           b == p[2]
<1>1. s \in Named(mp, r) /\ b \in 0 .. a /\ p = <<s, b>>
  BY DEF Points
<1>2. CASE s \in DOMAIN AliasOf
  <2> DEFINE q == <<AliasOf[s], b>>
  <2>1. q \in Points(mp, r, a) /\ Index(q) < Index(p)
    BY <1>1, <1>2, Heights DEF Points, Index, Named
  <2>2. f[q] = g[q]
    BY <2>1
  <2> QED
    BY <1>2, <2>2 DEF Shows
<1>3. CASE s \notin DOMAIN AliasOf /\ s \notin Containers
  BY <1>3 DEF Shows
<1>4. CASE s \notin DOMAIN AliasOf /\ s \in Containers
  <2> DEFINE spot(i) == <<mp[i].mr, b - mp[i].at>>
             Solid(h) == {i \in Hits(mp, s, b) : h[spot(i)] # Hole}
             Top(S) == CHOOSE i \in S : \A j \in S : OnTop(mp, i, j)
  <2>1. ASSUME NEW i \in Hits(mp, s, b)
        PROVE  f[spot(i)] = g[spot(i)]
    <3>1. i \in DOMAIN mp /\ WellPlaced(mp[i]) /\ mp[i].in = s
          /\ mp[i].at <= b /\ b < mp[i].at + mp[i].size
      BY <2>1 DEF Hits, WellFormed
    <3>2. mp[i].at \in Nat /\ (mp[i].at > 0 \/ Height(mp[i].mr) < Height(s))
      BY <1>4, <3>1 DEF WellPlaced, Containers
    <3>3. spot(i) \in Points(mp, r, a)
      <4>1. mp[i].mr \in Named(mp, r)
        BY <3>1 DEF Named
      <4> QED
        BY <1>1, <3>1, <3>2, <4>1 DEF Points
    <3>4. Index(spot(i)) < Index(p)
      <4>1. Height(mp[i].mr) \in 0 .. 6 /\ Height(s) \in 0 .. 6
        BY Heights
      <4>2. b \in Nat /\ mp[i].at \in 0 .. b
        BY <1>1, <3>1, <3>2
      <4>3. 7 * (b - mp[i].at) + Height(mp[i].mr) < 7 * b + Height(s)
        BY <3>2, <4>1, <4>2, LowerIndex
      <4> QED
        BY <4>3 DEF Index
    <3> QED
      BY <3>3, <3>4
  <2>2. Solid(f) = Solid(g)
    BY <2>1
  <2>3. Shows(mp, f, s, b) = IF Solid(f) = {} THEN Hole ELSE f[spot(Top(Solid(f)))]
    BY <1>4, Zenon DEF Shows
  <2>4. Shows(mp, g, s, b) = IF Solid(g) = {} THEN Hole ELSE g[spot(Top(Solid(g)))]
    BY <1>4, Zenon DEF Shows
  <2>5. ASSUME Solid(f) # {}
        PROVE  Top(Solid(f)) \in Hits(mp, s, b)
    <3>1. Solid(f) \subseteq Hits(mp, s, b) /\ Solid(f) \subseteq DOMAIN mp
      BY DEF Hits
    <3> HIDE DEF Solid
    <3>2. \E i \in Solid(f) : \A j \in Solid(f) : OnTop(mp, i, j)
      BY <2>5, <3>1, SomeIsOnTop
    <3> QED
      BY <3>1, <3>2
  <2>6. CASE Solid(f) = {}
    BY <2>2, <2>3, <2>4, <2>6
  <2>7. CASE Solid(f) # {}
    <3>1. f[spot(Top(Solid(f)))] = g[spot(Top(Solid(f)))]
      BY <2>1, <2>5, <2>7
    <3> QED
      BY <2>2, <2>3, <2>4, <2>7, <3>1
  <2> QED
    BY <2>6, <2>7
<1> QED
  BY <1>2, <1>3, <1>4

\* What Answer gives is what the regions show of each other.
LEMMA AnswerIsShown ==
  ASSUME NEW mp, WellFormed(mp), NEW r, NEW a \in Nat
  PROVE  \E f : /\ \A p \in Points(mp, r, a) : f[p] = Shows(mp, f, p[1], p[2])
               /\ Answer(mp, r, a) = f[<<r, a>>]
<1> DEFINE Settled(f, n) == \A p \in Points(mp, r, a) : Index(p) < n => f[p] = Shows(mp, f, p[1], p[2])
           N == 7 * (a + 1)
           T == {n \in 0 .. N : \E f : Settled(f, n)}
<1>1. \A p \in Points(mp, r, a) : Index(p) \in Nat /\ Index(p) < N
  BY Heights DEF Points, Index
<1>2. 0 \in T
  BY <1>1
<1>3. ASSUME NEW n \in 0 .. N - 1, n \in T
      PROVE  n + 1 \in T
  <2>1. PICK f : Settled(f, n)
    BY <1>3
  <2> DEFINE g == [p \in Points(mp, r, a) |-> IF Index(p) = n THEN Shows(mp, f, p[1], p[2]) ELSE f[p]]
  <2>2. ASSUME NEW p \in Points(mp, r, a), Index(p) < n + 1
        PROVE  g[p] = Shows(mp, g, p[1], p[2])
    <3>1. \A q \in Points(mp, r, a) : Index(q) < Index(p) => f[q] = g[q]
      BY <1>1, <2>2
    <3> HIDE DEF g
    <3>2. Shows(mp, f, p[1], p[2]) = Shows(mp, g, p[1], p[2])
      BY <3>1, AsksLower
    <3>3. g[p] = Shows(mp, f, p[1], p[2])
      <4>1. Index(p) = n \/ Index(p) < n
        BY <1>1, <2>2
      <4> QED
        BY <2>1, <4>1 DEF g
    <3> QED
      BY <3>2, <3>3
  <2> HIDE DEF g
  <2>3. Settled(g, n + 1)
    BY <2>2
  <2> HIDE DEF Settled
  <2> QED
    BY <2>3
<1>4. N \in T
  <2>1. N \in Nat
    OBVIOUS
  <2> HIDE DEF T, N
  <2> QED
    BY <1>2, <1>3, <2>1, InductionUpTo
<1>5. PICK g : Settled(g, N)
  BY <1>4
<1> DEFINE IsShown(f) == f = [p \in Named(mp, r) \X (0 .. a) |-> Shows(mp, f, p[1], p[2])]
           h == CHOOSE f : IsShown(f)
<1>6. \E f : IsShown(f)
  <2> DEFINE f == [p \in Points(mp, r, a) |-> g[p]]
  <2>1. ASSUME NEW p \in Points(mp, r, a)
        PROVE  f[p] = Shows(mp, f, p[1], p[2])
    <3>1. \A q \in Points(mp, r, a) : Index(q) < Index(p) => g[q] = f[q]
      OBVIOUS
    <3>2. f[p] = g[p] /\ g[p] = Shows(mp, g, p[1], p[2])
      BY <1>1, <1>5
    <3> HIDE DEF f
    <3> QED
      BY <3>1, <3>2, AsksLower
  <2>2. f = [p \in Points(mp, r, a) |-> f[p]]
    OBVIOUS
  <2> HIDE DEF f
  <2>3. f = [p \in Points(mp, r, a) |-> Shows(mp, f, p[1], p[2])]
    BY <2>1, <2>2
  <2> QED
    BY <2>3 DEF Points
<1>7. IsShown(h)
  <2> HIDE DEF IsShown
  <2> QED
    BY <1>6
<1>8. Answer(mp, r, a) = h[<<r, a>>]
  BY Zenon DEF Answer
<1>9. \A p \in Points(mp, r, a) : h[p] = Shows(mp, h, p[1], p[2])
  BY <1>7, Zenon DEF Points
<1> QED
  BY <1>8, <1>9

-----------------------------------------------------------------------------
(* What every operation of a section does right.                           *)

\* Below this address a machine has nothing but RAM.
FreeBelow(m) == IF Soc(m) = "bcm2712" THEN UpperRamBase ELSE PeriBase(m)

\* The names of what stands for a device nobody implemented.
NoDevice ==
  {"txp", "sp804", "i2s", "smi", "spis", "dbus", "ave0", "v3d", "sdramc",
   "clkisp", "l2_intc_v3d", "l2_intc_rp1", "l2_intc_ao", "l2_intc_hdmi0"}

\* Where a device may have its registers in the peripherals.
Spots(m, d) ==
  {Offset[d]} \cup (IF m = "raspi5b" /\ d = "uart0" THEN {\h10010}
                    ELSE IF m = "raspi5b" /\ d = "rng" THEN {\h6100} ELSE {})

PeriOf(m) == Place("peri", "system", PeriBase(m), PeriSize(m), 1)
Rp1Of == Place("rp1", "peri", \h4000, \h10000, 0)

\* What is placed where.
InSystem(m, e) ==
  \/ e = PeriOf(m)
  \/ m # "raspi5b" /\ e = At("control", "system", \h400000)
  \/ m = "raspi5b" /\ e \in {Place("scb", "system", \h107c0000, 2 ^ 30, 0), DmaRemap,
                             Place("uart0_legacy", "system", \hfe2010, 1, 0)}
  \/ m = "raspi5b" /\ \E k \in 1 .. 4 : e = At(GicBlocks[k], "system", \h107fff90 + \h10 * (k - 1))

InPeripherals(m, e) ==
  \/ e.prio = -1000 /\ e.mr \in NoDevice
  \/ e.mr \in DOMAIN Offset /\ \E o \in Spots(m, e.mr) : e = At(e.mr, "peri", o)
  \/ m = "raspi5b" /\ e = Rp1Of

InsideRp1(e) ==
  \/ e.mr \in {"rp1.gpio", "rp1.uart0", "rp1.uart1"} \cup Stub /\ e.at + e.size <= \h3600
  \/ e \in {InRp1("rp1.sd0", \h4000, 1), InRp1("rp1.sd1", \h4100, 1)}

Listed(m, e) ==
  \/ e.in = "system" /\ InSystem(m, e)
  \/ e.in = "peri" /\ InPeripherals(m, e)
  \/ e.in = "rp1" /\ m = "raspi5b" /\ InsideRp1(e)
  \/ e.in = "mbox" /\ e.mr \in {"fb_alias", "property"}
  \/ e.in = "gpu" /\ e.mr \in DOMAIN AliasOf

\* What the programs of the machines place is listed.
LEMMA ListedPlaces ==
  ASSUME NEW m
  PROVE  /\ \A d \in DOMAIN Offset : Listed(m, InPeri(d))
         /\ \A name \in NoDevice : \A ofs, size : Listed(m, Unimp(name, ofs, size))
         /\ \A mr \in {"fb_alias", "property"} : \A ofs : Listed(m, At(mr, "mbox", ofs))
         /\ \A mr \in DOMAIN AliasOf : \A ofs, size, prio : Listed(m, Place(mr, "gpu", ofs, size, prio))
         /\ Listed(m, PeriOf(m))
         /\ m # "raspi5b" => Listed(m, At("control", "system", \h400000))
<1>1. \A d \in DOMAIN Offset : Listed(m, InPeri(d))
  BY DEF Listed, InPeripherals, InPeri, At, Place, Spots
<1>2. \A name \in NoDevice : \A ofs, size : Listed(m, Unimp(name, ofs, size))
  BY DEF Listed, InPeripherals, Unimp, Place
<1>3. \A mr \in {"fb_alias", "property"} : \A ofs : Listed(m, At(mr, "mbox", ofs))
  BY DEF Listed, At, Place
<1>4. \A mr \in DOMAIN AliasOf : \A ofs, size, prio : Listed(m, Place(mr, "gpu", ofs, size, prio))
  BY DEF Listed, Place
<1>5. Listed(m, PeriOf(m))
  BY DEF Listed, InSystem, PeriOf, Place
<1>6. m # "raspi5b" => Listed(m, At("control", "system", \h400000))
  BY SMT DEF Listed, InSystem, At, Place
<1> QED
  BY <1>1, <1>2, <1>3, <1>4, <1>5, <1>6

\* So is what the Pi 5 has in other places, or alone.
LEMMA ListedPlaces2712 ==
  LET m == "raspi5b" IN
  /\ Listed(m, At("uart0", "peri", \h10010)) /\ Listed(m, At("rng", "peri", \h6100))
  /\ Listed(m, Rp1Of) /\ Listed(m, DmaRemap)
  /\ Listed(m, Place("scb", "system", \h107c0000, 2 ^ 30, 0))
  /\ Listed(m, Place("uart0_legacy", "system", \hfe2010, 1, 0))
  /\ \A k \in 1 .. 4 : Listed(m, At(GicBlocks[k], "system", \h107fff90 + \h10 * (k - 1)))
<1> DEFINE m == "raspi5b"
<1>1. "uart0" \in DOMAIN Offset /\ "rng" \in DOMAIN Offset
  BY SMT DEF Offset
<1>2. \h10010 \in Spots(m, "uart0") /\ \h6100 \in Spots(m, "rng")
  BY SMT DEF Spots
<1>3. Listed(m, At("uart0", "peri", \h10010)) /\ Listed(m, At("rng", "peri", \h6100))
  <2>1. \A d \in DOMAIN Offset : \A o \in Spots(m, d) : Listed(m, At(d, "peri", o))
    BY DEF Listed, InPeripherals, At, Place
  <2> QED
    BY <1>1, <1>2, <2>1
<1>4. Listed(m, Rp1Of)
  BY SMT DEF Listed, InPeripherals, Rp1Of, Place
<1>5. /\ Listed(m, DmaRemap)
      /\ Listed(m, Place("scb", "system", \h107c0000, 2 ^ 30, 0))
      /\ Listed(m, Place("uart0_legacy", "system", \hfe2010, 1, 0))
  BY SMT DEF Listed, InSystem, DmaRemap, Place
<1>6. \A k \in 1 .. 4 : Listed(m, At(GicBlocks[k], "system", \h107fff90 + \h10 * (k - 1)))
  BY SMT DEF Listed, InSystem, At, Place
<1> QED
  BY <1>3, <1>4, <1>5, <1>6

\* A placement that leaves the RAM and what the GPU sees of it alone.
Apart(m, e) ==
  /\ WellPlaced(e) /\ e.in \in Containers
  /\ e.in = "system" => e.at >= FreeBelow(m)
  /\ e.in = "gpu" => e.at >= UpperRamBase
  /\ Listed(m, e)

AllApart(m, mp) == IsSequence(mp) /\ \A k \in DOMAIN mp : Apart(m, mp[k])

\* The output that is to drive an input.
IcDriver(m, i) ==
  CASE i \in 0 .. 3 -> <<"systmr", i>>
    [] i = 9 -> <<"dwc2", 0>>
    [] i = 27 /\ m # "raspi5b" -> <<"orgated_dma", 0>>
    [] i = 29 /\ m # "raspi5b" -> <<"aux", 0>>
    [] i = 32 -> <<"mphi", 0>>
    [] i = 53 -> <<"orgated_i2c", 0>>
    [] i = 54 -> <<"spi0", 0>>
    [] i = 56 -> <<IF m = "raspi5b" THEN "emmc_irq_orgate" ELSE "sdhost", 0>>
    [] i = 57 -> <<"uart0", 0>>
    [] i = 62 -> <<IF m = "raspi5b" THEN "mmc_irq_orgate" ELSE "sdhci", 0>>
    [] i = 65 -> <<"mboxes", 0>>
    [] OTHER -> <<"dma", i - 16>>

GicDriver(i) ==
  CASE i = 33 -> <<"mboxes", 0>>
    [] i \in 64 .. 67 -> <<"systmr", i - 64>>
    [] i = 73 -> <<"dwc2", 0>>
    [] i = 117 -> <<"i2c0", 0>>
    [] i = 118 -> <<"spi0", 0>>
    [] i = 120 -> <<"sdhost", 0>>
    [] i = 121 -> <<"uart0", 0>>
    [] i = 122 -> <<"aux", 0>>
    [] i = 127 -> <<"emmc2", 0>>
    [] i = 129 -> <<"rp1.uart0", 0>>
    [] i = 130 -> <<"rp1.uart1", 0>>
    [] OTHER -> LET cpu == (i - GicShared) \div 32
                    ppi == ((i - GicShared) % 32) - 16
                IN  CASE ppi = 7 -> <<Cpu(cpu), 4>>
                      [] ppi = 9 -> <<"gic", cpu + 16>>
                      [] OTHER -> <<Cpu(cpu), ppi - 13>>

CpuDriver(m, n, i) ==
  CASE Soc(m) = "bcm2835" -> <<"ic", i>>
    [] Soc(m) = "bcm2712" -> <<"gic", n + 4 * i>>
    [] OTHER -> <<"control", 2 * n + i>>

Driver(m, to, i) ==
  CASE to = "ic" -> IcDriver(m, i)
    [] to = "gic" -> GicDriver(i)
    [] to = "control" -> IF i < 2 THEN <<"ic", i>> ELSE <<Cpu((i - 2) \div 4), (i - 2) % 4>>
    [] to = "mboxes" -> IF i = 1 THEN <<"fb", 0>> ELSE <<"property", 0>>
    [] to = "orgated_i2c" -> <<CASE i = 0 -> "i2c0" [] i = 1 -> "i2c1" [] OTHER -> "i2c2", 0>>
    [] to = "orgated_dma" -> <<"dma", 11 + i>>
    [] to = "mmc_irq_orgate" -> <<IF i = 0 THEN "sdhci" ELSE "emmc2", 0>>
    [] to = "emmc_irq_orgate" -> <<"sdhost", 0>>
    [] to = "cpu0" -> CpuDriver(m, 0, i)
    [] to = "cpu1" -> CpuDriver(m, 1, i)
    [] to = "cpu2" -> CpuDriver(m, 2, i)
    [] to = "cpu3" -> CpuDriver(m, 3, i)

\* The outputs the Pi 5 connects to the old controller at first, where another
\* gets the input, and to the GIC later.
Moved(m, o) == m = "raspi5b" /\ o \in {<<"aux", 0>>, <<"sdhost", 0>>}

\* The devices that receive interrupts.
Receivers(m) ==
  CpuNames \cup {"ic", "mboxes", "orgated_i2c"}
  \cup (CASE Soc(m) = "bcm2835" -> {"orgated_dma"}
          [] Soc(m) = "bcm2712" -> {"gic", "mmc_irq_orgate", "emmc_irq_orgate"}
          [] OTHER -> {"control", "orgated_dma"})

\* Where the devices that pass interrupts on send them.
Onward(m, o, to) ==
  /\ o = <<"ic", 0>> => to = IF Soc(m) = "bcm2835" THEN "cpu0" ELSE "control"
  /\ o \in {<<"control", 0>>, <<"gic", 0>>} => to = "cpu0"
  /\ o = <<"mboxes", 0>> => to \in {"ic", "gic"}
  /\ o \in {<<"orgated_i2c", 0>>, <<"orgated_dma", 0>>, <<"mmc_irq_orgate", 0>>,
            <<"emmc_irq_orgate", 0>>} => to = "ic"

\* A connection from output o to input i.
GoodLine(m, o, i) ==
  /\ o # i /\ i[1] \in Receivers(m) /\ Onward(m, o, i[1])
  /\ o = Driver(m, i[1], i[2]) \/ (Moved(m, o) /\ i[1] = "ic")

GoodIrqs(m, irqs) == \A c \in irqs : GoodLine(m, c[1], c[2])

GoodOp(m, op) ==
  /\ AllApart(m, op.maps)
  /\ GoodIrqs(m, op.irqs)
  /\ op.kind = "sdbus" => op.dev \in {"peripherals", "soc"}
  /\ op.kind \in {"unmap", "expire"} => op.dev \in {"uart0", "uart0_legacy"}
  /\ op.kind \in {"vcram", "unmap", "expire", "sdbus"} => op.irqs = {} /\ op.maps = <<>>

GoodOps(m, s) == \A k \in DOMAIN s : GoodOp(m, s[k])

\* The interrupts of the peripherals all chips have.
LEMMA CommonLines ==
  ASSUME NEW m \in Machine
  PROVE  /\ GoodIrqs(m, {ToIc("systmr", n, IcLine.timer + n) : n \in 0 .. 3})
         /\ GoodIrqs(m, {ToIc("uart0", 0, IcLine.uart0)})
         /\ GoodIrqs(m, {ToIc("aux", 0, IcLine.aux)})
         /\ GoodIrqs(m, {ToIc("mboxes", 0, IcLine.mailbox)})
         /\ GoodIrqs(m, {Irq("fb", 0, "mboxes", 1)})
         /\ GoodIrqs(m, {Irq("property", 0, "mboxes", 8)})
         /\ GoodIrqs(m, {ToIc("sdhost", 0, IcLine.sdio)})
         /\ GoodIrqs(m, {ToIc("mphi", 0, IcLine.hostport)})
         /\ GoodIrqs(m, {ToIc("dwc2", 0, IcLine.usb)})
         /\ GoodIrqs(m, {ToIc("spi0", 0, IcLine.spi)})
         /\ GoodIrqs(m, {Irq("i2c0", 0, "orgated_i2c", 0), Irq("i2c1", 0, "orgated_i2c", 1),
                         Irq("i2c2", 0, "orgated_i2c", 2), ToIc("orgated_i2c", 0, IcLine.i2c)})
<1>1. {"ic", "mboxes", "orgated_i2c"} \subseteq Receivers(m)
  BY DEF Receivers
<1> DEFINE Good(d, o, to, i) == GoodLine(m, <<d, o>>, <<to, i>>)
<1>2. ASSUME NEW n \in 0 .. 3
      PROVE  Good("systmr", n, "ic", n)
  BY <1>1, SMT DEF GoodLine, Onward, Driver, IcDriver
<1>3. Good("uart0", 0, "ic", 57)
  BY <1>1, SMT DEF GoodLine, Onward, Driver, IcDriver
<1>4. Good("aux", 0, "ic", 29)
  BY <1>1, SMT DEF GoodLine, Onward, Driver, IcDriver, Moved
<1>5. Good("mboxes", 0, "ic", 65)
  BY <1>1, SMT DEF GoodLine, Onward, Driver, IcDriver
<1>6. Good("fb", 0, "mboxes", 1) /\ Good("property", 0, "mboxes", 8)
  BY <1>1, SMT DEF GoodLine, Onward, Driver
<1>7. Good("sdhost", 0, "ic", 56)
  BY <1>1, SMT DEF GoodLine, Onward, Driver, IcDriver, Moved
<1>8. Good("mphi", 0, "ic", 32) /\ Good("dwc2", 0, "ic", 9) /\ Good("spi0", 0, "ic", 54)
  BY <1>1, SMT DEF GoodLine, Onward, Driver, IcDriver
<1>9. /\ Good("i2c0", 0, "orgated_i2c", 0) /\ Good("i2c1", 0, "orgated_i2c", 1)
      /\ Good("i2c2", 0, "orgated_i2c", 2) /\ Good("orgated_i2c", 0, "ic", 53)
  BY <1>1, SMT DEF GoodLine, Onward, Driver, IcDriver
<1>10. GoodIrqs(m, {ToIc("systmr", n, IcLine.timer + n) : n \in 0 .. 3})
  BY <1>2, SMT DEF GoodIrqs, ToIc, Irq, IcLine
<1>11. /\ GoodIrqs(m, {ToIc("uart0", 0, IcLine.uart0)})
       /\ GoodIrqs(m, {ToIc("aux", 0, IcLine.aux)})
       /\ GoodIrqs(m, {ToIc("mboxes", 0, IcLine.mailbox)})
  BY <1>3, <1>4, <1>5, SMT DEF GoodIrqs, ToIc, Irq, IcLine
<1>12. /\ GoodIrqs(m, {Irq("fb", 0, "mboxes", 1)})
       /\ GoodIrqs(m, {Irq("property", 0, "mboxes", 8)})
  BY <1>6, SMT DEF GoodIrqs, Irq
<1>13. /\ GoodIrqs(m, {ToIc("sdhost", 0, IcLine.sdio)})
       /\ GoodIrqs(m, {ToIc("mphi", 0, IcLine.hostport)})
       /\ GoodIrqs(m, {ToIc("dwc2", 0, IcLine.usb)})
       /\ GoodIrqs(m, {ToIc("spi0", 0, IcLine.spi)})
  BY <1>7, <1>8, SMT DEF GoodIrqs, ToIc, Irq, IcLine
<1>14. GoodIrqs(m, {Irq("i2c0", 0, "orgated_i2c", 0), Irq("i2c1", 0, "orgated_i2c", 1),
                    Irq("i2c2", 0, "orgated_i2c", 2), ToIc("orgated_i2c", 0, IcLine.i2c)})
  BY <1>9, SMT DEF GoodIrqs, ToIc, Irq, IcLine
<1> QED
  BY <1>10, <1>11, <1>12, <1>13, <1>14

\* The interrupts of the peripherals of the older chips.
LEMMA OldLines ==
  ASSUME NEW m \in Machine, m # "raspi5b"
  PROVE  /\ GoodIrqs(m, {ToIc("sdhci", 0, IcLine.arasan)}
                         \cup {ToIc("dma", n, IcLine.dma + n) : n \in 0 .. 10})
         /\ GoodIrqs(m, {Irq("dma", 11 + n, "orgated_dma", n) : n \in 0 .. 3}
                         \cup {ToIc("orgated_dma", 0, IcLine.dma + 11)})
<1> DEFINE Good(d, o, to, i) == GoodLine(m, <<d, o>>, <<to, i>>)
<1>1. {"ic", "orgated_dma"} \subseteq Receivers(m)
  BY Machines DEF Receivers, Old
<1>2. Good("sdhci", 0, "ic", 62) /\ Good("orgated_dma", 0, "ic", 27)
  BY <1>1, SMT DEF GoodLine, Onward, Driver, IcDriver
<1>3. ASSUME NEW n \in 0 .. 10
      PROVE  Good("dma", n, "ic", 16 + n)
  <2>1. IcDriver(m, 16 + n) = <<"dma", n>>
    BY SMT DEF IcDriver
  <2> QED
    BY <1>1, <2>1, SMT DEF GoodLine, Onward, Driver
<1>4. ASSUME NEW n \in 0 .. 3
      PROVE  Good("dma", 11 + n, "orgated_dma", n)
  BY <1>1, SMT DEF GoodLine, Onward, Driver
<1>5. GoodIrqs(m, {ToIc("sdhci", 0, IcLine.arasan)}
                  \cup {ToIc("dma", n, IcLine.dma + n) : n \in 0 .. 10})
  <2>1. IcLine.dma = 16 /\ IcLine.arasan = 62
    BY DEF IcLine
  <2>2. \A c \in {ToIc("dma", n, IcLine.dma + n) : n \in 0 .. 10} : GoodLine(m, c[1], c[2])
    BY <1>3, <2>1 DEF ToIc, Irq
  <2>3. \A c \in {ToIc("sdhci", 0, IcLine.arasan)} : GoodLine(m, c[1], c[2])
    BY <1>2, <2>1 DEF ToIc, Irq
  <2> QED
    BY <2>2, <2>3 DEF GoodIrqs
<1>6. GoodIrqs(m, {Irq("dma", 11 + n, "orgated_dma", n) : n \in 0 .. 3}
                  \cup {ToIc("orgated_dma", 0, IcLine.dma + 11)})
  BY <1>2, <1>4, SMT DEF GoodIrqs, ToIc, Irq, IcLine
<1> QED
  BY <1>5, <1>6

\* The interrupts of the Pi 5's peripherals.
LEMMA Lines2712 ==
  LET m == "raspi5b" IN
  /\ GoodIrqs(m, {Irq("sdhci", 0, "mmc_irq_orgate", 0), Irq("emmc2", 0, "mmc_irq_orgate", 1),
                  ToIc("mmc_irq_orgate", 0, IcLine.arasan)})
  /\ GoodIrqs(m, {Irq("sdhost", 0, "emmc_irq_orgate", 0),
                  ToIc("emmc_irq_orgate", 0, IcLine.sdio)})
  /\ GoodIrqs(m, {ToIc("dma", n, IcLine.dma + n) : n \in 0 .. 15})
  /\ GoodIrqs(m, {ToIc("dma", 15, 31)})
<1> DEFINE m == "raspi5b"
           Good(d, o, to, i) == GoodLine(m, <<d, o>>, <<to, i>>)
<1>1. {"ic", "mmc_irq_orgate", "emmc_irq_orgate"} \subseteq Receivers(m)
  BY Machines DEF Receivers, Machine, BoardRev
<1>2. /\ Good("sdhci", 0, "mmc_irq_orgate", 0) /\ Good("emmc2", 0, "mmc_irq_orgate", 1)
      /\ Good("mmc_irq_orgate", 0, "ic", 62)
  BY <1>1, SMT DEF GoodLine, Onward, Driver, IcDriver
<1>3. Good("sdhost", 0, "emmc_irq_orgate", 0) /\ Good("emmc_irq_orgate", 0, "ic", 56)
  BY <1>1, SMT DEF GoodLine, Onward, Driver, IcDriver
<1>4. ASSUME NEW n \in 0 .. 15
      PROVE  Good("dma", n, "ic", 16 + n)
  <2>1. IcDriver(m, 16 + n) = <<"dma", n>>
    BY SMT DEF IcDriver
  <2> QED
    BY <1>1, <2>1, SMT DEF GoodLine, Onward, Driver
<1>5. /\ GoodIrqs(m, {Irq("sdhci", 0, "mmc_irq_orgate", 0), Irq("emmc2", 0, "mmc_irq_orgate", 1),
                      ToIc("mmc_irq_orgate", 0, IcLine.arasan)})
      /\ GoodIrqs(m, {Irq("sdhost", 0, "emmc_irq_orgate", 0),
                      ToIc("emmc_irq_orgate", 0, IcLine.sdio)})
  BY <1>2, <1>3, SMT DEF GoodIrqs, ToIc, Irq, IcLine
<1>6. GoodIrqs(m, {ToIc("dma", n, IcLine.dma + n) : n \in 0 .. 15})
  <2>1. IcLine.dma = 16
    BY DEF IcLine
  <2> SUFFICES ASSUME NEW n \in 0 .. 15
               PROVE  GoodLine(m, ToIc("dma", n, IcLine.dma + n)[1], ToIc("dma", n, IcLine.dma + n)[2])
    BY DEF GoodIrqs
  <2>2. ToIc("dma", n, IcLine.dma + n) = <<<<"dma", n>>, <<"ic", 16 + n>>>>
    BY <2>1 DEF ToIc, Irq
  <2>3. GoodLine(m, <<"dma", n>>, <<"ic", 16 + n>>)
    BY <1>4
  <2>4. /\ ToIc("dma", n, IcLine.dma + n)[1] = <<"dma", n>>
        /\ ToIc("dma", n, IcLine.dma + n)[2] = <<"ic", 16 + n>>
    BY <2>2, SMT
  <2> QED
    BY <2>3, <2>4, Zenon
<1>7. GoodIrqs(m, {ToIc("dma", 15, 31)})
  <2>1. GoodLine(m, <<"dma", 15>>, <<"ic", 31>>)
    <3>1. 15 \in 0 .. 15 /\ 16 + 15 = 31
      BY SMT
    <3>2. Good("dma", 15, "ic", 16 + 15)
      BY <1>4, <3>1
    <3> QED
      BY <3>1, <3>2
  <2>2. ToIc("dma", 15, 31) = <<<<"dma", 15>>, <<"ic", 31>>>>
    BY DEF ToIc, Irq
  <2>3. ToIc("dma", 15, 31)[1] = <<"dma", 15>> /\ ToIc("dma", 15, 31)[2] = <<"ic", 31>>
    BY <2>2, SMT
  <2> QED
    BY <2>1, <2>3, Zenon DEF GoodIrqs
<1> QED
  BY <1>5, <1>6, <1>7

\* The interrupts of the chips with an old controller alone.
LEMMA LinesOfSoc2835 ==
  ASSUME NEW m \in Machine, Soc(m) = "bcm2835"
  PROVE  GoodIrqs(m, {Irq("ic", 0, Cpu(0), 0), Irq("ic", 1, Cpu(0), 1)})
<1>1. "cpu0" \in Receivers(m) /\ Cpu(0) = "cpu0"
  BY DEF Receivers, CpuNames, Cpu
<1>2. GoodLine(m, <<"ic", 0>>, <<"cpu0", 0>>) /\ GoodLine(m, <<"ic", 1>>, <<"cpu0", 1>>)
  BY <1>1, SMT DEF GoodLine, Onward, Driver, CpuDriver
<1> QED
  BY <1>1, <1>2, SMT DEF GoodIrqs, Irq

\* The names of the CPUs.
LEMMA Cpus ==
  /\ Cpu(0) = "cpu0" /\ Cpu(1) = "cpu1" /\ Cpu(2) = "cpu2" /\ Cpu(3) = "cpu3"
  /\ \A m, i : /\ Driver(m, "cpu0", i) = CpuDriver(m, 0, i) /\ Driver(m, "cpu1", i) = CpuDriver(m, 1, i)
              /\ Driver(m, "cpu2", i) = CpuDriver(m, 2, i) /\ Driver(m, "cpu3", i) = CpuDriver(m, 3, i)
  BY SMT DEF Cpu, Driver

\* The interrupts of the chips with a local controller.
LEMMA LinesOfSoc2836 ==
  ASSUME NEW m \in Machine, Soc(m) \in {"bcm2836", "bcm2837"}
  PROVE  /\ GoodIrqs(m, {Irq("ic", 0, "control", 0), Irq("ic", 1, "control", 1)})
         /\ \A c \in 0 .. 3 : GoodIrqs(m, Cpu2836(c).irqs)
<1>1. CpuNames \cup {"control"} \subseteq Receivers(m)
  BY DEF Receivers
<1>2. GoodLine(m, <<"ic", 0>>, <<"control", 0>>) /\ GoodLine(m, <<"ic", 1>>, <<"control", 1>>)
  BY <1>1, SMT DEF GoodLine, Onward, Driver
<1>3. ASSUME NEW c \in 0 .. 3
      PROVE  GoodIrqs(m, Cpu2836(c).irqs)
  <2>1. Cpu(c) \in CpuNames
    BY Cpus DEF CpuNames
  <2>2. \A i : Driver(m, Cpu(c), i) = <<"control", 2 * c + i>>
    <3>1. \A i : Driver(m, Cpu(c), i) = CpuDriver(m, c, i)
      BY Cpus
    <3> QED
      BY <3>1 DEF CpuDriver
  <2>3. /\ GoodLine(m, <<"control", 2 * c>>, <<Cpu(c), 0>>)
        /\ GoodLine(m, <<"control", 2 * c + 1>>, <<Cpu(c), 1>>)
    BY <1>1, <2>1, <2>2, Cpus, SMT DEF GoodLine, Onward
  <2>4. ASSUME NEW t \in 0 .. 3
        PROVE  GoodLine(m, <<Cpu(c), t>>, <<"control", 2 + 4 * c + t>>)
    <3>1. Driver(m, "control", 2 + 4 * c + t) = <<Cpu(c), t>>
      <4>1. (2 + 4 * c + t - 2) \div 4 = c /\ (2 + 4 * c + t - 2) % 4 = t /\ ~(2 + 4 * c + t < 2)
        BY SMT
      <4> QED
        BY <4>1, SMT DEF Driver
    <3> QED
      BY <1>1, <2>1, <3>1, SMT DEF GoodLine, Onward, CpuNames
  <2> QED
    BY <2>3, <2>4, SMT DEF GoodIrqs, Cpu2836, Child, Irq
<1> QED
  BY <1>2, <1>3, SMT DEF GoodIrqs, Irq

\* The interrupts of the Pi 5's CPUs and those its GIC receives.
LEMMA LinesOfSoc2712 ==
  LET m == "raspi5b" IN
  /\ \A c \in 0 .. 3 : GoodIrqs(m, Cpu2712(c).irqs)
  /\ GoodIrqs(m, Shared2712)
<1> DEFINE m == "raspi5b"
           Good(d, o, to, i) == GoodLine(m, <<d, o>>, <<to, i>>)
<1>1. Soc(m) = "bcm2712"
  BY Machines DEF Machine, BoardRev
<1>2. CpuNames \cup {"gic"} \subseteq Receivers(m)
  BY <1>1 DEF Receivers
<1>3. \A i : Driver(m, "gic", i) = GicDriver(i)
  BY SMT DEF Driver
<1>4. ASSUME NEW c \in 0 .. 3
      PROVE  GoodIrqs(m, Cpu2712(c).irqs)
  <2>1. Cpu(c) \in CpuNames
    BY Cpus DEF CpuNames
  <2>2. \A i : Driver(m, Cpu(c), i) = <<"gic", c + 4 * i>>
    <3>1. \A i : Driver(m, Cpu(c), i) = CpuDriver(m, c, i)
      BY Cpus
    <3> QED
      BY <1>1, <3>1 DEF CpuDriver
  <2>3. ASSUME NEW n \in 0 .. 3
        PROVE  Good("gic", c + 4 * n, Cpu(c), n)
    <3>1. c + 4 * n = 0 => c = 0
      OBVIOUS
    <3> QED
      BY <1>2, <2>1, <2>2, <3>1, Cpus, SMT DEF GoodLine, Onward, CpuNames
  <2>4. ASSUME NEW i \in {7, 9, 13, 14, 15}
        PROVE  /\ PPI(c, i) = 528 + 32 * c + i
               /\ GicDriver(PPI(c, i)) = IF i = 7 THEN <<Cpu(c), 4>>
                                         ELSE IF i = 9 THEN <<"gic", c + 16>>
                                         ELSE <<Cpu(c), i - 13>>
    <3>1. PPI(c, i) = 528 + 32 * c + i
      BY DEF PPI, GicShared
    <3>2. (528 + 32 * c + i - 512) \div 32 = c /\ ((528 + 32 * c + i - 512) % 32) - 16 = i
      BY SMT
    <3>3. GicDriver(528 + 32 * c + i) = IF i = 7 THEN <<Cpu(c), 4>>
                                        ELSE IF i = 9 THEN <<"gic", c + 16>>
                                        ELSE <<Cpu(c), i - 13>>
      BY <3>2, SMT DEF GicDriver, GicShared
    <3> QED
      BY <3>1, <3>3
  <2>5. Good("gic", c + 16, "gic", PPI(c, Ppi.maintenance))
    <3>1. Ppi.maintenance = 9
      BY DEF Ppi
    <3> QED
      BY <1>2, <1>3, <2>4, <3>1, SMT DEF GoodLine, Onward
  <2>6. /\ Good(Cpu(c), 0, "gic", PPI(c, Ppi.timer))
        /\ Good(Cpu(c), 1, "gic", PPI(c, Ppi.vtimer))
        /\ Good(Cpu(c), 2, "gic", PPI(c, Ppi.hyp_timer))
        /\ Good(Cpu(c), 4, "gic", PPI(c, Ppi.pmu))
    <3>1. Ppi.timer = 13 /\ Ppi.vtimer = 14 /\ Ppi.hyp_timer = 15 /\ Ppi.pmu = 7
      BY DEF Ppi
    <3> QED
      BY <1>2, <1>3, <2>1, <2>4, <3>1, SMT DEF GoodLine, Onward, CpuNames
  <2> QED
    BY <2>3, <2>5, <2>6, SMT DEF GoodIrqs, Cpu2712, Child, Irq
<1>5. GoodIrqs(m, Shared2712)
  <2>1. /\ Good("uart0", 0, "gic", 121) /\ Good("aux", 0, "gic", 122) /\ Good("sdhost", 0, "gic", 120)
        /\ Good("mboxes", 0, "gic", 33) /\ Good("dwc2", 0, "gic", 73)
    BY <1>2, <1>3, SMT DEF GoodLine, Onward, GicDriver
  <2>2. /\ Good("i2c0", 0, "gic", 117) /\ Good("spi0", 0, "gic", 118) /\ Good("emmc2", 0, "gic", 127)
        /\ Good("rp1.uart0", 0, "gic", 129) /\ Good("rp1.uart1", 0, "gic", 130)
    BY <1>2, <1>3, SMT DEF GoodLine, Onward, GicDriver
  <2>3. ASSUME NEW n \in 0 .. 3
        PROVE  Good("systmr", n, "gic", 64 + n)
    <3>1. GicDriver(64 + n) = <<"systmr", n>>
      BY SMT DEF GicDriver
    <3> QED
      BY <1>2, <1>3, <3>1, SMT DEF GoodLine, Onward
  <2>4. /\ Spi.mbox = 33 /\ Spi.timer0 = 64 /\ Spi.dwc2 = 73 /\ Spi.i2c = 117 /\ Spi.spi = 118
        /\ Spi.sdhost = 120 /\ SpiOfHeader.uart0 = 121 /\ SpiOfHeader.uart1 = 122
        /\ SpiOfHeader.emmc2 = 127 /\ SpiOfHeader.rp1_uart0 = 129 /\ SpiOfHeader.rp1_uart1 = 130
    BY DEF Spi, SpiOfHeader
  <2>5. \A c \in {ToGic("systmr", n, Spi.timer0 + n) : n \in 0 .. 3} : GoodLine(m, c[1], c[2])
    BY <2>3, <2>4 DEF ToGic, Irq
  <2> DEFINE rest == {ToGic("uart0", 0, SpiOfHeader.uart0), ToGic("aux", 0, SpiOfHeader.uart1),
                      ToGic("sdhost", 0, Spi.sdhost), ToGic("mboxes", 0, Spi.mbox),
                      ToGic("dwc2", 0, Spi.dwc2), ToGic("i2c0", 0, Spi.i2c), ToGic("spi0", 0, Spi.spi),
                      ToGic("emmc2", 0, SpiOfHeader.emmc2),
                      ToGic("rp1.uart0", 0, SpiOfHeader.rp1_uart0),
                      ToGic("rp1.uart1", 0, SpiOfHeader.rp1_uart1)}
  <2>6. \A c \in rest : GoodLine(m, c[1], c[2])
    BY <2>1, <2>2, <2>4 DEF ToGic, Irq
  <2> QED
    BY <2>5, <2>6, Zenon DEF GoodIrqs, Shared2712
<1> QED
  BY <1>4, <1>5

-----------------------------------------------------------------------------
(* The sections, put together from good operations.                          *)

\* A tuple of placements that are apart, for the lengths that occur.
LEMMA ApartTuples ==
  ASSUME NEW m
  PROVE  /\ AllApart(m, <<>>)
         /\ \A a : Apart(m, a) => AllApart(m, <<a>>)
         /\ \A a, b : Apart(m, a) /\ Apart(m, b) => AllApart(m, <<a, b>>)
         /\ \A a, b, c : Apart(m, a) /\ Apart(m, b) /\ Apart(m, c) => AllApart(m, <<a, b, c>>)
<1>1. AllApart(m, <<>>)
  BY TupleIsSequence, SMT DEF AllApart
<1>2. ASSUME NEW a, Apart(m, a)
      PROVE  AllApart(m, <<a>>)
  BY <1>2, TupleIsSequence, SMT DEF AllApart
<1>3. ASSUME NEW a, NEW b, Apart(m, a), Apart(m, b)
      PROVE  AllApart(m, <<a, b>>)
  BY <1>3, TupleIsSequence, SMT DEF AllApart
<1>4. ASSUME NEW a, NEW b, NEW c, Apart(m, a), Apart(m, b), Apart(m, c)
      PROVE  AllApart(m, <<a, b, c>>)
  BY <1>4, TupleIsSequence, SMT DEF AllApart
<1> QED
  BY <1>1, <1>2, <1>3, <1>4

\* A tuple of good operations, for the lengths that occur.
LEMMA GoodTuples ==
  ASSUME NEW m
  PROVE  /\ GoodOps(m, <<>>)
         /\ \A a : GoodOp(m, a) => GoodOps(m, <<a>>)
         /\ \A a, b : GoodOp(m, a) /\ GoodOp(m, b) => GoodOps(m, <<a, b>>)
         /\ \A a, b, c : GoodOp(m, a) /\ GoodOp(m, b) /\ GoodOp(m, c) => GoodOps(m, <<a, b, c>>)
         /\ \A a, b, c, d :
              /\ GoodOp(m, a) /\ GoodOp(m, b) /\ GoodOp(m, c) /\ GoodOp(m, d)
              => GoodOps(m, <<a, b, c, d>>)
         /\ \A a, b, c, d, e :
              /\ GoodOp(m, a) /\ GoodOp(m, b) /\ GoodOp(m, c) /\ GoodOp(m, d)
              /\ GoodOp(m, e)
              => GoodOps(m, <<a, b, c, d, e>>)
         /\ \A a, b, c, d, e, f :
              /\ GoodOp(m, a) /\ GoodOp(m, b) /\ GoodOp(m, c) /\ GoodOp(m, d)
              /\ GoodOp(m, e) /\ GoodOp(m, f)
              => GoodOps(m, <<a, b, c, d, e, f>>)
         /\ \A a, b, c, d, e, f, g :
              /\ GoodOp(m, a) /\ GoodOp(m, b) /\ GoodOp(m, c) /\ GoodOp(m, d)
              /\ GoodOp(m, e) /\ GoodOp(m, f) /\ GoodOp(m, g)
              => GoodOps(m, <<a, b, c, d, e, f, g>>)
         /\ \A a, b, c, d, e, f, g, h, i :
              /\ GoodOp(m, a) /\ GoodOp(m, b) /\ GoodOp(m, c) /\ GoodOp(m, d)
              /\ GoodOp(m, e) /\ GoodOp(m, f) /\ GoodOp(m, g) /\ GoodOp(m, h)
              /\ GoodOp(m, i)
              => GoodOps(m, <<a, b, c, d, e, f, g, h, i>>)
<1>1. GoodOps(m, <<>>)
  BY SMT DEF GoodOps
<1>2. \A a : GoodOp(m, a) => GoodOps(m, <<a>>)
  BY SMT DEF GoodOps
<1>3. \A a, b : GoodOp(m, a) /\ GoodOp(m, b) => GoodOps(m, <<a, b>>)
  BY SMT DEF GoodOps
<1>4. \A a, b, c : GoodOp(m, a) /\ GoodOp(m, b) /\ GoodOp(m, c) => GoodOps(m, <<a, b, c>>)
  BY SMT DEF GoodOps
<1>5. \A a, b, c, d :
        /\ GoodOp(m, a) /\ GoodOp(m, b) /\ GoodOp(m, c) /\ GoodOp(m, d)
        => GoodOps(m, <<a, b, c, d>>)
  BY SMT DEF GoodOps
<1>6. \A a, b, c, d, e :
        /\ GoodOp(m, a) /\ GoodOp(m, b) /\ GoodOp(m, c) /\ GoodOp(m, d)
        /\ GoodOp(m, e)
        => GoodOps(m, <<a, b, c, d, e>>)
  BY SMT DEF GoodOps
<1>7. \A a, b, c, d, e, f :
        /\ GoodOp(m, a) /\ GoodOp(m, b) /\ GoodOp(m, c) /\ GoodOp(m, d)
        /\ GoodOp(m, e) /\ GoodOp(m, f)
        => GoodOps(m, <<a, b, c, d, e, f>>)
  BY SMT DEF GoodOps
<1>8. \A a, b, c, d, e, f, g :
        /\ GoodOp(m, a) /\ GoodOp(m, b) /\ GoodOp(m, c) /\ GoodOp(m, d)
        /\ GoodOp(m, e) /\ GoodOp(m, f) /\ GoodOp(m, g)
        => GoodOps(m, <<a, b, c, d, e, f, g>>)
  BY SMT DEF GoodOps
<1>9. \A a, b, c, d, e, f, g, h, i :
        /\ GoodOp(m, a) /\ GoodOp(m, b) /\ GoodOp(m, c) /\ GoodOp(m, d)
        /\ GoodOp(m, e) /\ GoodOp(m, f) /\ GoodOp(m, g) /\ GoodOp(m, h)
        /\ GoodOp(m, i)
        => GoodOps(m, <<a, b, c, d, e, f, g, h, i>>)
  BY SMT DEF GoodOps
<1> QED
  BY <1>1, <1>2, <1>3, <1>4, <1>5, <1>6, <1>7, <1>8, <1>9

\* Operations made of good parts are good.
LEMMA GoodKinds ==
  ASSUME NEW m
  PROVE  /\ GoodIrqs(m, {})
         /\ \A dev, maps, irqs : AllApart(m, maps) /\ GoodIrqs(m, irqs) => GoodOp(m, Child(dev, maps, irqs))
         /\ \A maps, irqs : AllApart(m, maps) /\ GoodIrqs(m, irqs) => GoodOp(m, Wire(maps, irqs))
         /\ \A dev : GoodOp(m, Other("vcram", dev))
         /\ \A dev \in {"uart0", "uart0_legacy"} : GoodOp(m, Other("unmap", dev)) /\ GoodOp(m, Other("expire", dev))
         /\ \A dev \in {"peripherals", "soc"} : GoodOp(m, Other("sdbus", dev))
<1>1. GoodIrqs(m, {})
  BY DEF GoodIrqs
<1>2. ASSUME NEW dev, NEW maps, NEW irqs, AllApart(m, maps), GoodIrqs(m, irqs)
      PROVE  GoodOp(m, Child(dev, maps, irqs)) /\ GoodOp(m, Wire(maps, irqs))
  BY <1>2, SMT DEF GoodOp, Child, Wire
<1>3. /\ \A dev : GoodOp(m, Other("vcram", dev))
      /\ \A dev \in {"uart0", "uart0_legacy"} : GoodOp(m, Other("unmap", dev)) /\ GoodOp(m, Other("expire", dev))
      /\ \A dev \in {"peripherals", "soc"} : GoodOp(m, Other("sdbus", dev))
  BY <1>1, ApartTuples, SMT DEF GoodOp, Other
<1> QED
  BY <1>1, <1>2, <1>3

\* A concatenation of good operations is good.
LEMMA ConcatIsGood ==
  ASSUME NEW m, NEW s, NEW t, IsSequence(s), IsSequence(t), GoodOps(m, s), GoodOps(m, t)
  PROVE  IsSequence(s \o t) /\ GoodOps(m, s \o t)
<1> DEFINE S == {s[k] : k \in DOMAIN s} \cup {t[k] : k \in DOMAIN t}
<1>1. s \in Seq(S) /\ t \in Seq(S) /\ \A op \in S : GoodOp(m, op)
  BY SeqMonotonic DEF IsSequence, GoodOps
<1> DEFINE u == s \o t
<1>2. u \in Seq(S) /\ \A k \in DOMAIN u : u[k] \in S
  BY <1>1, ConcatProperties, LenProperties
<1>3. GoodOps(m, u)
  BY <1>1, <1>2, Zenon DEF GoodOps
<1> QED
  BY <1>3, ConcatIsSequence

\* What is mapped at an offset of the peripherals is apart from the RAM.
LEMMA PeripheralsAreApart ==
  ASSUME NEW m
  PROVE  /\ \A d \in DOMAIN Offset : Apart(m, InPeri(d))
         /\ \A name \in NoDevice : \A ofs, size \in Nat : ofs > 0 => Apart(m, Unimp(name, ofs, size))
         /\ \A mr \in {"fb_alias", "property"} : \A ofs \in Nat : ofs > 0 => Apart(m, At(mr, "mbox", ofs))
<1>1. {"peri", "mbox"} \subseteq Containers
  BY DEF Containers
<1>2. ASSUME NEW mr, NEW in \in {"peri", "mbox"}, NEW ofs \in Nat, ofs > 0, NEW size \in Nat, NEW prio \in Int
      PROVE  Listed(m, Place(mr, in, ofs, size, prio)) => Apart(m, Place(mr, in, ofs, size, prio))
  BY <1>1, <1>2, SMT DEF Apart, WellPlaced, Place
<1>3. \A d \in DOMAIN Offset : Offset[d] \in Nat /\ Offset[d] > 0
  BY SMT DEF Offset
<1>4. \A d \in DOMAIN Offset : Apart(m, InPeri(d))
  BY <1>2, <1>3, ListedPlaces, SMT DEF InPeri, At
<1>5. ASSUME NEW name \in NoDevice, NEW ofs \in Nat, NEW size \in Nat, ofs > 0
      PROVE  Apart(m, Unimp(name, ofs, size))
  <2>1. Unimp(name, ofs, size) = Place(name, "peri", ofs, size, -1000)
    BY DEF Unimp
  <2>2. Listed(m, Unimp(name, ofs, size))
    BY ListedPlaces, SMT
  <2> QED
    BY <1>2, <1>5, <2>1, <2>2, SMT
<1>6. \A mr \in {"fb_alias", "property"} : \A ofs \in Nat : ofs > 0 => Apart(m, At(mr, "mbox", ofs))
  BY <1>2, ListedPlaces, SMT DEF At
<1> QED
  BY <1>4, <1>5, <1>6

\* The peripherals all chips have: but for the first operation, which shows the
\* RAM to the GPU, all are good.
LEMMA GoodCommon ==
  ASSUME NEW m \in Machine
  PROVE  /\ GoodOps(m, CoreDevices) /\ GoodOps(m, Video) /\ GoodOps(m, StorageAndDma)
         /\ GoodOps(m, SerialBuses) /\ GoodOps(m, Unimplemented)
<1> DEFINE D == DOMAIN Offset
<1>1. {"cprman", "ic", "systmr", "uart0", "aux", "mboxes", "otp", "sdhci", "sdhost", "dma", "dma15",
       "dwc2", "powermgt", "spi0", "i2c0", "i2c1", "i2c2"} \subseteq D
  BY SMT DEF Offset
<1>2. /\ \A d \in D : AllApart(m, <<InPeri(d)>>)
      /\ \A d, e \in D : AllApart(m, <<InPeri(d), InPeri(e)>>)
      /\ \A d, e, f \in D : AllApart(m, <<InPeri(d), InPeri(e), InPeri(f)>>)
      /\ AllApart(m, <<>>)
  BY ApartTuples, PeripheralsAreApart
<1> HIDE DEF D
<1>3. GoodOps(m, CoreDevices)
  <2>1. /\ AllApart(m, <<InPeri("cprman"), InPeri("ic")>>) /\ AllApart(m, <<InPeri("systmr")>>)
        /\ AllApart(m, <<InPeri("uart0")>>) /\ AllApart(m, <<InPeri("aux")>>)
        /\ AllApart(m, <<InPeri("mboxes")>>)
    BY <1>1, <1>2, Zenon
  <2> QED
    BY <1>2, <2>1, GoodTuples, GoodKinds, CommonLines, Zenon DEF CoreDevices
<1>4. GoodOps(m, Video)
  <2>1. AllApart(m, <<At("fb_alias", "mbox", 1)>>) /\ AllApart(m, <<At("property", "mbox", 8)>>)
    <3>1. Apart(m, At("fb_alias", "mbox", 1)) /\ Apart(m, At("property", "mbox", 8))
      BY PeripheralsAreApart
    <3> QED
      BY <3>1, ApartTuples, Zenon
  <2>2. AllApart(m, <<InPeri("otp")>>)
    BY <1>1, <1>2, Zenon
  <2> QED
    BY <2>1, <2>2, GoodTuples, GoodKinds, CommonLines, Zenon DEF Video
<1>5. GoodOps(m, StorageAndDma)
  <2>1. /\ AllApart(m, <<InPeri("sdhci")>>) /\ AllApart(m, <<InPeri("sdhost")>>)
        /\ AllApart(m, <<InPeri("dma"), InPeri("dma15")>>)
    BY <1>1, <1>2, Zenon
  <2> QED
    BY <2>1, GoodTuples, GoodKinds, CommonLines, Zenon DEF StorageAndDma
<1>6. GoodOps(m, SerialBuses)
  <2>1. /\ AllApart(m, <<InPeri("dwc2")>>) /\ AllApart(m, <<InPeri("powermgt")>>)
        /\ AllApart(m, <<InPeri("spi0")>>)
        /\ AllApart(m, <<InPeri("i2c0"), InPeri("i2c1"), InPeri("i2c2")>>)
    BY <1>1, <1>2, Zenon
  <2> QED
    BY <1>2, <2>1, GoodTuples, GoodKinds, CommonLines, Zenon DEF SerialBuses
<1>7. GoodOps(m, Unimplemented)
  <2> DEFINE u == Unimplemented[1].maps
  <2>1. Unimplemented = <<Wire(u, {})>>
    BY SMT DEF Unimplemented, Wire
  <2>2. IsSequence(u)
    BY TupleIsSequence, SMT DEF Unimplemented, Wire
  <2>3. \A k \in DOMAIN u : /\ u[k] = Place(u[k].mr, u[k].in, u[k].at, u[k].size, u[k].prio)
                          /\ u[k].in = "peri" /\ u[k].at \in Nat /\ u[k].at > 0
                          /\ u[k].size \in Nat /\ u[k].prio = -1000 /\ u[k].mr \in NoDevice
    BY SMT DEF Unimplemented, Wire, Unimp, Place, NoDevice
  <2> HIDE DEF u
  <2>4. AllApart(m, u)
    <3>1. "peri" \in Containers
      BY DEF Containers
    <3> QED
      BY <2>2, <2>3, <3>1, SMT DEF AllApart, Apart, WellPlaced, Listed, InPeripherals
  <2> QED
    BY <2>1, <2>4, GoodTuples, GoodKinds, Zenon
<1> QED
  BY <1>3, <1>4, <1>5, <1>6, <1>7

\* The peripherals of the older chips are good.
LEMMA GoodOwn2835 ==
  ASSUME NEW m \in Machine, m # "raspi5b"
  PROVE  GoodOps(m, Own2835)
<1> DEFINE D == DOMAIN Offset
<1>1. {"rng", "thermal", "mphi", "gpio"} \subseteq D
  BY SMT DEF Offset
<1>2. (\A d \in D : AllApart(m, <<InPeri(d)>>)) /\ AllApart(m, <<>>)
  BY ApartTuples, PeripheralsAreApart
<1> HIDE DEF D
<1>3. /\ AllApart(m, <<InPeri("rng")>>) /\ AllApart(m, <<InPeri("thermal")>>)
      /\ AllApart(m, <<InPeri("mphi")>>) /\ AllApart(m, <<InPeri("gpio")>>)
  BY <1>1, <1>2, Zenon
<1>4. "peripherals" \in {"peripherals", "soc"}
  OBVIOUS
<1> QED
  BY <1>2, <1>3, <1>4, GoodTuples, GoodKinds, OldLines, Zenon DEF Own2835

\* The chips' own operations are good, on the older chips.
LEMMA GoodOldSoc ==
  ASSUME NEW m \in Machine, m # "raspi5b"
  PROVE  /\ GoodOps(m, SocBase(m))
         /\ Soc(m) = "bcm2835" => GoodOps(m, Soc2835)
         /\ Soc(m) # "bcm2835" => GoodOps(m, Soc2836)
<1>1. AllApart(m, <<>>) /\ "soc" \in {"peripherals", "soc"}
  BY ApartTuples
<1>2. GoodOps(m, SocBase(m))
  <2>1. Apart(m, Place("peri", "system", PeriBase(m), PeriSize(m), 1))
    <3>1. Listed(m, Place("peri", "system", PeriBase(m), PeriSize(m), 1))
      BY ListedPlaces, SMT DEF PeriOf
    <3> QED
      BY <3>1, Machines, SMT DEF Apart, WellPlaced, Place, PeriSize, FreeBelow, Containers
  <2>2. AllApart(m, <<Place("peri", "system", PeriBase(m), PeriSize(m), 1)>>)
    BY <2>1, ApartTuples, Zenon
  <2> QED
    BY <1>1, <2>2, GoodTuples, GoodKinds, Zenon DEF SocBase
<1>3. ASSUME Soc(m) = "bcm2835"
      PROVE  GoodOps(m, Soc2835)
  BY <1>1, <1>3, GoodTuples, GoodKinds, LinesOfSoc2835, Zenon DEF Soc2835
<1>4. ASSUME Soc(m) # "bcm2835"
      PROVE  GoodOps(m, Soc2836)
  <2>1. Soc(m) \in {"bcm2836", "bcm2837"}
    BY <1>4, Machines, SMT DEF Old
  <2>2. GoodOps(m, Control2836)
    <3> DEFINE control == At("control", "system", \h400000)
    <3>1. Apart(m, control)
      <4>1. Listed(m, control)
        BY ListedPlaces, SMT
      <4> QED
        BY <2>1, <4>1, Machines, SMT DEF Apart, WellPlaced, At, Place, Containers, FreeBelow
    <3>2. Control2836 = <<Child("control", <<control>>, {Irq("ic", 0, "control", 0), Irq("ic", 1, "control", 1)})>>
      BY SMT DEF Control2836
    <3> HIDE DEF control
    <3>3. AllApart(m, <<control>>)
      BY <3>1, ApartTuples, Zenon
    <3> QED
      BY <2>1, <3>2, <3>3, GoodTuples, GoodKinds, LinesOfSoc2836, Zenon
  <2>3. GoodOps(m, Cpus2836)
    <3>1. \A c \in 0 .. 3 : Cpu2836(c) = Child(Cpu(c), <<>>, Cpu2836(c).irqs)
      BY SMT DEF Cpu2836, Child
    <3>2. \A c \in 0 .. 3 : GoodOp(m, Cpu2836(c))
      BY <1>1, <2>1, <3>1, GoodKinds, LinesOfSoc2836, Zenon
    <3> QED
      BY <3>2, SMT DEF GoodOps, Cpus2836
  <2>4. IsSequence(Control2836) /\ IsSequence(Cpus2836)
    BY Soc2836IsSequences
  <2> QED
    BY <2>2, <2>3, <2>4, ConcatIsGood, Zenon DEF Soc2836
<1> QED
  BY <1>2, <1>3, <1>4

\* The peripherals of the Pi 5 are good.
LEMMA GoodOwn2712 ==
  LET m == "raspi5b" IN
  /\ GoodOps(m, Uart2712) /\ GoodOps(m, Storage2712) /\ IsSequence(Storage2712)
  /\ GoodOps(m, Gates2712) /\ GoodOps(m, Sensors2712)
<1> DEFINE m == "raspi5b"
           D == DOMAIN Offset
<1>1. FreeBelow(m) = UpperRamBase /\ m \in Machine /\ PeriSize(m) = \h100000
  BY Machines, SMT DEF FreeBelow, Machine, BoardRev, PeriSize
<1>2. (\A d \in D : AllApart(m, <<InPeri(d)>>)) /\ AllApart(m, <<>>)
  BY ApartTuples, PeripheralsAreApart
<1>3. {"emmc2", "thermal"} \subseteq D
  BY SMT DEF Offset
<1> HIDE DEF D
<1>4. AllApart(m, <<InPeri("emmc2")>>) /\ AllApart(m, <<InPeri("thermal")>>)
  BY <1>2, <1>3, Zenon
<1>5. GoodOps(m, Uart2712)
  <2> DEFINE uart == At("uart0", "peri", \h10010)
             alias == Place("peri_alias2712", "gpu", \h7e0000, PeriSize(m), 1)
  <2>1. Apart(m, uart) /\ Apart(m, alias)
    <3>1. "peri_alias2712" \in DOMAIN AliasOf
      BY SMT DEF AliasOf
    <3>2. Listed(m, uart)
      BY ListedPlaces2712, SMT
    <3>3. \A ofs, size, prio : Listed(m, Place("peri_alias2712", "gpu", ofs, size, prio))
      BY <3>1 DEF Listed, Place
    <3>4. Listed(m, alias)
      BY <3>3, SMT
    <3> QED
      BY <1>1, <3>2, <3>4, SMT DEF Apart, WellPlaced, At, Place, Containers, UpperRamBase
  <2>2. Uart2712 = <<Other("unmap", "uart0"), Wire(<<uart>>, {}), Wire(<<alias>>, {})>>
    BY SMT DEF Uart2712
  <2>3. "uart0" \in {"uart0", "uart0_legacy"}
    OBVIOUS
  <2> HIDE DEF uart, alias
  <2>4. AllApart(m, <<uart>>) /\ AllApart(m, <<alias>>)
    BY <2>1, ApartTuples, Zenon
  <2>5. GoodOp(m, Other("unmap", "uart0")) /\ GoodOp(m, Wire(<<uart>>, {})) /\ GoodOp(m, Wire(<<alias>>, {}))
    BY <2>3, <2>4, GoodKinds, Zenon
  <2> QED
    BY <2>2, <2>5, GoodTuples, Zenon
<1>6. GoodOps(m, Rp1) /\ IsSequence(Rp1)
  <2>1. /\ Rp1Offset.gpio = 0 /\ Rp1Offset.uart0 \in Nat \ {0} /\ Rp1Offset.uart1 \in Nat \ {0}
        /\ Rp1Offset.i2c \in Nat \ {0} /\ Rp1Offset.spi \in Nat \ {0}
        /\ Rp1Offset.sd0 \in Nat \ {0} /\ Rp1Offset.sd1 \in Nat \ {0}
    BY SMT DEF Rp1Offset
  <2>2. ASSUME NEW mr, NEW ofs \in Nat, NEW size \in Nat, ofs > 0 \/ mr = "rp1.gpio",
               InsideRp1(InRp1(mr, ofs, size))
        PROVE  AllApart(m, <<InRp1(mr, ofs, size)>>)
    <3>1. Height("rp1") = 2 /\ Height("rp1.gpio") = 1
      BY DEF Height, AliasOf
    <3>2. Apart(m, InRp1(mr, ofs, size))
      BY <2>2, <3>1, SMT DEF Apart, WellPlaced, InRp1, Place, Containers, Listed
    <3> QED
      BY <3>2, ApartTuples, Zenon
  <2>3. GoodOps(m, Rp1Blocks)
    <3> DEFINE gpio == InRp1("rp1.gpio", Rp1Offset.gpio, \h100)
               uart0 == InRp1("rp1.uart0", Rp1Offset.uart0, \h100)
               uart1 == InRp1("rp1.uart1", Rp1Offset.uart1, \h100)
               sd0 == InRp1("rp1.sd0", Rp1Offset.sd0, 1)
               sd1 == InRp1("rp1.sd1", Rp1Offset.sd1, 1)
    <3>1. AllApart(m, <<gpio>>) /\ AllApart(m, <<uart0>>) /\ AllApart(m, <<uart1>>)
      <4>1. InsideRp1(gpio) /\ InsideRp1(uart0) /\ InsideRp1(uart1)
        BY SMT DEF InsideRp1, InRp1, Place, Rp1Offset
      <4> QED
        BY <2>1, <2>2, <4>1
    <3>2. AllApart(m, <<sd0>>) /\ AllApart(m, <<sd1>>)
      <4>1. InsideRp1(sd0) /\ InsideRp1(sd1)
        BY SMT DEF InsideRp1, InRp1, Place, Rp1Offset
      <4> QED
        BY <2>1, <2>2, <4>1
    <3>3. Rp1Blocks = <<Wire(<<gpio>>, {}), Child("rp1.uart0", <<uart0>>, {}),
                        Child("rp1.uart1", <<uart1>>, {}), Child("rp1.sd0", <<sd0>>, {}),
                        Child("rp1.sd1", <<sd1>>, {})>>
      BY SMT DEF Rp1Blocks
    <3> HIDE DEF gpio, uart0, uart1, sd0, sd1
    <3> QED
      BY <3>1, <3>2, <3>3, GoodTuples, GoodKinds, Zenon
  <2>4. GoodOps(m, Rp1I2cs) /\ GoodOps(m, Rp1Spis)
    <3>1. ASSUME NEW k \in 1 .. 6
          PROVE  /\ AllApart(m, <<InRp1(Rp1I2c(k - 1), Rp1Offset.i2c + \h100 * (k - 1), \h100)>>)
                 /\ AllApart(m, <<InRp1(Rp1Spi(k - 1), Rp1Offset.spi + \h100 * (k - 1), \h100)>>)
      <4>1. Rp1I2c(k - 1) \in Stub /\ Rp1Spi(k - 1) \in Stub
        BY SMT DEF Rp1I2c, Rp1Spi, Stub
      <4>2. Rp1Offset.i2c = \h2000 /\ Rp1Offset.spi = \h3000
        BY SMT DEF Rp1Offset
      <4>3. /\ InsideRp1(InRp1(Rp1I2c(k - 1), Rp1Offset.i2c + \h100 * (k - 1), \h100))
            /\ InsideRp1(InRp1(Rp1Spi(k - 1), Rp1Offset.spi + \h100 * (k - 1), \h100))
        BY <4>1, <4>2, SMT DEF InsideRp1, InRp1, Place
      <4> QED
        BY <2>1, <2>2, <4>3
    <3>2. ASSUME NEW k \in 1 .. 6
          PROVE  GoodOp(m, Rp1I2cs[k]) /\ GoodOp(m, Rp1Spis[k])
      BY <3>1, GoodKinds DEF Rp1I2cs, Rp1Spis
    <3> QED
      BY <3>2 DEF GoodOps, Rp1I2cs, Rp1Spis
  <2>5. IsSequence(Rp1Blocks) /\ IsSequence(Rp1I2cs) /\ IsSequence(Rp1Spis)
    <3>1. Rp1I2cs = [k \in 1 .. 6 |-> Rp1I2cs[k]] /\ Rp1Spis = [k \in 1 .. 6 |-> Rp1Spis[k]]
      BY SMT DEF Rp1I2cs, Rp1Spis
    <3>2. IsSequence(Rp1Blocks)
      BY SMT DEF IsSequence, Rp1Blocks
    <3> QED
      BY <3>1, <3>2, FunctionIsSequence, Zenon
  <2> QED
    BY <2>3, <2>4, <2>5, ConcatIsGood, SMT DEF Rp1
<1>7. GoodOps(m, Storage2712) /\ IsSequence(Storage2712)
  <2> DEFINE rp1 == Place("rp1", "peri", \h4000, \h10000, 0)
             first == <<Child("emmc2", <<InPeri("emmc2")>>, {})>>
             last == <<Child("rp1", <<rp1>>, {}), Other("sdbus", "peripherals")>>
  <2>1. Apart(m, rp1)
    <3>1. Listed(m, rp1)
      BY ListedPlaces2712, SMT DEF Rp1Of
    <3> QED
      BY <3>1, SMT DEF Apart, WellPlaced, Place, Containers
  <2>2. Storage2712 = first \o Rp1 \o last
    BY SMT DEF Storage2712
  <2>3. "peripherals" \in {"peripherals", "soc"}
    OBVIOUS
  <2> HIDE DEF rp1
  <2>4. AllApart(m, <<rp1>>)
    BY <2>1, ApartTuples, Zenon
  <2>5. GoodOps(m, first) /\ GoodOps(m, last) /\ IsSequence(first) /\ IsSequence(last)
    BY <1>4, <2>3, <2>4, GoodTuples, GoodKinds, TupleIsSequence, Zenon
  <2> HIDE DEF first, last
  <2>6. GoodOps(m, first \o Rp1) /\ IsSequence(first \o Rp1)
    BY <1>6, <2>5, ConcatIsGood, Zenon
  <2> QED
    BY <2>2, <2>5, <2>6, ConcatIsGood, Zenon
<1>8. GoodOps(m, Gates2712)
  BY <1>2, GoodTuples, GoodKinds, Lines2712, Zenon DEF Gates2712
<1>9. GoodOps(m, Sensors2712)
  <2> DEFINE rng == At("rng", "peri", \h6100)
             rest == Sensors2712[3].maps
  <2>1. Apart(m, rng) /\ Apart(m, DmaRemap)
    <3>1. Listed(m, rng) /\ Listed(m, DmaRemap)
      BY ListedPlaces2712, SMT
    <3> QED
      BY <1>1, <3>1, SMT DEF Apart, WellPlaced, At, Place, Containers, DmaRemap, UpperRamBase, Height
  <2>2. Sensors2712 = <<Child("thermal", <<InPeri("thermal")>>, {}), Child("rng", <<rng>>, {}),
                        Wire(rest, {}), Wire(<<DmaRemap>>, {})>>
    BY SMT DEF Sensors2712, Wire
  <2>3. IsSequence(rest)
    BY TupleIsSequence, SMT DEF Sensors2712, Wire
  <2>4. \A k \in DOMAIN rest : /\ rest[k] = Place(rest[k].mr, rest[k].in, rest[k].at, rest[k].size, rest[k].prio)
                             /\ rest[k].in = "peri" /\ rest[k].at \in Nat /\ rest[k].at > 0
                             /\ rest[k].size \in Nat /\ rest[k].prio = -1000 /\ rest[k].mr \in NoDevice
    BY SMT DEF Sensors2712, Wire, Unimp, Place, NoDevice
  <2> HIDE DEF rng, rest
  <2>5. AllApart(m, rest)
    <3>1. "peri" \in Containers
      BY DEF Containers
    <3> QED
      BY <2>3, <2>4, <3>1, SMT DEF AllApart, Apart, WellPlaced, Listed, InPeripherals
  <2>6. AllApart(m, <<rng>>) /\ AllApart(m, <<DmaRemap>>)
    BY <2>1, ApartTuples, Zenon
  <2> QED
    BY <1>4, <2>2, <2>5, <2>6, GoodTuples, GoodKinds, Zenon
<1> QED
  BY <1>5, <1>7, <1>8, <1>9

\* The operations of the Pi 5's chip are good.
LEMMA GoodSoc2712 ==
  GoodOps("raspi5b", Soc2712)
<1> DEFINE m == "raspi5b"
<1>1. FreeBelow(m) = UpperRamBase /\ m \in Machine /\ PeriBase(m) = \h7c0000 /\ PeriSize(m) = \h100000
  BY Machines, SMT DEF FreeBelow, Machine, BoardRev, PeriSize
<1>2. AllApart(m, <<>>) /\ "soc" \in {"peripherals", "soc"}
  BY ApartTuples
<1>3. GoodOps(m, MemoryMap2712)
  <2> DEFINE scb == Place("scb", "system", \h107c0000, 2 ^ 30, 0)
             uart == Place("uart0_legacy", "system", \hfe2010, 1, 0)
             peri == Place("peri", "system", PeriBase(m), PeriSize(m), 1)
  <2>1. Apart(m, scb) /\ Apart(m, uart) /\ Apart(m, peri)
    <3>1. Listed(m, scb) /\ Listed(m, uart) /\ Listed(m, peri)
      BY ListedPlaces, ListedPlaces2712, SMT DEF PeriOf
    <3> QED
      BY <1>1, <3>1, SMT DEF Apart, WellPlaced, Place, Containers, UpperRamBase
  <2>2. MemoryMap2712 = <<Wire(<<scb, uart>>, {}), Other("expire", "uart0_legacy"), Wire(<<peri>>, {})>>
    BY SMT DEF MemoryMap2712
  <2>3. "uart0_legacy" \in {"uart0", "uart0_legacy"}
    OBVIOUS
  <2> HIDE DEF scb, uart, peri
  <2>4. AllApart(m, <<scb, uart>>) /\ AllApart(m, <<peri>>)
    BY <2>1, ApartTuples, Zenon
  <2> QED
    BY <2>2, <2>3, <2>4, GoodTuples, GoodKinds, Zenon
<1>4. GoodOps(m, Gic2712)
  <2> DEFINE blocks == [k \in 1 .. 4 |-> At(GicBlocks[k], "system", \h107fff90 + \h10 * (k - 1))]
  <2>1. blocks = [k \in 1 .. 4 |-> blocks[k]]
    OBVIOUS
  <2>2. \A k \in 1 .. 4 : Apart(m, blocks[k])
    <3>1. \A k \in 1 .. 4 : Listed(m, blocks[k])
      BY ListedPlaces2712, SMT
    <3> QED
      BY <1>1, <3>1, SMT DEF Apart, WellPlaced, At, Place, Containers, UpperRamBase
  <2>3. DOMAIN blocks = 1 .. 4
    OBVIOUS
  <2>4. Gic2712 = <<Child("gic", blocks, {})>>
    BY SMT DEF Gic2712
  <2> HIDE DEF blocks
  <2>5. AllApart(m, blocks)
    <3>1. IsSequence(blocks)
      <4>1. 4 \in Nat
        OBVIOUS
      <4> QED
        BY <2>1, <4>1, FunctionIsSequence, Zenon
    <3> QED
      BY <2>2, <2>3, <3>1, Zenon DEF AllApart
  <2> QED
    BY <2>4, <2>5, GoodTuples, GoodKinds, Zenon
<1>5. GoodOps(m, Cpus2712)
  <2>1. \A c \in 0 .. 3 : Cpu2712(c) = Child(Cpu(c), <<>>, Cpu2712(c).irqs)
    BY SMT DEF Cpu2712, Child
  <2>2. \A c \in 0 .. 3 : GoodOp(m, Cpu2712(c))
    BY <1>2, <2>1, GoodKinds, LinesOfSoc2712, Zenon
  <2> QED
    BY <2>2, SMT DEF GoodOps, Cpus2712
<1>6. GoodOps(m, Late2712)
  <2> DEFINE again == [Other("again", "dma_remap") EXCEPT !.maps = <<DmaRemap>>]
  <2>1. Apart(m, DmaRemap)
    <3>1. "system" \in Containers
      BY DEF Containers
    <3> QED
      BY <1>1, <3>1, ListedPlaces2712, SMT DEF Apart, WellPlaced, Place, DmaRemap, UpperRamBase
  <2>2. AllApart(m, <<DmaRemap>>)
    BY <2>1, ApartTuples, Zenon
  <2>3. GoodOp(m, again)
    BY <2>2, SMT DEF GoodOp, Other, GoodIrqs
  <2>4. Late2712 = <<Wire(<<>>, Shared2712), again>>
    BY Zenon DEF Late2712
  <2> HIDE DEF again
  <2> QED
    BY <1>2, <2>3, <2>4, GoodTuples, GoodKinds, LinesOfSoc2712, Zenon
<1>7. GoodOps(m, PassedOn2712)
  BY <1>2, GoodTuples, GoodKinds, Zenon DEF PassedOn2712
<1>8. /\ IsSequence(MemoryMap2712) /\ IsSequence(Gic2712) /\ IsSequence(Cpus2712)
      /\ IsSequence(Late2712) /\ IsSequence(PassedOn2712)
  BY Soc2712IsSequences
<1>9. GoodOps(m, MemoryMap2712 \o Gic2712) /\ IsSequence(MemoryMap2712 \o Gic2712)
  BY <1>3, <1>4, <1>8, ConcatIsGood, Zenon
<1> QED
  BY <1>3, <1>4, <1>5, <1>6, <1>7, <1>8, ConcatIsGood, SMT DEF Soc2712

\* The section common to all chips: first the RAM is shown to the GPU.
ShowsRamFirst(m, s) ==
  /\ IsSequence(s) /\ Len(s) > 0 /\ s[1] = GpuBus(m)[1]
  /\ \A k \in DOMAIN s : k # 1 => GoodOp(m, s[k])

\* It stays so when good operations follow.
LEMMA FollowedByGood ==
  ASSUME NEW m, NEW s, NEW t, ShowsRamFirst(m, s), IsSequence(t), GoodOps(m, t)
  PROVE  ShowsRamFirst(m, s \o t)
<1> DEFINE S == {s[k] : k \in DOMAIN s} \cup {t[k] : k \in DOMAIN t}
<1>1. s \in Seq(S) /\ t \in Seq(S) /\ IsSequence(s)
  BY SeqMonotonic DEF IsSequence, ShowsRamFirst
<1> DEFINE u == s \o t
<1>2. /\ Len(u) = Len(s) + Len(t) /\ DOMAIN u = 1 .. Len(u)
      /\ \A i \in 1 .. Len(s) + Len(t) : u[i] = IF i <= Len(s) THEN s[i] ELSE t[i - Len(s)]
  BY <1>1, ConcatProperties, LenProperties
<1>3. IsSequence(u)
  BY <1>1, ConcatIsSequence
<1> HIDE DEF u
<1>4. Len(s) \in Nat /\ Len(s) > 0 /\ Len(t) \in Nat /\ DOMAIN s = 1 .. Len(s) /\ DOMAIN t = 1 .. Len(t)
  BY <1>1 DEF IsSequence, ShowsRamFirst
<1>5. Len(u) > 0 /\ u[1] = s[1]
  BY <1>2, <1>4
<1>6. ASSUME NEW k \in DOMAIN u, k # 1
      PROVE  GoodOp(m, u[k])
  <2>1. \/ k \in DOMAIN s /\ u[k] = s[k]
        \/ k - Len(s) \in DOMAIN t /\ u[k] = t[k - Len(s)]
    BY <1>2, <1>4
  <2> QED
    BY <1>6, <2>1 DEF ShowsRamFirst, GoodOps
<1>7. ShowsRamFirst(m, u)
  BY <1>3, <1>5, <1>6, Zenon DEF ShowsRamFirst
<1> QED
  BY <1>7 DEF u

\* Every operation of a machine is good, but for the first of all.
LEMMA GoodProgram ==
  ASSUME NEW m \in Machine
  PROVE  /\ ShowsRamFirst(m, Program[m]["common"])
         /\ \A s \in {"own", "soc"} : IsSequence(Program[m][s]) /\ GoodOps(m, Program[m][s])
<1>1. ShowsRamFirst(m, Common(m))
  <2>1. ShowsRamFirst(m, GpuBus(m))
    BY PiecesAreSequences, SMT DEF ShowsRamFirst, GpuBus
  <2> QED
    BY <2>1, FollowedByGood, GoodCommon, PiecesAreSequences, Zenon DEF Common
<1>2. CASE m = "raspi5b"
  <2>1. GoodOps(m, Own2712)
    <3>1. GoodOps(m, Uart2712 \o Storage2712) /\ IsSequence(Uart2712 \o Storage2712)
      BY <1>2, GoodOwn2712, PiecesAreSequences, ConcatIsGood, Zenon
    <3>2. /\ GoodOps(m, Uart2712 \o Storage2712 \o Gates2712)
          /\ IsSequence(Uart2712 \o Storage2712 \o Gates2712)
      BY <1>2, <3>1, GoodOwn2712, PiecesAreSequences, ConcatIsGood, Zenon
    <3> QED
      BY <1>2, <3>2, GoodOwn2712, PiecesAreSequences, ConcatIsGood, Zenon DEF Own2712
  <2>2. Program[m]["common"] = Common(m) /\ Program[m]["own"] = Own2712 /\ Program[m]["soc"] = Soc2712
    BY <1>2, Machines, SMT DEF Program
  <2>3. \A s \in {"own", "soc"} : IsSequence(Program[m][s])
    BY SectionsAreSequences DEF Sections
  <2> QED
    BY <1>1, <1>2, <2>1, <2>2, <2>3, GoodSoc2712
<1>3. CASE m # "raspi5b"
  <2>1. Soc(m) # "bcm2712"
    BY <1>3, Machines
  <2>2. /\ Program[m]["common"] = Common(m) /\ Program[m]["own"] = Own2835
        /\ Program[m]["soc"] = SocBase(m) \o (IF Soc(m) = "bcm2835" THEN Soc2835 ELSE Soc2836)
    BY <2>1, SMT DEF Program
  <2>3. \A s \in {"own", "soc"} : IsSequence(Program[m][s])
    BY SectionsAreSequences DEF Sections
  <2>4. IsSequence(Soc2835) /\ IsSequence(Soc2836) /\ IsSequence(SocBase(m))
    BY PiecesAreSequences, Soc2836IsSequences
  <2>5. GoodOps(m, Program[m]["soc"])
    BY <1>3, <2>2, <2>4, GoodOldSoc, ConcatIsGood, Zenon
  <2> QED
    BY <1>1, <1>3, <2>2, <2>3, <2>5, GoodOwn2835
<1> QED
  BY <1>2, <1>3

-----------------------------------------------------------------------------
(* The map while the machine is made.                                        *)

RamOf(m) == Place("ram", "system", 0, RamSize(m), 0)
GpuRamOf(m) == Place("ram_alias0", "gpu", 0, RamSize(m), 0)

\* What a placement may be: the RAM, what the GPU sees of it, something taken
\* out, or something apart from both.
Sound(m, e) ==
  /\ WellPlaced(e)
  /\ e = RamOf(m) \/ e = GpuRamOf(m) \/ e.in = "none" \/ Apart(m, e)

\* What every operation of a machine does right, the first one included.
SoundOp(m, op) ==
  /\ IsSequence(op.maps) /\ \A k \in DOMAIN op.maps : Sound(m, op.maps[k])
  /\ GoodIrqs(m, op.irqs)
  /\ op.kind = "sdbus" => op.dev \in {"peripherals", "soc"}
  /\ op.kind \in {"unmap", "expire"} => op.dev \in {"uart0", "uart0_legacy"}
  /\ op.kind \in {"vcram", "unmap", "expire", "sdbus"} => op.irqs = {} /\ op.maps = <<>>

\* The RAM and the GPU's view of it are well placed.
LEMMA RamIsSound ==
  ASSUME NEW m \in Machine
  PROVE  /\ Sound(m, RamOf(m)) /\ Sound(m, GpuRamOf(m))
         /\ RamSize(m) \in Nat \ {0}
<1>1. RamSize(m) \in Nat \ {0}
  BY Machines, SMT
<1>2. Height("ram") < Height("system") /\ Height("ram_alias0") < Height("gpu")
  <2>1. Height("ram") = 0 /\ Height("system") = 5
    BY DEF Height, AliasOf
  <2>2. Height("ram_alias0") = 4 /\ Height("gpu") = 6
    BY DEF Height, AliasOf
  <2> QED
    BY <2>1, <2>2
<1>3. WellPlaced(RamOf(m)) /\ WellPlaced(GpuRamOf(m))
  BY <1>1, <1>2, SMT DEF WellPlaced, RamOf, GpuRamOf, Place
<1> QED
  BY <1>1, <1>3 DEF Sound

\* The operation that is next is sound, and the first shows the RAM to the GPU.
LEMMA OpIsSound ==
  ASSUME BuildInv, at > 0, Working
  PROVE  /\ SoundOp(machine, Op)
         /\ phase = "common" /\ at = 1 =>
              Op.kind = "wire" /\ \E k \in DOMAIN Op.maps : Op.maps[k] = GpuRamOf(machine)
<1>1. machine \in Machine /\ phase \in Sections /\ at \in Nat
  BY DEF BuildInv, Working
<1>2. IsSequence(Section)
  BY <1>1, SectionsAreSequences DEF Section
<1>3. at \in DOMAIN Section
  BY <1>1, <1>2 DEF Working, IsSequence
<1>4. CASE phase = "common" /\ at = 1
  <2> DEFINE first == GpuBus(machine)[1]
  <2>1. Op = first
    BY <1>1, <1>4, GoodProgram DEF Op, Section, ShowsRamFirst
  <2>2. /\ first.maps = <<Place("peri_alias", "gpu", \h7e0000, PeriSize(machine), 1),
                          GpuRamOf(machine),
                          Place("ram_alias1", "gpu", \h400000, RamSize(machine), 0),
                          Place("ram_alias2", "gpu", \h800000, RamSize(machine), 0),
                          Place("ram_alias3", "gpu", \hc00000, RamSize(machine), 0)>>
        /\ first.irqs = {} /\ first.kind = "wire"
    BY SMT DEF GpuBus, Wire, GpuRamOf
  <2> DEFINE maps == first.maps
  <2>3. IsSequence(maps)
    BY <2>2, TupleIsSequence, SMT
  <2>4. ASSUME NEW mr \in DOMAIN AliasOf, NEW at1 \in {\h400000, \h7e0000, \h800000, \hc00000},
               NEW size \in Nat, NEW prio \in {0, 1}
        PROVE  Sound(machine, Place(mr, "gpu", at1, size, prio))
    <3>1. "gpu" \in Containers
      BY DEF Containers
    <3>2. Listed(machine, Place(mr, "gpu", at1, size, prio))
      BY ListedPlaces, SMT
    <3> QED
      BY <3>1, <3>2, SMT DEF Sound, Apart, WellPlaced, Place, UpperRamBase
  <2>5. \A k \in DOMAIN maps : Sound(machine, maps[k])
    <3>1. PeriSize(machine) \in Nat
      BY SMT DEF PeriSize
    <3>2. RamSize(machine) \in Nat /\ Sound(machine, GpuRamOf(machine))
      BY <1>1, RamIsSound
    <3>3. DOMAIN maps = 1 .. 5
      BY <2>2, SMT
    <3>4. /\ maps[1] = Place("peri_alias", "gpu", \h7e0000, PeriSize(machine), 1)
          /\ maps[2] = GpuRamOf(machine)
          /\ maps[3] = Place("ram_alias1", "gpu", \h400000, RamSize(machine), 0)
          /\ maps[4] = Place("ram_alias2", "gpu", \h800000, RamSize(machine), 0)
          /\ maps[5] = Place("ram_alias3", "gpu", \hc00000, RamSize(machine), 0)
      BY <2>2, SMT
    <3>6. {"peri_alias", "ram_alias1", "ram_alias2", "ram_alias3"} \subseteq DOMAIN AliasOf
      BY SMT DEF AliasOf
    <3> HIDE DEF maps
    <3>5. Sound(machine, maps[1]) /\ Sound(machine, maps[3]) /\ Sound(machine, maps[4]) /\ Sound(machine, maps[5])
      BY <2>4, <3>1, <3>2, <3>4, <3>6, SMT
    <3> QED
      BY <3>2, <3>3, <3>4, <3>5, SMT
  <2>6. 2 \in DOMAIN maps /\ maps[2] = GpuRamOf(machine)
    BY <2>2, SMT
  <2> QED
    BY <2>1, <2>2, <2>3, <2>5, <2>6, SMT DEF SoundOp, GoodIrqs
<1>5. CASE ~(phase = "common" /\ at = 1)
  <2>1. GoodOp(machine, Op)
    BY <1>1, <1>3, <1>5, GoodProgram DEF Op, Section, ShowsRamFirst, GoodOps, Sections
  <2> QED
    BY <1>5, <2>1 DEF GoodOp, SoundOp, AllApart, Sound, Apart
<1> QED
  BY <1>4, <1>5

Holds(mp, e) == \E k \in DOMAIN mp : mp[k] = e

\* The map holds the RAM and, once the first operation is done, what the GPU
\* sees of it; everything else in it is sound.
MapInv ==
  /\ at > 0
  /\ IsSequence(map) /\ \A k \in DOMAIN map : Sound(machine, map[k])
  /\ phase \notin {"start", "failed"} => Holds(map, RamOf(machine))
  /\ phase \notin {"start", "failed"} /\ ~error /\ ~(phase = "common" /\ at = 1)
       => Holds(map, GpuRamOf(machine))

\* Placements that are added leave those that are there.
LEMMA MappedIsSound ==
  ASSUME NEW m, NEW s, NEW t, IsSequence(s), IsSequence(t),
         \A k \in DOMAIN s : Sound(m, s[k]), \A k \in DOMAIN t : Sound(m, t[k])
  PROVE  /\ IsSequence(s \o t) /\ \A k \in DOMAIN (s \o t) : Sound(m, (s \o t)[k])
         /\ \A e : Holds(s, e) \/ Holds(t, e) => Holds(s \o t, e)
<1> DEFINE S == {s[k] : k \in DOMAIN s} \cup {t[k] : k \in DOMAIN t}
           u == s \o t
<1>1. s \in Seq(S) /\ t \in Seq(S) /\ \A e \in S : Sound(m, e)
  BY SeqMonotonic DEF IsSequence
<1>2. \A k \in DOMAIN u : u[k] \in S
  BY <1>1, ConcatProperties, LenProperties
<1>3. /\ \A k \in DOMAIN s : \E j \in DOMAIN u : u[j] = s[k]
      /\ \A k \in DOMAIN t : \E j \in DOMAIN u : u[j] = t[k]
  BY ConcatHasElements
<1>4. IsSequence(u)
  BY ConcatIsSequence
<1> HIDE DEF u, S
<1>5. \A k \in DOMAIN u : Sound(m, u[k])
  BY <1>1, <1>2
<1>6. \A e : Holds(s, e) \/ Holds(t, e) => Holds(u, e)
  BY <1>3 DEF Holds
<1> QED
  BY <1>4, <1>5, <1>6 DEF u

\* The RAM is not what is taken out.
LEMMA TakenOutIsSound ==
  ASSUME NEW m, NEW mp, IsSequence(mp), \A k \in DOMAIN mp : Sound(m, mp[k]),
         NEW dev \in {"uart0", "uart0_legacy"}
  PROVE  /\ IsSequence(TakenOut(mp, dev))
         /\ \A k \in DOMAIN TakenOut(mp, dev) : Sound(m, TakenOut(mp, dev)[k])
         /\ \A e \in {RamOf(m), GpuRamOf(m)} : Holds(mp, e) => Holds(TakenOut(mp, dev), e)
<1> DEFINE u == TakenOut(mp, dev)
<1>1. DOMAIN u = DOMAIN mp /\ u = [k \in DOMAIN mp |-> u[k]]
  BY DEF TakenOut
<1>2. \A k \in DOMAIN mp : u[k] = IF mp[k].mr = dev THEN [mp[k] EXCEPT !.in = "none"] ELSE mp[k]
  BY DEF TakenOut
<1> HIDE DEF u
<1>3. IsSequence(u)
  <2>1. Len(mp) \in Nat /\ DOMAIN mp = 1 .. Len(mp)
    BY DEF IsSequence
  <2>2. u = [k \in 1 .. Len(mp) |-> u[k]]
    BY <1>1, <2>1, Zenon
  <2> QED
    BY <2>1, <2>2, FunctionIsSequence, Zenon
<1>4. ASSUME NEW k \in DOMAIN mp
      PROVE  Sound(m, u[k])
  <2>1. CASE mp[k].mr # dev
    BY <1>2, <2>1
  <2>2. CASE mp[k].mr = dev
    <3> DEFINE e == mp[k]
               f == [e EXCEPT !.in = "none"]
    <3>1. u[k] = f
      BY <1>2, <2>2
    <3>2. WellPlaced(e)
      BY DEF Sound
    <3>3. f = Place(e.mr, "none", e.at, e.size, e.prio)
      BY <3>2 DEF WellPlaced, Place
    <3>4. WellPlaced(f) /\ f.in = "none"
      BY <3>2, <3>3 DEF WellPlaced, Place
    <3> QED
      BY <3>1, <3>4 DEF Sound
  <2> QED
    BY <2>1, <2>2
<1>5. ASSUME NEW e \in {RamOf(m), GpuRamOf(m)}, Holds(mp, e)
      PROVE  Holds(u, e)
  <2>1. PICK k \in DOMAIN mp : mp[k] = e
    BY <1>5 DEF Holds
  <2>2. e.mr # dev
    BY DEF RamOf, GpuRamOf, Place
  <2> QED
    BY <1>1, <1>2, <2>1, <2>2 DEF Holds
<1> QED
  BY <1>1, <1>3, <1>4, <1>5 DEF u

\* An operation that maps something keeps the map sound, and the first of all
\* shows the RAM to the GPU.
LEMMA MapKeepsMapInv ==
  ASSUME BuildInv, MapInv, Working, MapAndConnect, Advance, error' = error
  PROVE  MapInv'
<1>1. phase \in Sections /\ phase' = phase /\ machine' = machine /\ at' = at + 1 /\ at \in Nat /\ at > 0
  BY DEF Working, Advance, BuildInv, MapInv
<1>2. map' = map \o Op.maps
  BY DEF MapAndConnect
<1>3. SoundOp(machine, Op)
  BY <1>1, OpIsSound
<1>4. /\ IsSequence(map') /\ \A k \in DOMAIN map' : Sound(machine, map'[k])
      /\ \A e : Holds(map, e) \/ Holds(Op.maps, e) => Holds(map', e)
  <2>1. IsSequence(map) /\ \A k \in DOMAIN map : Sound(machine, map[k])
    BY DEF MapInv
  <2>2. IsSequence(Op.maps) /\ \A k \in DOMAIN Op.maps : Sound(machine, Op.maps[k])
    BY <1>3 DEF SoundOp
  <2> QED
    BY <1>2, <2>1, <2>2, MappedIsSound
<1>5. phase \notin {"start", "failed"}
  BY <1>1 DEF Sections
<1>6. ~error => Holds(map, GpuRamOf(machine)) \/ Holds(Op.maps, GpuRamOf(machine))
  BY <1>1, <1>5, OpIsSound DEF MapInv, Holds
<1> QED
  BY <1>1, <1>4, <1>5, <1>6 DEF MapInv

\* Taking something out keeps the map sound; it is never the first operation.
LEMMA TakeOutKeepsMapInv ==
  ASSUME BuildInv, MapInv, Working, Advance, error' = error,
         Op.kind \in {"unmap", "expire"}, map' = TakenOut(map, Op.dev)
  PROVE  MapInv'
<1>1. phase \in Sections /\ phase' = phase /\ machine' = machine /\ at' = at + 1 /\ at \in Nat /\ at > 0
  BY DEF Working, Advance, BuildInv, MapInv
<1>2. Op.dev \in {"uart0", "uart0_legacy"} /\ ~(phase = "common" /\ at = 1)
  BY <1>1, OpIsSound DEF SoundOp
<1>3. IsSequence(map) /\ \A k \in DOMAIN map : Sound(machine, map[k])
  BY DEF MapInv
<1>4. /\ IsSequence(map') /\ \A k \in DOMAIN map' : Sound(machine, map'[k])
      /\ \A e \in {RamOf(machine), GpuRamOf(machine)} : Holds(map, e) => Holds(map', e)
  BY <1>2, <1>3, TakenOutIsSound
<1> QED
  BY <1>1, <1>2, <1>4 DEF MapInv

\* What leaves the map alone keeps it sound, unless it passes over the first
\* operation.
LEMMA SameMapKeepsMapInv ==
  ASSUME MapInv, UNCHANGED <<machine, map>>, at' \in Nat \ {0}, error => error',
         phase = "start" => phase' \in {"start", "failed"}, phase = "failed" => phase' = "failed",
         phase = "common" /\ at = 1 /\ ~error' =>
           phase' \in {"start", "failed"} \/ (phase' = "common" /\ at' = 1)
  PROVE  MapInv'
BY DEF MapInv

\* The first section is not empty, and no error is set before its first child.
THEOREM MapInvariant == Spec => []MapInv
<1>1. Init => MapInv
  <2>1. Init => phase = "start" /\ at = 1 /\ map = <<>>
    BY Zenon DEF Init
  <2> QED
    BY <2>1, TupleIsSequence DEF MapInv
<1>2. BuildInv /\ MapInv /\ [Next]_vars => MapInv'
  <2> SUFFICES ASSUME BuildInv, MapInv, [Next]_vars PROVE MapInv'
    OBVIOUS
  <2>1. at \in Nat \ {0}
    BY DEF BuildInv, MapInv
  <2>2. ASSUME Working
        PROVE  /\ phase \in Sections /\ phase \notin {"start", "failed"}
               /\ Len(Section) + 1 \in Nat \ {0}
    <3>1. phase \in Sections
      BY <2>2 DEF Working
    <3>2. IsSequence(Section)
      BY <3>1, SectionsAreSequences DEF Section, BuildInv
    <3> QED
      BY <3>1, <3>2 DEF Sections, IsSequence
  <2>3. ASSUME Working, Advance, error' = error, map' = map, Op.kind # "wire"
        PROVE  MapInv'
    <3>1. ~(phase = "common" /\ at = 1)
      BY <2>1, <2>3, OpIsSound
    <3> QED
      BY <2>1, <2>2, <2>3, <3>1, SameMapKeepsMapInv DEF Advance
  <2>4. ASSUME Working, Skip, error', map' = map
        PROVE  MapInv'
    BY <2>2, <2>4, SameMapKeepsMapInv DEF Skip
  <2>5. CASE RamIsRight
    <3>1. machine \in Machine /\ machine' = machine /\ at = 1 /\ at' = 1 /\ phase' = "common"
          /\ map' = <<RamOf(machine)>>
      BY <2>5 DEF RamIsRight, BuildInv, RamOf
    <3>2. IsSequence(map') /\ DOMAIN map' = 1 .. 1 /\ map'[1] = RamOf(machine)
      BY <3>1, TupleIsSequence, SMT
    <3>3. Sound(machine, RamOf(machine))
      BY <3>1, RamIsSound
    <3>4. (\A k \in DOMAIN map' : Sound(machine, map'[k])) /\ Holds(map', RamOf(machine))
      BY <3>2, <3>3 DEF Holds
    <3> QED
      BY <3>1, <3>2, <3>4 DEF MapInv
  <2>6. CASE WireUp
    BY <2>6, MapKeepsMapInv DEF WireUp
  <2>7. CASE Realize
    BY <2>7, MapKeepsMapInv DEF Realize
  <2>8. CASE RealizeFails
    BY <2>4, <2>8 DEF RealizeFails, built
  <2>9. CASE RealizeUnderError
    BY <2>4, <2>9 DEF RealizeUnderError
  <2>10. CASE PlaceVcram
    BY <2>3, <2>10 DEF PlaceVcram
  <2>11. CASE Unmap
    BY <2>11, TakeOutKeepsMapInv DEF Unmap
  <2>12. CASE Expire
    <3>1. CASE map' = map
      BY <2>3, <2>12, <3>1 DEF Expire
    <3>2. CASE map' = TakenOut(map, Op.dev)
      BY <2>12, <3>2, TakeOutKeepsMapInv DEF Expire
    <3> QED
      BY <2>12, <3>1, <3>2 DEF Expire
  <2>13. CASE PassSdBus
    BY <2>3, <2>13 DEF PassSdBus
  <2>14. CASE EndSection
    <3>1. UNCHANGED <<machine, map, error>> /\ at' = 1 /\ phase \in Sections
      BY <2>14 DEF EndSection, built
    <3>2. ~(phase = "common" /\ at = 1)
      <4>1. phase = "common" => Len(Section) > 0 /\ IsSequence(Section)
        BY GoodProgram DEF Section, ShowsRamFirst, BuildInv
      <4> QED
        BY <2>14, <4>1 DEF EndSection, IsSequence
    <3> QED
      BY <3>1, <3>2, SameMapKeepsMapInv DEF Sections
  <2>15. CASE phase' = "failed" /\ UNCHANGED <<machine, map, error, at>>
    BY <2>1, <2>15, SameMapKeepsMapInv
  <2>16. CASE phase \in {"card", "boot"} /\ UNCHANGED <<machine, map, error, at>>
    BY <2>1, <2>16, SameMapKeepsMapInv
  <2>17. CASE UNCHANGED vars
    BY <2>1, <2>17, SameMapKeepsMapInv DEF vars, built
  <2> QED
    BY <2>5, <2>6, <2>7, <2>8, <2>9, <2>10, <2>11, <2>12, <2>13, <2>14, <2>15, <2>16, <2>17
       DEF Next, built, RamIsWrong, UnmapAsserts, Lost, SdCard, BootFirmware, FirmwareFails,
           BootKernel, Stopped
<1> QED
  BY <1>1, <1>2, BuildInvariant, PTL DEF Spec

-----------------------------------------------------------------------------
(* What the guest is told is RAM, and what the framebuffer shows.            *)

\* Where all that is placed at an address leads to the same point, that point
\* answers.
LEMMA OneThingAnswers ==
  ASSUME NEW mp, WellFormed(mp), NEW f, NEW r \in Containers \ DOMAIN AliasOf, NEW a, NEW q,
         f[q] # Hole, Hits(mp, r, a) # {},
         \A i \in Hits(mp, r, a) : <<mp[i].mr, a - mp[i].at>> = q
  PROVE  Shows(mp, f, r, a) = f[q]
<1> DEFINE below(i) == f[<<mp[i].mr, a - mp[i].at>>]
           solid == {i \in Hits(mp, r, a) : below(i) # Hole}
           top == CHOOSE i \in solid : \A j \in solid : OnTop(mp, i, j)
<1>1. solid = Hits(mp, r, a) /\ solid # {} /\ solid \subseteq DOMAIN mp
  BY DEF Hits
<1>2. Shows(mp, f, r, a) = IF solid = {} THEN Hole ELSE below(top)
  BY Zenon DEF Shows
<1>3. top \in solid
  <2> HIDE DEF solid
  <2>1. \E i \in solid : \A j \in solid : OnTop(mp, i, j)
    BY <1>1, SomeIsOnTop
  <2> QED
    BY <2>1
<1> QED
  BY <1>1, <1>2, <1>3

\* The map is well formed.
LEMMA MapIsWellFormed ==
  ASSUME MapInv
  PROVE  WellFormed(map)
BY DEF MapInv, WellFormed, Sound

\* Below the peripherals the RAM answers the CPU.
LEMMA RamAnswers ==
  ASSUME machine \in Machine, MapInv, phase \notin {"start", "failed"},
         NEW a \in Nat, a < RamSize(machine), a < FreeBelow(machine)
  PROVE  Answer(map, "system", a) = <<"ram", a>>
<1>1. WellFormed(map)
  BY MapIsWellFormed
<1>2. PICK f : /\ \A p \in Points(map, "system", a) : f[p] = Shows(map, f, p[1], p[2])
               /\ Answer(map, "system", a) = f[<<"system", a>>]
  BY <1>1, AnswerIsShown
<1>3. <<"ram", a>> \in Points(map, "system", a) /\ <<"system", a>> \in Points(map, "system", a)
  <2>1. "ram" \in {AliasOf[s] : s \in DOMAIN AliasOf}
    BY SMT DEF AliasOf
  <2> QED
    BY <2>1 DEF Points, Named
<1>4. /\ "ram" \notin Containers \cup DOMAIN AliasOf
      /\ "system" \in Containers \ DOMAIN AliasOf
  BY SMT DEF Containers, AliasOf
<1>5. f[<<"ram", a>>] = <<"ram", a>> /\ <<"ram", a>> # Hole
  BY <1>2, <1>3, <1>4 DEF Shows, Hole
<1>6. \A i \in Hits(map, "system", a) : <<map[i].mr, a - map[i].at>> = <<"ram", a>>
  <2> SUFFICES ASSUME NEW i \in Hits(map, "system", a)
               PROVE  map[i] = RamOf(machine)
    BY DEF RamOf, Place
  <2>1. i \in DOMAIN map /\ map[i].in = "system" /\ map[i].at <= a
    BY DEF Hits
  <2>2. Sound(machine, map[i])
    BY <2>1 DEF MapInv
  <2>3. map[i].at \in Nat /\ FreeBelow(machine) \in Nat
    BY <2>2, Machines, SMT DEF Sound, WellPlaced, FreeBelow, UpperRamBase
  <2> QED
    BY <2>1, <2>2, <2>3 DEF Sound, Apart, GpuRamOf, Place
<1>7. Hits(map, "system", a) # {}
  <2>1. PICK k \in DOMAIN map : map[k] = RamOf(machine)
    BY DEF MapInv, Holds
  <2>2. RamSize(machine) \in Nat
    BY RamIsSound
  <2>3. k \in Hits(map, "system", a)
    BY <2>1, <2>2 DEF Hits, RamOf, Place
  <2> QED
    BY <2>3
<1>8. Shows(map, f, "system", a) = f[<<"ram", a>>]
  BY <1>1, <1>4, <1>5, <1>6, <1>7, OneThingAnswers
<1>9. f[<<"system", a>>] = Shows(map, f, "system", a)
  BY <1>2, <1>3
<1> QED
  BY <1>2, <1>5, <1>8, <1>9

\* Below the upper RAM the RAM answers the GPU.
LEMMA RamAnswersGpu ==
  ASSUME machine \in Machine, MapInv, phase = "ready", ~error,
         NEW a \in Nat, a < RamSize(machine), a < UpperRamBase
  PROVE  Answer(map, "gpu", a) = <<"ram", a>>
<1>1. WellFormed(map)
  BY MapIsWellFormed
<1>2. PICK f : /\ \A p \in Points(map, "gpu", a) : f[p] = Shows(map, f, p[1], p[2])
               /\ Answer(map, "gpu", a) = f[<<"gpu", a>>]
  BY <1>1, AnswerIsShown
<1>3. PICK k \in DOMAIN map : map[k] = GpuRamOf(machine)
  BY DEF MapInv, Holds
<1>4. /\ <<"ram", a>> \in Points(map, "gpu", a) /\ <<"gpu", a>> \in Points(map, "gpu", a)
      /\ <<"ram_alias0", a>> \in Points(map, "gpu", a)
  <2>1. "ram" \in {AliasOf[s] : s \in DOMAIN AliasOf}
    BY SMT DEF AliasOf
  <2>2. "ram_alias0" = map[k].mr
    BY <1>3 DEF GpuRamOf, Place
  <2> QED
    BY <2>1, <2>2 DEF Points, Named
<1>5. /\ "ram" \notin Containers \cup DOMAIN AliasOf
      /\ "gpu" \in Containers \ DOMAIN AliasOf
      /\ "ram_alias0" \in DOMAIN AliasOf /\ AliasOf["ram_alias0"] = "ram"
  BY SMT DEF Containers, AliasOf
<1>6. f[<<"ram", a>>] = <<"ram", a>> /\ <<"ram", a>> # Hole
  BY <1>2, <1>4, <1>5 DEF Shows, Hole
<1>7. f[<<"ram_alias0", a>>] = <<"ram", a>>
  BY <1>2, <1>4, <1>5, <1>6 DEF Shows
<1>8. \A i \in Hits(map, "gpu", a) : <<map[i].mr, a - map[i].at>> = <<"ram_alias0", a>>
  <2> SUFFICES ASSUME NEW i \in Hits(map, "gpu", a)
               PROVE  map[i] = GpuRamOf(machine)
    BY DEF GpuRamOf, Place
  <2>1. i \in DOMAIN map /\ map[i].in = "gpu" /\ map[i].at <= a
    BY DEF Hits
  <2>2. Sound(machine, map[i])
    BY <2>1 DEF MapInv
  <2>3. map[i].at \in Nat /\ UpperRamBase \in Nat
    BY <2>2, Sizes DEF Sound, WellPlaced
  <2> QED
    BY <2>1, <2>2, <2>3 DEF Sound, Apart, RamOf, Place
<1>9. Hits(map, "gpu", a) # {}
  <2>1. RamSize(machine) \in Nat
    BY RamIsSound
  <2>2. k \in Hits(map, "gpu", a)
    BY <1>3, <2>1 DEF Hits, GpuRamOf, Place
  <2> QED
    BY <2>2
<1>10. Shows(map, f, "gpu", a) = f[<<"ram_alias0", a>>]
  BY <1>1, <1>5, <1>6, <1>7, <1>8, <1>9, OneThingAnswers
<1>11. f[<<"gpu", a>>] = Shows(map, f, "gpu", a)
  BY <1>2, <1>4
<1> QED
  BY <1>2, <1>7, <1>10, <1>11

\* The RAM for booting ends below the peripherals, on the boards whose RAM
\* reaches up to them if the video memory takes what they cover.
LEMMA RamToldIsFree ==
  ASSUME machine \in Machine, VcramInv, phase = "ready",
         RamSize(machine) = UpperRamBase => vcram.size >= \h10000
  PROVE  boot.ram <= RamSize(machine) /\ boot.ram <= FreeBelow(machine)
<1>1. /\ vcram.base \in Nat /\ vcram.size \in Nat /\ vcram.size < UpperRamBase
      /\ vcram.base <= UpperRamBase - vcram.size
      /\ vcram.size <= RamSize(machine) => vcram.base <= RamSize(machine) - vcram.size
      /\ boot.ram \in Int /\ boot.ram <= vcram.base
  BY Sizes DEF VcramInv
<1>2. UpperRamBase = \h400000
  BY DEF UpperRamBase
<1>3. CASE Soc(machine) = "bcm2712"
  BY <1>1, <1>2, <1>3, Machines, SMT DEF FreeBelow
<1>4. CASE Soc(machine) = "bcm2835"
  BY <1>1, <1>2, <1>4, Machines, SMT DEF FreeBelow
<1>5. CASE Soc(machine) \notin {"bcm2712", "bcm2835"}
  BY <1>1, <1>2, <1>5, Machines, SMT DEF FreeBelow
<1> QED
  BY <1>3, <1>4, <1>5

\* What the guest is told is RAM answers as RAM, at every address of it, for
\* every size of video memory.
THEOREM ToldRamIsRam == Spec => []RamToldIsRam
<1>1. BuildInv /\ MapInv /\ VcramInv => RamToldIsRam
  <2> SUFFICES ASSUME BuildInv, MapInv, VcramInv, phase = "ready",
                      RamSize(machine) = UpperRamBase => vcram.size >= \h10000,
                      NEW range \in Told, NEW a \in EdgesIn(range)
               PROVE  Answer(map, "system", a) = <<"ram", a>>
    BY DEF RamToldIsRam
  <2>1. range = <<0, boot.ram>> /\ boot.ram \in Int
    BY DEF Told, VcramInv
  <2>2. 0 <= a /\ a < boot.ram
    BY <2>1 DEF EdgesIn
  <2>3. a \in Nat
    <3>1. \A k \in DOMAIN map : map[k].at \in Nat /\ map[k].size \in Nat
      BY DEF MapInv, Sound, WellPlaced
    <3>2. a \in Int
      BY <2>1, <3>1, SMT DEF EdgesIn
    <3> QED
      BY <2>2, <3>2
  <2>4. machine \in Machine /\ boot.ram <= RamSize(machine) /\ boot.ram <= FreeBelow(machine)
    BY RamToldIsFree DEF BuildInv
  <2>5. RamSize(machine) \in Nat /\ FreeBelow(machine) \in Nat
    BY <2>4, Machines, SMT DEF FreeBelow, UpperRamBase
  <2> QED
    BY <2>1, <2>2, <2>3, <2>4, <2>5, RamAnswers
<1> QED
  BY <1>1, BuildInvariant, MapInvariant, VcramInvariant, PTL

\* What the framebuffer shows is RAM the guest was not given, for every size of
\* video memory that the RAM has room for.
THEOREM VideoMemoryApart == Spec => []VideoMemoryIsApart
<1>1. BuildInv /\ MapInv /\ VcramInv /\ VideoIsNotTold => VideoMemoryIsApart
  <2> SUFFICES ASSUME BuildInv, MapInv, VcramInv, phase = "ready",
                      vcram.size \in 1 .. RamSize(machine), NEW a \in VideoMemory
               PROVE  Answer(map, "gpu", a) = <<"ram", a>>
    BY DEF VideoMemoryIsApart
  <2>1. machine \in Machine /\ ~error /\ RamSize(machine) \in Nat
    BY RamIsSound DEF BuildInv, Past
  <2>2. /\ vcram.base \in Nat /\ vcram.size \in Nat
        /\ vcram.base <= UpperRamBase - vcram.size /\ vcram.base <= RamSize(machine) - vcram.size
    BY <2>1, Sizes DEF VcramInv
  <2>3. a \in Nat /\ a < RamSize(machine) /\ a < UpperRamBase
    BY <2>1, <2>2, Sizes DEF VideoMemory
  <2> QED
    BY <2>1, <2>3, RamAnswersGpu
<1> QED
  BY <1>1, BuildInvariant, MapInvariant, VcramInvariant, VideoMemoryIsNotTold, PTL

-----------------------------------------------------------------------------
(* The interrupts while the machine is made.                                 *)

\* Section s has an operation that connects output o.
Connects(s, o) == \E k \in DOMAIN s : \E c \in s[k].irqs : c[1] = o

\* A concatenation connects what its parts connect.
LEMMA ConcatConnects ==
  ASSUME NEW s, NEW t, NEW o, IsSequence(s), IsSequence(t), Connects(s, o) \/ Connects(t, o)
  PROVE  Connects(s \o t, o)
<1> DEFINE u == s \o t
<1>1. /\ \A k \in DOMAIN s : \E j \in DOMAIN u : u[j] = s[k]
      /\ \A k \in DOMAIN t : \E j \in DOMAIN u : u[j] = t[k]
  BY ConcatHasElements
<1> HIDE DEF u
<1>2. Connects(u, o)
  BY <1>1, SMT DEF Connects
<1> QED
  BY <1>2 DEF u

\* What passes interrupts on is connected, and on the Pi 5 the chip connects
\* the outputs that are moved.
LEMMA Connections ==
  ASSUME NEW m \in Machine
  PROVE  /\ Connects(Program[m]["common"], <<"mboxes", 0>>)
         /\ Connects(Program[m]["common"], <<"orgated_i2c", 0>>)
         /\ m # "raspi5b" => /\ Connects(Program[m]["own"], <<"orgated_dma", 0>>)
                             /\ Connects(Program[m]["soc"], <<"ic", 0>>)
         /\ Soc(m) \in {"bcm2836", "bcm2837"} => Connects(Program[m]["soc"], <<"control", 0>>)
         /\ m = "raspi5b" => /\ Connects(Program[m]["own"], <<"mmc_irq_orgate", 0>>)
                             /\ Connects(Program[m]["own"], <<"emmc_irq_orgate", 0>>)
                             /\ Connects(Program[m]["soc"], <<"gic", 0>>)
                             /\ Connects(Program[m]["soc"], <<"aux", 0>>)
                             /\ Connects(Program[m]["soc"], <<"sdhost", 0>>)
<1>1. Connects(Program[m]["common"], <<"mboxes", 0>>) /\ Connects(Program[m]["common"], <<"orgated_i2c", 0>>)
  <2>1. Connects(CoreDevices, <<"mboxes", 0>>)
    <3>1. 6 \in DOMAIN CoreDevices /\ ToIc("mboxes", 0, IcLine.mailbox) \in CoreDevices[6].irqs
      BY SMT DEF CoreDevices, Child
    <3> QED
      BY <3>1 DEF Connects, ToIc, Irq
  <2>2. Connects(SerialBuses, <<"orgated_i2c", 0>>)
    <3>1. 9 \in DOMAIN SerialBuses /\ ToIc("orgated_i2c", 0, IcLine.i2c) \in SerialBuses[9].irqs
      BY SMT DEF SerialBuses, Child
    <3> QED
      BY <3>1 DEF Connects, ToIc, Irq
  <2>3. Program[m]["common"] = Common(m)
    BY SMT DEF Program
  <2> QED
    BY <2>1, <2>2, <2>3, ConcatConnects, PiecesAreSequences, ConcatIsSequence DEF Common
<1>2. ASSUME m # "raspi5b"
      PROVE  Connects(Program[m]["own"], <<"orgated_dma", 0>>)
  <2>1. Program[m]["own"] = Own2835
    BY <1>2, Machines, SMT DEF Program
  <2>2. 2 \in DOMAIN Own2835 /\ ToIc("orgated_dma", 0, IcLine.dma + 11) \in Own2835[2].irqs
    BY SMT DEF Own2835, Child
  <2> QED
    BY <2>1, <2>2 DEF Connects, ToIc, Irq
<1>3. ASSUME m # "raspi5b"
      PROVE  /\ Connects(Program[m]["soc"], <<"ic", 0>>)
             /\ Soc(m) # "bcm2835" => Connects(Program[m]["soc"], <<"control", 0>>)
  <2>1. Program[m]["soc"] = SocBase(m) \o (IF Soc(m) = "bcm2835" THEN Soc2835 ELSE Soc2836)
    BY <1>3, Machines, SMT DEF Program
  <2>2. Connects(Soc2835, <<"ic", 0>>)
    <3>1. 1 \in DOMAIN Soc2835 /\ Irq("ic", 0, Cpu(0), 0) \in Soc2835[1].irqs
      BY SMT DEF Soc2835, Child
    <3> QED
      BY <3>1 DEF Connects, Irq
  <2>3. Connects(Soc2836, <<"ic", 0>>) /\ Connects(Soc2836, <<"control", 0>>)
    <3>1. Connects(Control2836, <<"ic", 0>>)
      <4>1. 1 \in DOMAIN Control2836 /\ Irq("ic", 0, "control", 0) \in Control2836[1].irqs
        BY SMT DEF Control2836, Child
      <4> QED
        BY <4>1 DEF Connects, Irq
    <3>2. Connects(Cpus2836, <<"control", 0>>)
      <4>1. 1 \in DOMAIN Cpus2836 /\ Cpus2836[1] = Cpu2836(0)
        BY DEF Cpus2836
      <4>2. Irq("control", 0, Cpu(0), 0) \in Cpu2836(0).irqs
        BY SMT DEF Cpu2836, Child
      <4> QED
        BY <4>1, <4>2 DEF Connects, Irq
    <3>3. IsSequence(Control2836) /\ IsSequence(Cpus2836)
      BY Soc2836IsSequences
    <3> QED
      BY <3>1, <3>2, <3>3, ConcatConnects DEF Soc2836
  <2> QED
    BY <2>1, <2>2, <2>3, ConcatConnects, PiecesAreSequences, Soc2836IsSequences
<1>4. ASSUME m = "raspi5b"
      PROVE  /\ Connects(Program[m]["own"], <<"mmc_irq_orgate", 0>>)
             /\ Connects(Program[m]["own"], <<"emmc_irq_orgate", 0>>)
  <2>1. Connects(Gates2712, <<"mmc_irq_orgate", 0>>) /\ Connects(Gates2712, <<"emmc_irq_orgate", 0>>)
    <3>1. /\ 1 \in DOMAIN Gates2712 /\ ToIc("mmc_irq_orgate", 0, IcLine.arasan) \in Gates2712[1].irqs
          /\ 2 \in DOMAIN Gates2712 /\ ToIc("emmc_irq_orgate", 0, IcLine.sdio) \in Gates2712[2].irqs
      BY SMT DEF Gates2712, Child
    <3> QED
      BY <3>1 DEF Connects, ToIc, Irq
  <2>2. Program[m]["own"] = Own2712
    BY <1>4, Machines, SMT DEF Program
  <2> QED
    BY <2>1, <2>2, GoodOwn2712, ConcatConnects, PiecesAreSequences, ConcatIsSequence DEF Own2712
<1>5. ASSUME m = "raspi5b"
      PROVE  /\ Connects(Program[m]["soc"], <<"gic", 0>>)
             /\ Connects(Program[m]["soc"], <<"aux", 0>>)
             /\ Connects(Program[m]["soc"], <<"sdhost", 0>>)
  <2>1. Connects(Cpus2712, <<"gic", 0>>)
    <3>1. 1 \in DOMAIN Cpus2712 /\ Cpus2712[1] = Cpu2712(0)
      BY DEF Cpus2712
    <3>2. Irq("gic", 0, Cpu(0), 0) \in Cpu2712(0).irqs
      <4>1. 0 \in 0 .. 3 /\ Irq("gic", 0 + 4 * 0, Cpu(0), 0) = Irq("gic", 0, Cpu(0), 0)
        OBVIOUS
      <4> QED
        BY <4>1, SMT DEF Cpu2712, Child
    <3> QED
      BY <3>1, <3>2 DEF Connects, Irq
  <2>2. Connects(Late2712, <<"aux", 0>>) /\ Connects(Late2712, <<"sdhost", 0>>)
    <3>1. 1 \in DOMAIN Late2712 /\ Late2712[1].irqs = Shared2712
      BY SMT DEF Late2712, Wire
    <3>2. ToGic("aux", 0, SpiOfHeader.uart1) \in Shared2712 /\ ToGic("sdhost", 0, Spi.sdhost) \in Shared2712
      BY Zenon DEF Shared2712
    <3> QED
      BY <3>1, <3>2 DEF Connects, ToGic, Irq
  <2>3. Program[m]["soc"] = Soc2712
    BY <1>5, Machines, SMT DEF Program
  <2> QED
    BY <2>1, <2>2, <2>3, ConcatConnects, Soc2712IsSequences, ConcatIsSequence DEF Soc2712
<1> QED
  BY <1>1, <1>2, <1>3, <1>4, <1>5, Machines

\* Output o is connected, and if the chip did it then not to the old controller.
Connected(s, o) == o \in DOMAIN line /\ (s = "soc" => line[o][1] # "ic")

\* The first operations of section s have connected what they connect.
ConnectedUpTo(s, upto) ==
  \A k \in DOMAIN Program[machine][s] :
    k < upto => \A c \in Program[machine][s][k].irqs : Connected(s, c[1])

AllConnected(s) == \A o : Connects(Program[machine][s], o) => Connected(s, o)

\* Every connection is a good one, and what was to be connected is.
LineInv ==
  /\ at > 0
  /\ \A o \in DOMAIN line : GoodLine(machine, o, line[o])
  /\ ~error => \A s \in Sections : Ended(s) => AllConnected(s)
  /\ ~error /\ phase \in Sections => ConnectedUpTo(phase, at)

\* The chip connects nothing to the old controller.
LEMMA ChipAvoidsIc ==
  ASSUME NEW m \in Machine, NEW k \in DOMAIN Program[m]["soc"], NEW c \in Program[m]["soc"][k].irqs
  PROVE  c[2][1] # "ic"
<1> DEFINE IsDeaf(op) == \A d \in op.irqs : d[2][1] # "ic"
           AllAreDeaf(s) == \A j \in DOMAIN s : IsDeaf(s[j])
<1>1. ASSUME NEW s, NEW t, IsSequence(s), IsSequence(t), AllAreDeaf(s), AllAreDeaf(t)
      PROVE  IsSequence(s \o t) /\ AllAreDeaf(s \o t)
  <2> DEFINE S == {s[j] : j \in DOMAIN s} \cup {t[j] : j \in DOMAIN t}
             u == s \o t
  <2>1. s \in Seq(S) /\ t \in Seq(S) /\ \A op \in S : IsDeaf(op)
    BY <1>1, SeqMonotonic DEF IsSequence
  <2>2. \A j \in DOMAIN u : u[j] \in S
    BY <2>1, ConcatProperties, LenProperties
  <2>3. IsSequence(u)
    BY <1>1, ConcatIsSequence
  <2> HIDE DEF u, S, IsDeaf
  <2>4. AllAreDeaf(u)
    BY <2>1, <2>2
  <2> QED
    BY <2>3, <2>4 DEF u
<1>2. Cpu(0) = "cpu0" /\ \A i \in 0 .. 3 : Cpu(i) \in CpuNames
  BY Cpus DEF CpuNames
<1>3. CASE m = "raspi5b"
  <2>1. Program[m]["soc"] = Soc2712
    BY <1>3, Machines, SMT DEF Program
  <2>2. AllAreDeaf(MemoryMap2712)
    BY SMT DEF MemoryMap2712, Wire, Other
  <2>3. AllAreDeaf(Gic2712)
    BY SMT DEF Gic2712, Child
  <2>4. AllAreDeaf(Cpus2712)
    <3>1. ASSUME NEW i \in 0 .. 3
          PROVE  IsDeaf(Cpu2712(i))
      BY <1>2, SMT DEF Cpu2712, Child, Irq, CpuNames
    <3> HIDE DEF IsDeaf
    <3> QED
      BY <3>1 DEF Cpus2712
  <2>5. AllAreDeaf(Late2712)
    <3>1. \A d \in Shared2712 : d[2][1] = "gic"
      BY SMT DEF Shared2712, ToGic, Irq
    <3> QED
      BY <3>1, SMT DEF Late2712, Wire, Other
  <2>6. AllAreDeaf(PassedOn2712)
    BY SMT DEF PassedOn2712, Other
  <2> HIDE DEF AllAreDeaf
  <2>7. AllAreDeaf(Soc2712)
    BY <1>1, <2>2, <2>3, <2>4, <2>5, <2>6, Soc2712IsSequences DEF Soc2712
  <2> QED
    BY <2>1, <2>7 DEF AllAreDeaf
<1>4. CASE m # "raspi5b"
  <2>1. Program[m]["soc"] = SocBase(m) \o (IF Soc(m) = "bcm2835" THEN Soc2835 ELSE Soc2836)
    BY <1>4, Machines, SMT DEF Program
  <2>2. AllAreDeaf(SocBase(m))
    BY SMT DEF SocBase, Wire, Other
  <2>3. AllAreDeaf(Soc2835)
    BY <1>2, SMT DEF Soc2835, Child, Irq
  <2>4. AllAreDeaf(Control2836)
    BY SMT DEF Control2836, Child, Irq
  <2>5. AllAreDeaf(Cpus2836)
    <3>1. ASSUME NEW i \in 0 .. 3
          PROVE  IsDeaf(Cpu2836(i))
      BY <1>2, SMT DEF Cpu2836, Child, Irq, CpuNames
    <3> HIDE DEF IsDeaf
    <3> QED
      BY <3>1 DEF Cpus2836
  <2> HIDE DEF AllAreDeaf
  <2>6. AllAreDeaf(Soc2836)
    BY <1>1, <2>4, <2>5, Soc2836IsSequences DEF Soc2836
  <2>7. AllAreDeaf(Program[m]["soc"])
    BY <1>1, <2>1, <2>2, <2>3, <2>6, PiecesAreSequences, Soc2836IsSequences
  <2> QED
    BY <2>7 DEF AllAreDeaf
<1> QED
  BY <1>3, <1>4

\* An operation that connects something keeps the connections good.
LEMMA ConnectKeepsLineInv ==
  ASSUME BuildInv, LineInv, Working, Connect(Op.irqs), Advance, error' = error
  PROVE  LineInv'
<1> DEFINE irqs == Op.irqs
           new == {c[1] : c \in irqs}
<1>1. /\ phase \in Sections /\ phase' = phase /\ machine' = machine /\ at' = at + 1
      /\ at \in Nat /\ at > 0 /\ machine \in Machine
  BY DEF Working, Advance, BuildInv, LineInv
<1>2. IsSequence(Section) /\ Section = Program[machine][phase]
  BY <1>1, SectionsAreSequences DEF Section
<1>3. at \in DOMAIN Section /\ Op = Section[at]
  BY <1>1, <1>2 DEF Working, IsSequence, Op
<1>4. \A c \in irqs : GoodLine(machine, c[1], c[2])
  BY <1>1, OpIsSound DEF SoundOp, GoodIrqs
<1>5. phase = "soc" => \A c \in irqs : c[2][1] # "ic"
  BY <1>1, <1>2, <1>3, ChipAvoidsIc
<1>6. DOMAIN line' = DOMAIN line \cup new
  BY DEF Connect
<1>7. ASSUME NEW o \in DOMAIN line \cup new
      PROVE  \/ o \in new /\ \E c \in irqs : c[1] = o /\ line'[o] = c[2]
             \/ o \in DOMAIN line \ new /\ line'[o] = line[o]
  <2>1. line'[o] = IF \E c \in irqs : c[1] = o THEN (CHOOSE c \in irqs : c[1] = o)[2] ELSE line[o]
    BY <1>7 DEF Connect
  <2>2. CASE o \in new
    <3>1. \E c \in irqs : c[1] = o
      BY <2>2
    <3> HIDE DEF irqs
    <3>2. line'[o] = (CHOOSE c \in irqs : c[1] = o)[2] /\ (CHOOSE c \in irqs : c[1] = o) \in irqs
          /\ (CHOOSE c \in irqs : c[1] = o)[1] = o
      BY <2>1, <3>1 DEF irqs
    <3> QED
      BY <2>2, <3>2
  <2>3. CASE o \notin new
    BY <1>7, <2>1, <2>3
  <2> QED
    BY <2>2, <2>3
<1>8. \A o \in DOMAIN line' : GoodLine(machine, o, line'[o])
  BY <1>4, <1>6, <1>7 DEF LineInv
<1>9. ASSUME NEW o, Connected(phase, o)
      PROVE  Connected(phase, o)'
  BY <1>1, <1>5, <1>6, <1>7, <1>9 DEF Connected
<1>10. \A o \in new : Connected(phase, o)'
  BY <1>1, <1>5, <1>6, <1>7 DEF Connected
<1> HIDE DEF irqs
<1>11. ASSUME ~error
       PROVE  ConnectedUpTo(phase, at)'
  <2> SUFFICES ASSUME NEW k \in DOMAIN Section, k < at + 1, NEW c \in Section[k].irqs
               PROVE  Connected(phase, c[1])'
    BY <1>1, <1>2 DEF ConnectedUpTo
  <2>1. k < at \/ k = at
    BY <1>1, <1>2 DEF IsSequence
  <2>2. CASE k < at
    BY <1>1, <1>2, <1>9, <1>11, <2>2 DEF LineInv, ConnectedUpTo
  <2>3. CASE k = at
    BY <1>3, <1>10, <2>3 DEF irqs
  <2> QED
    BY <2>1, <2>2, <2>3
<1>12. ASSUME ~error
       PROVE  \A s \in Sections : Ended(s)' => AllConnected(s)'
  <2> SUFFICES ASSUME NEW s \in Sections, Ended(s), NEW o, Connects(Program[machine][s], o)
               PROVE  Connected(s, o)'
    BY <1>1 DEF Ended, AllConnected
  <2>1. Connected(s, o)
    BY <1>12 DEF LineInv, AllConnected
  <2>2. s # "soc"
    BY <1>1 DEF Ended, Past, Sections
  <2> QED
    BY <1>6, <2>1, <2>2 DEF Connected
<1> QED
  BY <1>1, <1>8, <1>11, <1>12 DEF LineInv

\* A section ends when all it connects is connected.
LEMMA EndSectionKeepsLineInv ==
  ASSUME BuildInv, LineInv, EndSection
  PROVE  LineInv'
<1>1. phase \in Sections /\ at > Len(Section) /\ at' = 1
      /\ UNCHANGED <<machine, error, line>> /\ machine \in Machine /\ at \in Nat
  BY DEF EndSection, built, BuildInv
<1>2. IsSequence(Section) /\ Section = Program[machine][phase]
  BY <1>1, SectionsAreSequences DEF Section
<1>3. ASSUME ~error PROVE AllConnected(phase)
  <2> SUFFICES ASSUME NEW k \in DOMAIN Section, NEW c \in Section[k].irqs
               PROVE  Connected(phase, c[1])
    BY <1>2 DEF AllConnected, Connects
  <2>1. k < at
    BY <1>1, <1>2 DEF IsSequence
  <2> QED
    BY <1>1, <1>2, <1>3, <2>1 DEF LineInv, ConnectedUpTo
<1>4. \/ error /\ phase # "common" /\ phase' = "failed"
      \/ phase = "common" /\ phase' = "own"
      \/ ~error /\ phase = "own" /\ phase' = "soc"
      \/ ~error /\ phase = "soc" /\ phase' = "card"
  BY <1>1 DEF EndSection, Return, Sections
<1>5. \A s : AllConnected(s)' <=> AllConnected(s)
  BY <1>1 DEF AllConnected, Connected
<1>6. ASSUME ~error PROVE \A s \in Sections : Ended(s)' => AllConnected(s)'
  <2>1. \A s \in Sections : Ended(s)' => Ended(s) \/ s = phase
    BY <1>4, <1>6 DEF Ended, Past, Sections
  <2> QED
    BY <1>3, <1>5, <1>6, <2>1 DEF LineInv
<1>7. ASSUME phase' \in Sections PROVE ConnectedUpTo(phase, at)'
  <2>1. IsSequence(Program[machine'][phase'])
    BY <1>1, <1>7, SectionsAreSequences
  <2> QED
    BY <1>1, <2>1 DEF ConnectedUpTo, IsSequence
<1> QED
  BY <1>1, <1>6, <1>7 DEF LineInv

\* What leaves the connections alone keeps them good, if it goes on with the
\* next operation only when this one connects nothing.
LEMMA SameLinesKeepLineInv ==
  ASSUME BuildInv, LineInv, UNCHANGED <<machine, line>>, at' \in Nat \ {0}, error => error',
         ~error' => \/ phase' \notin Sections /\ (phase' \in Past => phase \in Past)
                    \/ phase' = phase /\ at' = at
                    \/ Working /\ Advance /\ Op.irqs = {}
  PROVE  LineInv'
<1>1. \A s : AllConnected(s)' <=> AllConnected(s)
  BY DEF AllConnected, Connected
<1>2. ASSUME ~error' PROVE \A s \in Sections : Ended(s)' => AllConnected(s)'
  <2>1. \A s \in Sections : Ended(s)' => Ended(s)
    BY <1>2 DEF Ended, Past, Sections, Advance
  <2> QED
    BY <1>1, <1>2, <2>1 DEF LineInv
<1>3. ASSUME ~error', phase' \in Sections PROVE ConnectedUpTo(phase, at)'
  <2>1. CASE phase' = phase /\ at' = at
    BY <1>3, <2>1 DEF LineInv, ConnectedUpTo, Connected
  <2>2. CASE Working /\ Advance /\ Op.irqs = {}
    <3>1. IsSequence(Section) /\ Section = Program[machine][phase] /\ phase' = phase /\ at' = at + 1
      BY <1>3, <2>2, SectionsAreSequences DEF Section, BuildInv, Working, Advance
    <3>2. \A k \in DOMAIN Section : k < at + 1 => k < at \/ k = at
      BY <3>1 DEF BuildInv, IsSequence
    <3>3. ConnectedUpTo(phase, at)
      BY <1>3, <3>1 DEF LineInv
    <3>4. \A k \in DOMAIN Section : k < at' => \A c \in Section[k].irqs : Connected(phase, c[1])
      BY <2>2, <3>1, <3>2, <3>3 DEF ConnectedUpTo, Op
    <3> QED
      BY <3>1, <3>4 DEF ConnectedUpTo, Connected
  <2> QED
    BY <1>3, <2>1, <2>2
<1> QED
  BY <1>2, <1>3 DEF LineInv

\* While no error is set, all that the operations so far connect is connected,
\* and only as the drivers above say.
THEOREM LineInvariant == Spec => []LineInv
<1>1. Init => LineInv
  <2>1. Init => phase = "start" /\ at = 1 /\ line = <<>>
    BY Zenon DEF Init
  <2> QED
    BY <2>1 DEF LineInv, Ended, Past, Sections
<1>2. BuildInv /\ LineInv /\ [Next]_vars => LineInv'
  <2> SUFFICES ASSUME BuildInv, LineInv, [Next]_vars PROVE LineInv'
    OBVIOUS
  <2>1. at \in Nat \ {0} /\ machine \in Machine
    BY DEF BuildInv, LineInv
  <2>2. ASSUME Working, Advance, error' = error, line' = line,
               Op.kind \in {"vcram", "unmap", "expire", "sdbus"}
        PROVE  LineInv'
    <3>1. Op.irqs = {}
      BY <2>1, <2>2, OpIsSound DEF SoundOp
    <3> QED
      BY <2>1, <2>2, <3>1, SameLinesKeepLineInv DEF Advance
  <2>3. ASSUME Working, Skip, error', line' = line
        PROVE  LineInv'
    <3>1. IsSequence(Section) /\ phase \in Sections
      BY <2>1, <2>3, SectionsAreSequences DEF Section, Working
    <3> QED
      BY <2>3, <3>1, SameLinesKeepLineInv DEF Skip, IsSequence
  <2>4. CASE RamIsRight
    <3>1. machine' = machine /\ line' = line /\ error' = error /\ at' = at /\ at = 1
          /\ phase = "start" /\ phase' = "common"
      BY <2>4 DEF RamIsRight, BuildInv
    <3>2. IsSequence(Program[machine]["common"])
      BY <2>1, SectionsAreSequences DEF Sections
    <3>3. ConnectedUpTo("common", 1)'
      BY <3>1, <3>2 DEF ConnectedUpTo, IsSequence
    <3> QED
      BY <2>1, <3>1, <3>3 DEF LineInv, Ended, Past, Sections
  <2>5. CASE WireUp
    BY <2>5, ConnectKeepsLineInv DEF WireUp, MapAndConnect
  <2>6. CASE Realize
    BY <2>6, ConnectKeepsLineInv DEF Realize, MapAndConnect
  <2>7. CASE RealizeFails
    BY <2>3, <2>7 DEF RealizeFails, built
  <2>8. CASE RealizeUnderError
    BY <2>3, <2>8 DEF RealizeUnderError
  <2>9. CASE PlaceVcram
    BY <2>2, <2>9 DEF PlaceVcram
  <2>10. CASE Unmap
    BY <2>2, <2>10 DEF Unmap
  <2>11. CASE Expire
    BY <2>2, <2>11 DEF Expire
  <2>12. CASE PassSdBus
    BY <2>2, <2>12 DEF PassSdBus
  <2>13. CASE EndSection
    BY <2>13, EndSectionKeepsLineInv
  <2>14. CASE phase' = "failed" /\ UNCHANGED <<machine, line, error, at>>
    BY <2>1, <2>14, SameLinesKeepLineInv DEF Past, Sections
  <2>15. CASE phase \in {"card", "boot"} /\ phase' \in Past /\ UNCHANGED <<machine, line, error, at>>
    BY <2>1, <2>15, SameLinesKeepLineInv DEF Past, Sections
  <2>16. CASE UNCHANGED vars
    BY <2>1, <2>16, SameLinesKeepLineInv DEF vars, built
  <2> QED
    BY <2>4, <2>5, <2>6, <2>7, <2>8, <2>9, <2>10, <2>11, <2>12, <2>13, <2>14, <2>15, <2>16
       DEF Next, built, Past, RamIsWrong, UnmapAsserts, Lost, SdCard, BootFirmware, FirmwareFails,
           BootKernel, Stopped
<1> QED
  BY <1>1, <1>2, BuildInvariant, PTL DEF Spec

\* An input of a complete machine has the driver above.
LEMMA CompleteHasDrivers ==
  ASSUME BuildInv, LineInv, Complete, NEW o \in DOMAIN line
  PROVE  o = Driver(machine, line[o][1], line[o][2])
<1>1. GoodLine(machine, o, line[o])
  BY DEF LineInv
<1>2. machine \in Machine /\ AllConnected("soc")
  BY DEF BuildInv, LineInv, Complete, Ended, Past, Sections
<1>3. ASSUME Moved(machine, o)
      PROVE  line[o][1] # "ic"
  <2>1. Connects(Program[machine]["soc"], o)
    BY <1>2, <1>3, Connections DEF Moved
  <2> QED
    BY <1>2, <2>1 DEF AllConnected, Connected
<1> QED
  BY <1>1, <1>3 DEF GoodLine

\* No interrupt input of a complete machine has two sources, not even on the
\* Pi 5, where the outputs of AUX and the SD host move to the GIC and leave
\* their inputs to others.
THEOREM InputsHaveOneSource == Spec => []OneSourcePerInput
<1>1. BuildInv /\ LineInv => OneSourcePerInput
  <2> SUFFICES ASSUME BuildInv, LineInv, Complete, NEW o1 \in DOMAIN line, NEW o2 \in DOMAIN line,
                      line[o1] = line[o2]
               PROVE  o1 = o2
    BY DEF OneSourcePerInput
  <2>1. o1 = Driver(machine, line[o1][1], line[o1][2])
    BY CompleteHasDrivers
  <2>2. o2 = Driver(machine, line[o2][1], line[o2][2])
    BY CompleteHasDrivers
  <2> QED
    BY <2>1, <2>2, Zenon
<1> QED
  BY <1>1, BuildInvariant, LineInvariant, PTL

\* One more relay.
Step(X) == X \cup {o[1] : o \in {p \in DOMAIN line : p[1] \in Relay /\ line[p][1] \in X}}

\* What gets to the ends by way of at most four relays, step by step.
LEMMA ReachingInSteps ==
  ASSUME NEW ends
  PROVE  Reaching(ends, 4) = Step(Step(Step(Step(ends))))
<1> DEFINE Back(f, k) ==
             IF k = 0 THEN ends
             ELSE f[k - 1] \cup {o[1] : o \in {p \in DOMAIN line : p[1] \in Relay /\ line[p][1] \in f[k - 1]}}
           IsReach(f) == f = [k \in 0 .. 4 |-> Back(f, k)]
           reach == CHOOSE f : IsReach(f)
<1>1. Reaching(ends, 4) = reach[4]
  BY Zenon DEF Reaching
<1>2. \E f : IsReach(f)
  <2> DEFINE E1 == Step(ends)
             E2 == Step(E1)
             E3 == Step(E2)
             E4 == Step(E3)
             f == [k \in 0 .. 4 |-> IF k = 0 THEN ends ELSE IF k = 1 THEN E1 ELSE IF k = 2 THEN E2
                                    ELSE IF k = 3 THEN E3 ELSE E4]
  <2>1. f[0] = ends /\ f[1] = E1 /\ f[2] = E2 /\ f[3] = E3 /\ f[4] = E4
    OBVIOUS
  <2>2. \A k \in 0 .. 4 : Back(f, k) = IF k = 0 THEN ends ELSE Step(f[k - 1])
    BY DEF Step
  <2>3. E1 = Step(ends) /\ E2 = Step(E1) /\ E3 = Step(E2) /\ E4 = Step(E3)
    OBVIOUS
  <2>4. f = [k \in 0 .. 4 |-> f[k]]
    OBVIOUS
  <2> HIDE DEF f, Back, E1, E2, E3, E4
  <2>5. \A k \in 0 .. 4 : f[k] = Back(f, k)
    <3>1. Back(f, 0) = f[0]
      BY <2>1, <2>2
    <3>2. Back(f, 1) = f[1]
      BY <2>1, <2>2, <2>3
    <3>3. Back(f, 2) = f[2]
      BY <2>1, <2>2, <2>3
    <3>4. Back(f, 3) = f[3]
      BY <2>1, <2>2, <2>3
    <3>5. Back(f, 4) = f[4]
      BY <2>1, <2>2, <2>3
    <3>6. \A k \in 0 .. 4 : k = 0 \/ k = 1 \/ k = 2 \/ k = 3 \/ k = 4
      OBVIOUS
    <3> QED
      BY <3>1, <3>2, <3>3, <3>4, <3>5, <3>6
  <2>6. f = [k \in 0 .. 4 |-> Back(f, k)]
    BY <2>4, <2>5
  <2> QED
    BY <2>6
<1>3. IsReach(reach)
  <2> HIDE DEF IsReach
  <2> QED
    BY <1>2
<1>4. \A k \in 0 .. 4 : reach[k] = Back(reach, k)
  <2> HIDE DEF Back, reach
  <2> QED
    BY <1>3
<1>5. reach[0] = ends /\ \A k \in 0 .. 3 : reach[k + 1] = Step(reach[k])
  <2> HIDE DEF reach
  <2> QED
    BY <1>4 DEF Step
<1> HIDE DEF reach
<1>6. reach[4] = Step(reach[3]) /\ reach[3] = Step(reach[2]) /\ reach[2] = Step(reach[1]) /\ reach[1] = Step(ends)
  <2>1. \A k \in {0, 1, 2, 3} : reach[k + 1] = Step(reach[k])
    BY <1>5
  <2> QED
    BY <1>5, <2>1
<1> QED
  BY <1>1, <1>6

\* A relay is reached one step after what its output drives.
LEMMA RelayIsReached ==
  ASSUME NEW X, NEW r \in Relay, <<r, 0>> \in DOMAIN line, line[<<r, 0>>][1] \in X
  PROVE  r \in Step(X)
<1>1. <<r, 0>> \in {p \in DOMAIN line : p[1] \in Relay /\ line[p][1] \in X} /\ <<r, 0>>[1] = r
  OBVIOUS
<1>2. r \in {o[1] : o \in {p \in DOMAIN line : p[1] \in Relay /\ line[p][1] \in X}}
  BY <1>1
<1> QED
  BY <1>2 DEF Step

\* In a complete machine what passes interrupts on is connected, and where it
\* sends them is known.
LEMMA RelaysAreConnected ==
  ASSUME BuildInv, LineInv, Complete
  PROVE  /\ \A r \in (Receivers(machine) \ CpuNames) \ (IF machine = "raspi5b" THEN {"ic"} ELSE {}) :
              /\ r \in Relay /\ <<r, 0>> \in DOMAIN line
              /\ line[<<r, 0>>][1] \in Receivers(machine)
              /\ Onward(machine, <<r, 0>>, line[<<r, 0>>][1])
         /\ \A o \in DOMAIN line : line[o][1] \in Receivers(machine)
<1>1. machine \in Machine /\ \A s \in Sections : AllConnected(s)
  BY DEF BuildInv, LineInv, Complete, Ended, Past
<1>2. \A o \in DOMAIN line : line[o][1] \in Receivers(machine) /\ Onward(machine, o, line[o][1])
  BY DEF LineInv, GoodLine
<1>3. \A o : \A s \in Sections : Connects(Program[machine][s], o) => o \in DOMAIN line
  BY <1>1 DEF AllConnected, Connected
<1>4. ASSUME NEW r \in (Receivers(machine) \ CpuNames) \ (IF machine = "raspi5b" THEN {"ic"} ELSE {})
      PROVE  r \in Relay /\ \E s \in Sections : Connects(Program[machine][s], <<r, 0>>)
  <2>1. CASE machine = "raspi5b"
    <3>1. r \in {"mboxes", "orgated_i2c", "gic", "mmc_irq_orgate", "emmc_irq_orgate"}
      BY <1>1, <2>1, Machines DEF Receivers
    <3> QED
      BY <1>1, <2>1, <3>1, Connections DEF Sections, Relay
  <2>2. CASE machine # "raspi5b"
    <3>1. /\ r \in {"ic", "mboxes", "orgated_i2c", "orgated_dma", "control"}
          /\ r = "control" => Soc(machine) \in {"bcm2836", "bcm2837"}
      BY <1>1, <2>2, Machines DEF Receivers, Old
    <3> QED
      BY <1>1, <2>2, <3>1, Connections DEF Sections, Relay
  <2> QED
    BY <2>1, <2>2
<1> QED
  BY <1>2, <1>3, <1>4

\* Every interrupt that was connected gets to a CPU of a complete machine, or
\* on the Pi 5 to the controller that is left out.
THEOREM ConnectedIsHeard == Spec => []InterruptsHeard
<1>1. BuildInv /\ LineInv => InterruptsHeard
  <2> DEFINE ends == CpuNames \cup (IF machine = "raspi5b" THEN {"ic"} ELSE {})
             E1 == Step(ends)
             E2 == Step(E1)
             E3 == Step(E2)
             E4 == Step(E3)
  <2> SUFFICES ASSUME BuildInv, LineInv, Complete
               PROVE  Receivers(machine) \subseteq E4
    <3>1. Complete /\ BuildInv /\ LineInv => \A o \in DOMAIN line : line[o][1] \in Receivers(machine)
      BY RelaysAreConnected
    <3>2. Reaching(ends, 4) = E4
      BY ReachingInSteps
    <3> HIDE DEF E4
    <3> QED
      BY <3>1, <3>2, Zenon DEF InterruptsHeard
  <2>1. ends \subseteq E1 /\ E1 \subseteq E2 /\ E2 \subseteq E3 /\ E3 \subseteq E4
    BY DEF Step
  <2>2. machine \in Machine /\ CpuNames \subseteq ends /\ "cpu0" \in ends
    BY DEF BuildInv, CpuNames
  <2> DEFINE Passes(r, X) == /\ r \in Relay /\ <<r, 0>> \in DOMAIN line
                             /\ line[<<r, 0>>][1] \in X
  <2>3. ASSUME NEW X, NEW r, Passes(r, X)
        PROVE  r \in Step(X)
    BY <2>3, RelayIsReached
  <2>4. CASE machine = "raspi5b"
    <3>1. "ic" \in ends
      BY <2>4
    <3>2. Receivers(machine) = CpuNames \cup {"ic", "mboxes", "orgated_i2c", "gic", "mmc_irq_orgate", "emmc_irq_orgate"}
      BY <2>2, <2>4, Machines DEF Receivers
    <3> HIDE DEF ends
    <3>3. Passes("gic", ends) /\ Passes("orgated_i2c", ends)
          /\ Passes("mmc_irq_orgate", ends) /\ Passes("emmc_irq_orgate", ends)
      BY <2>2, <2>4, <3>1, <3>2, RelaysAreConnected DEF Onward, CpuNames
    <3>4. {"gic", "orgated_i2c", "mmc_irq_orgate", "emmc_irq_orgate"} \subseteq E1
      BY <2>3, <3>3
    <3>5. Passes("mboxes", E1)
      <4> HIDE DEF E1
      <4> QED
        BY <2>1, <2>4, <3>1, <3>2, <3>4, RelaysAreConnected DEF Onward, CpuNames
    <3>6. "mboxes" \in E2
      BY <2>3, <3>5
    <3> HIDE DEF E1, E2, E3, E4
    <3> QED
      BY <2>1, <2>2, <3>1, <3>2, <3>4, <3>6
  <2>5. CASE Soc(machine) = "bcm2835"
    <3>1. Receivers(machine) = CpuNames \cup {"ic", "mboxes", "orgated_i2c", "orgated_dma"} /\ machine # "raspi5b"
      BY <2>2, <2>5, Machines DEF Receivers
    <3> HIDE DEF ends
    <3>2. Passes("ic", ends)
      BY <2>2, <2>5, <3>1, RelaysAreConnected DEF Onward, CpuNames
    <3>3. "ic" \in E1
      BY <2>3, <3>2
    <3> HIDE DEF E1
    <3>4. Passes("mboxes", E1) /\ Passes("orgated_i2c", E1) /\ Passes("orgated_dma", E1)
      BY <3>1, <3>3, RelaysAreConnected DEF Onward, CpuNames
    <3>5. {"mboxes", "orgated_i2c", "orgated_dma"} \subseteq E2
      BY <2>3, <3>4
    <3> HIDE DEF E2, E3, E4
    <3> QED
      BY <2>1, <2>2, <3>1, <3>3, <3>5
  <2>6. CASE Soc(machine) \notin {"bcm2835", "bcm2712"}
    <3>1. /\ Receivers(machine) = CpuNames \cup {"ic", "mboxes", "orgated_i2c", "orgated_dma", "control"}
          /\ machine # "raspi5b"
      BY <2>2, <2>6, Machines DEF Receivers
    <3> HIDE DEF ends
    <3>2. Passes("control", ends)
      BY <2>2, <3>1, RelaysAreConnected DEF Onward, CpuNames
    <3>3. "control" \in E1
      BY <2>3, <3>2
    <3> HIDE DEF E1
    <3>4. Passes("ic", E1)
      BY <2>6, <3>1, <3>3, RelaysAreConnected DEF Onward, CpuNames
    <3>5. "ic" \in E2
      BY <2>3, <3>4
    <3> HIDE DEF E2
    <3>6. Passes("mboxes", E2) /\ Passes("orgated_i2c", E2) /\ Passes("orgated_dma", E2)
      BY <3>1, <3>5, RelaysAreConnected DEF Onward, CpuNames
    <3>7. {"mboxes", "orgated_i2c", "orgated_dma"} \subseteq E3
      BY <2>3, <3>6
    <3> HIDE DEF E3, E4
    <3> QED
      BY <2>1, <2>2, <3>1, <3>3, <3>5, <3>7
  <2> QED
    BY <2>2, <2>4, <2>5, <2>6, Machines
<1> QED
  BY <1>1, BuildInvariant, LineInvariant, PTL

-----------------------------------------------------------------------------
(* Where a region begins.  Begins is a recursion over the regions; it ends     *)
(* because what a region is placed in lies less deep.                          *)

Depth(s) ==
  CASE s \in {"system", "gpu", "mbox"} -> 0
    [] s = "peri" -> 1
    [] s = "rp1" -> 2
    [] OTHER -> 3

Regions(mp) == Containers \cup {mp[k].mr : k \in DOMAIN mp}
Placements(mp, s) == {i \in DOMAIN mp : mp[i].mr = s /\ mp[i].in # "none"}

\* Where s begins, given where what it is placed in begins.
Sum(mp, top, f, s) ==
  IF s = top \/ Placements(mp, s) = {} THEN 0
  ELSE LET i == CHOOSE i \in Placements(mp, s) : TRUE
       IN  f[mp[i].in] + mp[i].at

Nested(mp) ==
  \A i \in DOMAIN mp : mp[i].in # "none" =>
    mp[i].in \in Containers /\ Depth(mp[i].in) < Depth(mp[i].mr)

\* A region's beginning depends on what lies less deep alone.
LEMMA SumAsksLessDeep ==
  ASSUME NEW mp, Nested(mp), NEW top, NEW f, NEW g, NEW n \in Nat,
         \A s \in Regions(mp) : Depth(s) < n => f[s] = g[s]
  PROVE  \A s \in Regions(mp) : Depth(s) < n + 1 => Sum(mp, top, f, s) = Sum(mp, top, g, s)
<1> SUFFICES ASSUME NEW s \in Regions(mp), Depth(s) < n + 1
             PROVE  Sum(mp, top, f, s) = Sum(mp, top, g, s)
  OBVIOUS
<1>1. CASE s = top \/ Placements(mp, s) = {}
  BY <1>1 DEF Sum
<1>2. CASE s # top /\ Placements(mp, s) # {}
  <2> DEFINE i == CHOOSE i \in Placements(mp, s) : TRUE
  <2>1. i \in Placements(mp, s)
    BY <1>2
  <2>2. Sum(mp, top, f, s) = f[mp[i].in] + mp[i].at /\ Sum(mp, top, g, s) = g[mp[i].in] + mp[i].at
    BY <1>2, Zenon DEF Sum
  <2> HIDE DEF i
  <2>3. mp[i].in \in Regions(mp) /\ Depth(mp[i].in) < Depth(s)
    BY <2>1 DEF Placements, Nested, Regions
  <2>4. Depth(s) \in 0 .. 3 /\ Depth(mp[i].in) \in 0 .. 3
    BY DEF Depth
  <2>5. Depth(mp[i].in) < n
    BY <2>3, <2>4
  <2> QED
    BY <2>2, <2>3, <2>5
<1> QED
  BY <1>1, <1>2

\* What Begins gives is the sum of the addresses on the way.
LEMMA BeginsIsSum ==
  ASSUME NEW mp, Nested(mp), NEW top
  PROVE  \E f : \A s \in Regions(mp) : f[s] = Sum(mp, top, f, s) /\ Begins(mp, top, s) = f[s]
<1> DEFINE IsSum(f) == f = [s \in Regions(mp) |-> Sum(mp, top, f, s)]
           Next1(f) == [s \in Regions(mp) |-> Sum(mp, top, f, s)]
           Agree(f, g, n) == \A s \in Regions(mp) : Depth(s) < n => f[s] = g[s]
           g0 == [s \in Regions(mp) |-> 0]
           h == CHOOSE f : IsSum(f)
<1>1. ASSUME NEW f, NEW g, NEW n \in Nat, Agree(f, g, n)
      PROVE  Agree(Next1(f), Next1(g), n + 1)
  BY <1>1, SumAsksLessDeep
<1>2. \A s : Depth(s) \in 0 .. 3
  BY DEF Depth
<1>3. Agree(g0, Next1(g0), 0)
  BY <1>2
<1> HIDE DEF g0
<1>4. \E f : Agree(f, Next1(f), 4)
  <2> DEFINE g1 == Next1(g0)
             g2 == Next1(g1)
             g3 == Next1(g2)
             g4 == Next1(g3)
  <2> HIDE DEF Agree
  <2>1. Agree(g1, Next1(g1), 1)
    BY <1>1, <1>3
  <2>2. Agree(g2, Next1(g2), 2)
    <3> HIDE DEF g1
    <3> QED
      BY <1>1, <2>1
  <2>3. Agree(g3, Next1(g3), 3)
    <3> HIDE DEF g2
    <3> QED
      BY <1>1, <2>2
  <2>4. Agree(g4, Next1(g4), 4)
    <3> HIDE DEF g3
    <3> QED
      BY <1>1, <2>3
  <2> HIDE DEF g4
  <2> QED
    BY <2>4, Zenon
<1>5. PICK f : Agree(f, Next1(f), 4)
  BY <1>4
<1>6. IsSum(Next1(f))
  <2> DEFINE g == Next1(f)
  <2>1. \A s \in Regions(mp) : f[s] = g[s]
    BY <1>2, <1>5
  <2>2. \A s \in Regions(mp) : Sum(mp, top, f, s) = Sum(mp, top, g, s)
    <3> HIDE DEF g
    <3>1. 4 \in Nat /\ \A s \in Regions(mp) : Depth(s) < 4 + 1
      BY <1>2
    <3> QED
      BY <2>1, <3>1, SumAsksLessDeep
  <2>3. g = [s \in Regions(mp) |-> Sum(mp, top, g, s)]
    BY <2>2
  <2> QED
    BY <2>3
<1>7. IsSum(h)
  <2> HIDE DEF IsSum
  <2> QED
    BY <1>6, Zenon
<1>8. ASSUME NEW s \in Regions(mp)
      PROVE  Begins(mp, top, s) = h[s]
  BY Zenon DEF Begins, Sum, Placements, Regions
<1>9. \A s \in Regions(mp) : h[s] = Sum(mp, top, h, s)
  BY <1>7, Zenon
<1> QED
  BY <1>8, <1>9, Zenon

-----------------------------------------------------------------------------
(* The order of the placements.  The peripherals and the RP1 are placed before *)
(* the machine is complete, and on the Pi 5 the random number generator comes  *)
(* after the RP1, which covers the same addresses.                             *)

RngOf == At("rng", "peri", \h6100)

\* One of the operations of s places e.
Brings(s, e) == \E k \in DOMAIN s : Holds(s[k].maps, e)

\* None of them places the RP1 or a random number generator.
Avoids(op) == \A j \in DOMAIN op.maps : op.maps[j].mr \notin {"rp1", "rng"}
AllAvoid(s) == \A k \in DOMAIN s : Avoids(s[k])

\* A concatenation places what its parts place, and the second part later.
LEMMA ConcatBrings ==
  ASSUME NEW s, NEW t, IsSequence(s), IsSequence(t)
  PROVE  /\ IsSequence(s \o t)
         /\ \A e : Brings(s \o t, e) <=> Brings(s, e) \/ Brings(t, e)
         /\ AllAvoid(s) /\ AllAvoid(t) => AllAvoid(s \o t)
         /\ \A e : \A k \in DOMAIN (s \o t) :
              /\ Holds((s \o t)[k].maps, e) /\ ~Brings(s, e) => k > Len(s)
              /\ Holds((s \o t)[k].maps, e) /\ ~Brings(t, e) => k <= Len(s)
<1> DEFINE S == {s[k] : k \in DOMAIN s} \cup {t[k] : k \in DOMAIN t}
           u == s \o t
<1>1. s \in Seq(S) /\ t \in Seq(S)
  BY SeqMonotonic DEF IsSequence
<1>2. /\ Len(u) = Len(s) + Len(t) /\ DOMAIN u = 1 .. Len(u)
      /\ \A i \in 1 .. Len(s) + Len(t) : u[i] = IF i <= Len(s) THEN s[i] ELSE t[i - Len(s)]
  BY <1>1, ConcatProperties, LenProperties
<1>3. IsSequence(u)
  BY ConcatIsSequence
<1>4. /\ \A k \in DOMAIN s : \E j \in DOMAIN u : u[j] = s[k]
      /\ \A k \in DOMAIN t : \E j \in DOMAIN u : u[j] = t[k]
  BY ConcatHasElements
<1> HIDE DEF u
<1>5. Len(s) \in Nat /\ Len(t) \in Nat /\ DOMAIN s = 1 .. Len(s) /\ DOMAIN t = 1 .. Len(t)
  BY DEF IsSequence
<1>6. ASSUME NEW k \in DOMAIN u
      PROVE  \/ k <= Len(s) /\ k \in DOMAIN s /\ u[k] = s[k]
             \/ k > Len(s) /\ k - Len(s) \in DOMAIN t /\ u[k] = t[k - Len(s)]
  BY <1>2, <1>5
<1>7. \A e : Brings(u, e) <=> Brings(s, e) \/ Brings(t, e)
  <2> SUFFICES ASSUME NEW e PROVE Brings(u, e) <=> Brings(s, e) \/ Brings(t, e)
    OBVIOUS
  <2>1. Brings(s, e) \/ Brings(t, e) => Brings(u, e)
    BY <1>4, Zenon DEF Brings
  <2>2. Brings(u, e) => Brings(s, e) \/ Brings(t, e)
    BY <1>6, Zenon DEF Brings
  <2> QED
    BY <2>1, <2>2
<1>8. AllAvoid(s) /\ AllAvoid(t) => AllAvoid(u)
  BY <1>6, Zenon DEF AllAvoid
<1>9. ASSUME NEW e, NEW k \in DOMAIN u, Holds(u[k].maps, e)
      PROVE  (~Brings(s, e) => k > Len(s)) /\ (~Brings(t, e) => k <= Len(s))
  BY <1>6, <1>9, Zenon DEF Brings
<1>10. /\ IsSequence(u)
       /\ \A e : Brings(u, e) <=> Brings(s, e) \/ Brings(t, e)
       /\ AllAvoid(s) /\ AllAvoid(t) => AllAvoid(u)
       /\ \A e : \A k \in DOMAIN u :
            /\ Holds(u[k].maps, e) /\ ~Brings(s, e) => k > Len(s)
            /\ Holds(u[k].maps, e) /\ ~Brings(t, e) => k <= Len(s)
  BY <1>3, <1>7, <1>8, <1>9, Zenon
<1> QED
  BY <1>10, Zenon DEF u

\* What avoids the two places neither.
LEMMA AvoidingBringsNeither ==
  ASSUME NEW s, AllAvoid(s)
  PROVE  ~Brings(s, Rp1Of) /\ ~Brings(s, RngOf)
<1>1. Rp1Of.mr = "rp1" /\ RngOf.mr = "rng"
  BY SMT DEF Rp1Of, RngOf, At, Place
<1>2. \A op, e : Avoids(op) /\ Holds(op.maps, e) => e.mr \notin {"rp1", "rng"}
  BY Zenon DEF Avoids, Holds
<1> QED
  BY <1>1, <1>2 DEF Brings, AllAvoid

\* The peripherals all chips have place neither.
LEMMA CommonAvoids ==
  ASSUME NEW m
  PROVE  AllAvoid(Common(m))
<1>1. AllAvoid(GpuBus(m))
  BY SMT DEF AllAvoid, Avoids, GpuBus, Wire, Place
<1>2. AllAvoid(CoreDevices)
  BY SMT DEF AllAvoid, Avoids, CoreDevices, Child, InPeri, At, Place
<1>3. AllAvoid(Video)
  BY SMT DEF AllAvoid, Avoids, Video, Child, Other, InPeri, At, Place
<1>4. AllAvoid(StorageAndDma)
  BY SMT DEF AllAvoid, Avoids, StorageAndDma, Child, InPeri, At, Place
<1>5. AllAvoid(SerialBuses)
  BY SMT DEF AllAvoid, Avoids, SerialBuses, Child, Wire, InPeri, At, Place
<1>6. AllAvoid(Unimplemented)
  BY SMT DEF AllAvoid, Avoids, Unimplemented, Wire, Unimp, Place
<1> QED
  BY <1>1, <1>2, <1>3, <1>4, <1>5, <1>6, PiecesAreSequences, ConcatBrings DEF Common

\* The Pi 5's chip places neither, but the peripherals.
LEMMA Soc2712Avoids ==
  AllAvoid(Soc2712) /\ Brings(Soc2712, PeriOf("raspi5b"))
<1>1. AllAvoid(MemoryMap2712)
  BY SMT DEF AllAvoid, Avoids, MemoryMap2712, Wire, Other, Place
<1>2. AllAvoid(Gic2712)
  <2>1. \A k \in 1 .. 4 : GicBlocks[k] \notin {"rp1", "rng"}
    BY SMT DEF GicBlocks
  <2> QED
    BY <2>1, SMT DEF AllAvoid, Avoids, Gic2712, Child, At, Place
<1>3. AllAvoid(Cpus2712)
  <2>1. \A c : Avoids(Cpu2712(c))
    BY SMT DEF Avoids, Cpu2712, Child
  <2> QED
    BY <2>1, SMT DEF AllAvoid, Cpus2712
<1>4. AllAvoid(Late2712)
  BY SMT DEF AllAvoid, Avoids, Late2712, Wire, Other, DmaRemap, Place
<1>5. AllAvoid(PassedOn2712)
  BY SMT DEF AllAvoid, Avoids, PassedOn2712, Other
<1>6. Brings(MemoryMap2712, PeriOf("raspi5b"))
  <2>1. 3 \in DOMAIN MemoryMap2712 /\ MemoryMap2712[3].maps = <<PeriOf("raspi5b")>>
    BY SMT DEF MemoryMap2712, Wire, PeriOf
  <2>2. Holds(<<PeriOf("raspi5b")>>, PeriOf("raspi5b"))
    BY SMT DEF Holds
  <2> QED
    BY <2>1, <2>2, Zenon DEF Brings
<1> QED
  BY <1>1, <1>2, <1>3, <1>4, <1>5, <1>6, Soc2712IsSequences, ConcatBrings DEF Soc2712

\* The older chips place the peripherals.
LEMMA OldSocBringsPeripherals ==
  ASSUME NEW m \in Machine, m # "raspi5b"
  PROVE  Brings(Program[m]["soc"], PeriOf(m))
<1>1. Program[m]["soc"] = SocBase(m) \o (IF Soc(m) = "bcm2835" THEN Soc2835 ELSE Soc2836)
  BY Machines, SMT DEF Program
<1>2. Brings(SocBase(m), PeriOf(m))
  <2>1. 2 \in DOMAIN SocBase(m) /\ SocBase(m)[2].maps = <<PeriOf(m)>>
    BY SMT DEF SocBase, Wire, PeriOf
  <2>2. Holds(<<PeriOf(m)>>, PeriOf(m))
    BY SMT DEF Holds
  <2> QED
    BY <2>1, <2>2, Zenon DEF Brings
<1> QED
  BY <1>1, <1>2, PiecesAreSequences, Soc2836IsSequences, ConcatBrings

\* The Pi 5's peripherals place the RP1, and the random number generator later.
LEMMA RngComesLast ==
  /\ Brings(Own2712, Rp1Of)
  /\ \A k, l \in DOMAIN Own2712 :
       Holds(Own2712[k].maps, RngOf) /\ Holds(Own2712[l].maps, Rp1Of) => l < k
<1> DEFINE first == Uart2712 \o Storage2712 \o Gates2712
           storage1 == <<Child("emmc2", <<InPeri("emmc2")>>, {})>>
           storage2 == <<Child("rp1", <<Rp1Of>>, {}), Other("sdbus", "peripherals")>>
<1>1. RngOf.mr = "rng" /\ Rp1Of.mr = "rp1"
  BY SMT DEF Rp1Of, RngOf, At, Place
<1>2. ~Brings(Uart2712, RngOf)
  <2>1. AllAvoid(Uart2712)
    BY SMT DEF AllAvoid, Avoids, Uart2712, Wire, Other, At, Place
  <2> QED
    BY <2>1, AvoidingBringsNeither
<1>3. ~Brings(Gates2712, RngOf)
  <2>1. AllAvoid(Gates2712)
    BY SMT DEF AllAvoid, Avoids, Gates2712, Wire, Child
  <2> QED
    BY <2>1, AvoidingBringsNeither
<1>4. IsSequence(Rp1) /\ ~Brings(Rp1, RngOf)
  <2>1. AllAvoid(Rp1Blocks)
    BY SMT DEF AllAvoid, Avoids, Rp1Blocks, Wire, Child, InRp1, Place
  <2>2. AllAvoid(Rp1I2cs) /\ AllAvoid(Rp1Spis)
    <3>1. \A k \in 1 .. 6 : Rp1I2c(k - 1) \notin {"rp1", "rng"} /\ Rp1Spi(k - 1) \notin {"rp1", "rng"}
      BY SMT DEF Rp1I2c, Rp1Spi
    <3>2. \A k \in 1 .. 6 : Avoids(Rp1I2cs[k]) /\ Avoids(Rp1Spis[k])
      BY <3>1, SMT DEF Avoids, Rp1I2cs, Rp1Spis, Child, InRp1, Place
    <3> QED
      BY <3>2, SMT DEF AllAvoid, Rp1I2cs, Rp1Spis
  <2>3. IsSequence(Rp1Blocks) /\ IsSequence(Rp1I2cs) /\ IsSequence(Rp1Spis)
    <3>1. Rp1I2cs = [k \in 1 .. 6 |-> Rp1I2cs[k]] /\ Rp1Spis = [k \in 1 .. 6 |-> Rp1Spis[k]]
      BY SMT DEF Rp1I2cs, Rp1Spis
    <3>2. IsSequence(Rp1Blocks)
      BY SMT DEF IsSequence, Rp1Blocks
    <3> QED
      BY <3>1, <3>2, FunctionIsSequence, Zenon
  <2>4. IsSequence(Rp1) /\ AllAvoid(Rp1)
    BY <2>1, <2>2, <2>3, ConcatBrings DEF Rp1
  <2> QED
    BY <2>4, AvoidingBringsNeither
<1>5. Storage2712 = storage1 \o Rp1 \o storage2
  BY SMT DEF Storage2712, Rp1Of
<1>6. IsSequence(storage1) /\ IsSequence(storage2)
  BY TupleIsSequence, Zenon
<1>7. ~Brings(storage1, RngOf)
  <2>1. AllAvoid(storage1)
    BY SMT DEF AllAvoid, Avoids, Child, InPeri, At, Place
  <2> QED
    BY <2>1, AvoidingBringsNeither
<1>8. Brings(storage2, Rp1Of) /\ ~Brings(storage2, RngOf)
  <2>1. /\ DOMAIN storage2 = {1, 2} /\ storage2[1].maps = <<Rp1Of>> /\ storage2[2].maps = <<>>
    BY SMT DEF Child, Other
  <2>2. Holds(<<Rp1Of>>, Rp1Of) /\ ~Holds(<<>>, RngOf) /\ \A e : Holds(<<Rp1Of>>, e) => e = Rp1Of
    BY SMT DEF Holds
  <2> HIDE DEF storage2
  <2>3. RngOf # Rp1Of
    BY <1>1
  <2> QED
    BY <2>1, <2>2, <2>3 DEF Brings
<1> HIDE DEF storage1, storage2
<1>9. IsSequence(Storage2712) /\ Brings(Storage2712, Rp1Of) /\ ~Brings(Storage2712, RngOf)
  BY <1>4, <1>5, <1>6, <1>7, <1>8, ConcatBrings
<1>10. IsSequence(first) /\ Brings(first, Rp1Of) /\ ~Brings(first, RngOf)
  BY <1>2, <1>3, <1>9, PiecesAreSequences, ConcatBrings
<1>11. ~Brings(Sensors2712, Rp1Of)
  <2>1. \A k \in DOMAIN Sensors2712 : \A j \in DOMAIN Sensors2712[k].maps : Sensors2712[k].maps[j].mr # "rp1"
    BY SMT DEF Sensors2712, Wire, Child, InPeri, At, Unimp, DmaRemap, Place
  <2> QED
    BY <1>1, <2>1 DEF Brings, Holds
<1>12. Own2712 = first \o Sensors2712
  BY Zenon DEF Own2712
<1> HIDE DEF first
<1>13. Brings(Own2712, Rp1Of)
  BY <1>10, <1>12, PiecesAreSequences, ConcatBrings
<1>14. ASSUME NEW k \in DOMAIN Own2712, NEW l \in DOMAIN Own2712,
              Holds(Own2712[k].maps, RngOf), Holds(Own2712[l].maps, Rp1Of)
       PROVE  l < k
  <2>1. k > Len(first) /\ l <= Len(first)
    BY <1>10, <1>11, <1>12, <1>14, PiecesAreSequences, ConcatBrings
  <2>2. k \in Nat /\ l \in Nat /\ Len(first) \in Nat
    BY <1>10, <1>12, PiecesAreSequences, ConcatIsSequence DEF IsSequence
  <2> QED
    BY <2>1, <2>2
<1> QED
  BY <1>13, <1>14

\* The containers the other devices are in.
Bridges == {PeriOf(machine), Rp1Of}

\* The bridges among what the first operations of section s place are in the map.
BridgesUpTo(s, upto) ==
  \A k \in DOMAIN Program[machine][s] :
    k < upto => \A e \in Bridges : Holds(Program[machine][s][k].maps, e) => Holds(map, e)

AllBridges(s) == \A e \in Bridges : Brings(Program[machine][s], e) => Holds(map, e)

\* The RP1 of the Pi 5 is still to come.
Rp1ToCome ==
  \/ phase \in {"start", "common"}
  \/ phase = "own" /\ \E l \in DOMAIN Own2712 : l >= at /\ Holds(Own2712[l].maps, Rp1Of)

\* While no error is set, the bridges placed so far are in the map, and on the
\* Pi 5 the random number generator is above the RP1: there is none before the
\* RP1 is placed, and the RP1 is not placed again.
OrderInv ==
  ~error =>
    /\ \A s \in Sections : Ended(s) => AllBridges(s)
    /\ phase \in Sections => BridgesUpTo(phase, at)
    /\ machine = "raspi5b" =>
         /\ Rp1ToCome => ~Holds(map, RngOf)
         /\ \A i, j \in DOMAIN map : map[i] = RngOf /\ map[j] = Rp1Of => j < i

\* The operations of the Pi 5 that place the RP1 or the generator.
LEMMA OpPlacesInOrder ==
  ASSUME BuildInv, at > 0, Working, machine = "raspi5b"
  PROVE  /\ Holds(Op.maps, Rp1Of) => Rp1ToCome /\ ~Holds(Op.maps, RngOf)
         /\ Holds(Op.maps, RngOf) => phase = "own" /\ ~Rp1ToCome
<1>1. machine \in Machine /\ phase \in Sections /\ at \in Nat
  BY DEF BuildInv, Working
<1>2. IsSequence(Section) /\ Section = Program[machine][phase]
  BY <1>1, SectionsAreSequences DEF Section
<1>3. at \in DOMAIN Section /\ Op = Section[at]
  BY <1>1, <1>2 DEF Working, IsSequence, Op
<1>4. /\ Program[machine]["common"] = Common(machine) /\ Program[machine]["own"] = Own2712
      /\ Program[machine]["soc"] = Soc2712
  BY <1>1, Machines, SMT DEF Program
<1>5. CASE phase = "own"
  <2>1. Section = Own2712
    BY <1>2, <1>4, <1>5
  <2>2. \A l \in DOMAIN Own2712 : l \in Nat
    BY <1>2, <2>1 DEF IsSequence
  <2>3. Holds(Op.maps, Rp1Of) => Rp1ToCome /\ ~Holds(Op.maps, RngOf)
    <3>1. ASSUME Holds(Op.maps, Rp1Of) PROVE Rp1ToCome
      BY <1>1, <1>3, <1>5, <2>1, <2>2, <3>1 DEF Rp1ToCome
    <3>2. ASSUME Holds(Op.maps, Rp1Of), Holds(Op.maps, RngOf) PROVE FALSE
      <4>1. at < at
        BY <1>3, <2>1, <3>2, RngComesLast
      <4> QED
        BY <1>1, <4>1
    <3> QED
      BY <3>1, <3>2
  <2>4. ASSUME Holds(Op.maps, RngOf), Rp1ToCome
        PROVE  FALSE
    <3>1. PICK l \in DOMAIN Own2712 : l >= at /\ Holds(Own2712[l].maps, Rp1Of)
      BY <1>5, <2>4 DEF Rp1ToCome
    <3>2. l < at
      BY <1>3, <2>1, <2>4, <3>1, RngComesLast
    <3> QED
      BY <1>1, <2>2, <3>1, <3>2
  <2> QED
    BY <1>5, <2>3, <2>4
<1>6. CASE phase # "own"
  <2>1. AllAvoid(Section)
    BY <1>1, <1>2, <1>4, <1>6, CommonAvoids, Soc2712Avoids DEF Sections
  <2>2. ~Holds(Op.maps, Rp1Of) /\ ~Holds(Op.maps, RngOf)
    BY <1>3, <2>1, AvoidingBringsNeither DEF Brings
  <2> QED
    BY <2>2
<1> QED
  BY <1>5, <1>6

\* An operation that places something keeps the order.
LEMMA MapKeepsOrderInv ==
  ASSUME BuildInv, MapInv, OrderInv, Working, MapAndConnect, Advance, error' = error
  PROVE  OrderInv'
<1> SUFFICES ASSUME ~error PROVE OrderInv'
  BY DEF OrderInv
<1>1. /\ phase \in Sections /\ phase' = phase /\ machine' = machine /\ at' = at + 1
      /\ at \in Nat /\ at > 0 /\ machine \in Machine
  BY DEF Working, Advance, BuildInv, MapInv
<1>2. IsSequence(Section) /\ Section = Program[machine][phase]
  BY <1>1, SectionsAreSequences DEF Section
<1>3. at \in DOMAIN Section /\ Op = Section[at]
  BY <1>1, <1>2 DEF Working, IsSequence, Op
<1>4. map' = map \o Op.maps /\ IsSequence(map) /\ IsSequence(Op.maps)
  BY <1>1, OpIsSound DEF MapAndConnect, MapInv, SoundOp
<1> DEFINE new == Op.maps
<1>5. /\ Len(map) \in Nat /\ Len(new) \in Nat /\ DOMAIN map = 1 .. Len(map) /\ DOMAIN new = 1 .. Len(new)
      /\ DOMAIN map' = 1 .. Len(map) + Len(new)
      /\ \A i \in 1 .. Len(map) + Len(new) : map'[i] = IF i <= Len(map) THEN map[i] ELSE new[i - Len(map)]
  <2> DEFINE S == {map[k] : k \in DOMAIN map} \cup {new[k] : k \in DOMAIN new}
  <2>1. map \in Seq(S) /\ new \in Seq(S)
    BY <1>4, SeqMonotonic DEF IsSequence
  <2> QED
    BY <1>4, <2>1, ConcatProperties, LenProperties DEF IsSequence
<1> HIDE DEF new
<1>6. ASSUME NEW i \in DOMAIN map'
      PROVE  \/ i \in DOMAIN map /\ map'[i] = map[i]
             \/ i > Len(map) /\ i - Len(map) \in DOMAIN new /\ map'[i] = new[i - Len(map)]
  BY <1>5
<1>7. \A e : Holds(map, e) \/ Holds(new, e) => Holds(map', e)
  <2>1. \A k \in DOMAIN map : k \in DOMAIN map' /\ map'[k] = map[k]
    BY <1>5
  <2>2. ASSUME NEW k \in DOMAIN new
        PROVE  Len(map) + k \in DOMAIN map' /\ map'[Len(map) + k] = new[k]
    BY <1>5
  <2> QED
    BY <2>1, <2>2, Zenon DEF Holds
<1>8. \A e : Holds(map', e) => Holds(map, e) \/ Holds(new, e)
  BY <1>6, Zenon DEF Holds
<1>9. Bridges' = Bridges
  BY <1>1 DEF Bridges
<1>10. \A s \in Sections : Ended(s)' => AllBridges(s)'
  BY <1>1, <1>7, <1>9 DEF OrderInv, Ended, AllBridges
<1>11. BridgesUpTo(phase, at)'
  <2> SUFFICES ASSUME NEW k \in DOMAIN Section, k < at + 1, NEW e \in Bridges, Holds(Section[k].maps, e)
               PROVE  Holds(map', e)
    BY <1>1, <1>2, <1>9 DEF BridgesUpTo
  <2>1. k < at \/ k = at
    BY <1>1, <1>2 DEF IsSequence
  <2>2. CASE k < at
    <3>1. BridgesUpTo(phase, at)
      BY <1>1 DEF OrderInv
    <3> QED
      BY <1>2, <1>7, <2>2, <3>1 DEF BridgesUpTo
  <2>3. CASE k = at
    BY <1>3, <1>7, <2>3 DEF new
  <2> QED
    BY <2>1, <2>2, <2>3
<1>12. ASSUME machine = "raspi5b"
       PROVE  Rp1ToCome' => ~Holds(map', RngOf)
  <2>1. Rp1ToCome' => Rp1ToCome
    <3>1. phase = "own" => \A l \in DOMAIN Own2712 : l \in Nat
      <4>1. IsSequence(Own2712)
        BY <1>1, <1>12, SectionsAreSequences, Machines, SMT DEF Program, Sections
      <4> QED
        BY <4>1 DEF IsSequence
    <3> QED
      BY <1>1, <3>1 DEF Rp1ToCome
  <2>2. Rp1ToCome => ~Holds(map, RngOf) /\ ~Holds(new, RngOf)
    BY <1>1, <1>12, OpPlacesInOrder DEF OrderInv, new
  <2> QED
    BY <1>8, <2>1, <2>2
<1>13. ASSUME machine = "raspi5b", NEW i \in DOMAIN map', NEW j \in DOMAIN map',
              map'[i] = RngOf, map'[j] = Rp1Of
       PROVE  j < i
  <2>1. CASE j \in DOMAIN map /\ map'[j] = map[j]
    <3>1. CASE i \in DOMAIN map /\ map'[i] = map[i]
      BY <1>13, <2>1, <3>1 DEF OrderInv
    <3>2. CASE i > Len(map)
      BY <1>5, <2>1, <3>2
    <3> QED
      BY <1>6, <3>1, <3>2
  <2>2. CASE j - Len(map) \in DOMAIN new /\ map'[j] = new[j - Len(map)]
    <3>1. Holds(new, Rp1Of)
      BY <1>13, <2>2, Zenon DEF Holds
    <3>2. Rp1ToCome /\ ~Holds(new, RngOf) /\ ~Holds(map, RngOf)
      BY <1>1, <1>13, <3>1, OpPlacesInOrder DEF OrderInv, new
    <3>3. Holds(map', RngOf)
      BY <1>13, Zenon DEF Holds
    <3> QED
      BY <1>8, <3>2, <3>3
  <2> QED
    BY <1>6, <2>1, <2>2
<1> QED
  BY <1>1, <1>10, <1>11, <1>12, <1>13 DEF OrderInv

\* What changes the phase or goes on without placing anything keeps it.
LEMMA SameOrderKeepsOrderInv ==
  ASSUME BuildInv, OrderInv, machine' = machine, error => error',
         \/ map' = map
         \/ \E dev \in {"uart0", "uart0_legacy"} : map' = TakenOut(map, dev),
         ~error' => \/ phase' \notin Sections \cup {"start"} /\ (phase' \in Past => phase \in Past)
                    \/ phase' = phase /\ at' = at
                    \/ Working /\ Advance /\ at > 0 /\ Op.maps = <<>>
  PROVE  OrderInv'
<1> SUFFICES ASSUME ~error, ~error' PROVE OrderInv'
  BY DEF OrderInv
<1>1. ASSUME NEW e \in Bridges \cup {RngOf, Rp1Of}
      PROVE  DOMAIN map' = DOMAIN map /\ \A k \in DOMAIN map : map'[k] = e <=> map[k] = e
  <2>1. CASE map' = map
    BY <2>1
  <2>2. ASSUME NEW dev \in {"uart0", "uart0_legacy"}, map' = TakenOut(map, dev)
        PROVE  DOMAIN map' = DOMAIN map /\ \A k \in DOMAIN map : map'[k] = e <=> map[k] = e
    <3>1. e.mr # dev /\ e.in # "none"
      BY SMT DEF Bridges, PeriOf, Rp1Of, RngOf, At, Place
    <3>2. /\ DOMAIN map' = DOMAIN map
          /\ \A k \in DOMAIN map :
               map'[k] = IF map[k].mr = dev THEN [map[k] EXCEPT !.in = "none"] ELSE map[k]
      BY <2>2 DEF TakenOut
    <3>3. ASSUME NEW k \in DOMAIN map, map[k].mr = dev
          PROVE  map'[k] # e /\ map[k] # e
      <4>1. map'[k] = [map[k] EXCEPT !.in = "none"]
        BY <3>2, <3>3
      <4>2. "in" \in DOMAIN map[k] => map'[k].in = "none"
        BY <4>1
      <4>3. DOMAIN map'[k] = DOMAIN map[k]
        BY <4>1
      <4>4. "in" \in DOMAIN e
        BY SMT DEF Bridges, PeriOf, Rp1Of, RngOf, At, Place
      <4> QED
        BY <3>1, <3>3, <4>2, <4>3, <4>4
    <3> QED
      BY <3>2, <3>3
  <2> QED
    BY <2>1, <2>2
<1>2. \A e \in Bridges \cup {RngOf, Rp1Of} : Holds(map', e) <=> Holds(map, e)
  BY <1>1 DEF Holds
<1>3. Bridges' = Bridges
  BY DEF Bridges
<1>4. \A s \in Sections : Ended(s)' => AllBridges(s)'
  <2>1. \A s \in Sections : Ended(s)' => Ended(s)
    BY DEF Ended, Past, Sections, Advance
  <2> QED
    BY <1>2, <1>3, <2>1 DEF OrderInv, AllBridges
<1>5. ASSUME phase' \in Sections
      PROVE  BridgesUpTo(phase, at)'
  <2>1. CASE phase' = phase /\ at' = at
    BY <1>2, <1>3, <1>5, <2>1 DEF OrderInv, BridgesUpTo
  <2>2. CASE Working /\ Advance /\ Op.maps = <<>>
    <3>1. IsSequence(Section) /\ Section = Program[machine][phase] /\ phase' = phase /\ at' = at + 1
          /\ phase \in Sections
      BY <2>2, SectionsAreSequences DEF Section, BuildInv, Working, Advance
    <3>2. \A k \in DOMAIN Section : k < at + 1 => k < at \/ k = at
      BY <3>1 DEF BuildInv, IsSequence
    <3>3. BridgesUpTo(phase, at)
      BY <3>1 DEF OrderInv
    <3>4. \A e : ~Holds(Op.maps, e)
      BY <2>2, SMT DEF Holds
    <3>5. \A k \in DOMAIN Section : k < at' =>
            \A e \in Bridges : Holds(Section[k].maps, e) => Holds(map', e)
      BY <1>2, <3>1, <3>2, <3>3, <3>4 DEF BridgesUpTo, Op
    <3> QED
      BY <1>3, <3>1, <3>5 DEF BridgesUpTo
  <2> QED
    BY <1>5, <2>1, <2>2
<1>6. ASSUME machine = "raspi5b"
      PROVE  /\ Rp1ToCome' => ~Holds(map', RngOf)
             /\ \A i, j \in DOMAIN map' : map'[i] = RngOf /\ map'[j] = Rp1Of => j < i
  <2>1. Rp1ToCome' => Rp1ToCome
    <3>1. CASE phase' \notin Sections \cup {"start"}
      BY <3>1 DEF Rp1ToCome, Sections
    <3>2. CASE phase' = phase /\ at' = at
      BY <3>2 DEF Rp1ToCome
    <3>3. CASE Working /\ Advance /\ at > 0 /\ Op.maps = <<>>
      <4>1. IsSequence(Own2712)
        BY <1>6, SectionsAreSequences, Machines, SMT DEF Program, Sections, BuildInv
      <4>2. phase' = phase /\ at' = at + 1 /\ at \in Nat /\ \A l \in DOMAIN Own2712 : l \in Nat
        BY <3>3, <4>1 DEF Advance, BuildInv, IsSequence
      <4> QED
        BY <4>2 DEF Rp1ToCome
    <3> QED
      BY <3>1, <3>2, <3>3
  <2> QED
    BY <1>1, <1>2, <1>6, <2>1 DEF OrderInv
<1> QED
  BY <1>4, <1>5, <1>6 DEF OrderInv

\* A section ends when the bridges it places are in the map.
LEMMA EndSectionKeepsOrderInv ==
  ASSUME BuildInv, OrderInv, EndSection
  PROVE  OrderInv'
<1> SUFFICES ASSUME ~error PROVE OrderInv'
  BY DEF OrderInv, EndSection
<1>1. phase \in Sections /\ at > Len(Section) /\ at' = 1
      /\ UNCHANGED <<machine, error, map>> /\ machine \in Machine /\ at \in Nat
  BY DEF EndSection, built, BuildInv
<1>2. IsSequence(Section) /\ Section = Program[machine][phase]
  BY <1>1, SectionsAreSequences DEF Section
<1>3. AllBridges(phase)
  <2>1. \A k \in DOMAIN Section : k < at
    BY <1>1, <1>2 DEF IsSequence
  <2>2. BridgesUpTo(phase, at)
    BY <1>1 DEF OrderInv
  <2> QED
    BY <1>2, <2>1, <2>2 DEF AllBridges, Brings, BridgesUpTo
<1>4. \/ phase = "common" /\ phase' = "own"
      \/ phase = "own" /\ phase' = "soc"
      \/ phase = "soc" /\ phase' = "card"
  BY <1>1 DEF EndSection, Return, Sections
<1>5. \A s : AllBridges(s)' <=> AllBridges(s)
  BY <1>1 DEF AllBridges, Bridges
<1>6. \A s \in Sections : Ended(s)' => AllBridges(s)'
  <2>1. \A s \in Sections : Ended(s)' => Ended(s) \/ s = phase
    BY <1>4 DEF Ended, Past, Sections
  <2> QED
    BY <1>3, <1>5, <2>1 DEF OrderInv
<1>7. ASSUME phase' \in Sections PROVE BridgesUpTo(phase, at)'
  <2>1. IsSequence(Program[machine'][phase'])
    BY <1>1, <1>7, SectionsAreSequences
  <2> QED
    BY <1>1, <2>1 DEF BridgesUpTo, IsSequence
<1>8. Rp1ToCome' => Rp1ToCome
  BY <1>4 DEF Rp1ToCome
<1> QED
  BY <1>1, <1>6, <1>7, <1>8 DEF OrderInv

\* Every step keeps the order.
THEOREM OrderInvariant == Spec => []OrderInv
<1>1. Init => OrderInv
  <2>1. Init => phase = "start" /\ map = <<>>
    BY Zenon DEF Init
  <2>2. map = <<>> => DOMAIN map = {}
    BY SMT
  <2> QED
    BY <2>1, <2>2 DEF OrderInv, Ended, Past, Sections, Holds
<1>2. BuildInv /\ MapInv /\ OrderInv /\ [Next]_vars => OrderInv'
  <2> SUFFICES ASSUME BuildInv, MapInv, OrderInv, [Next]_vars PROVE OrderInv'
    OBVIOUS
  <2>1. at > 0 /\ machine \in Machine
    BY DEF BuildInv, MapInv
  <2>2. ASSUME Working, Advance, error' = error, Op.kind \in {"vcram", "unmap", "expire", "sdbus"},
               map' = map \/ \E dev \in {"uart0", "uart0_legacy"} : map' = TakenOut(map, dev)
        PROVE  OrderInv'
    <3>1. Op.maps = <<>>
      BY <2>1, <2>2, OpIsSound DEF SoundOp
    <3> QED
      BY <2>1, <2>2, <3>1, SameOrderKeepsOrderInv DEF Advance
  <2>3. ASSUME error'
        PROVE  OrderInv'
    BY <2>3 DEF OrderInv
  <2>4. CASE RamIsRight
    <3>1. /\ machine' = machine /\ at' = at /\ at = 1 /\ phase' = "common"
          /\ map' = <<RamOf(machine)>>
      BY <2>4 DEF RamIsRight, BuildInv, RamOf
    <3>2. IsSequence(Program[machine]["common"])
      BY <2>1, SectionsAreSequences DEF Sections
    <3>3. BridgesUpTo("common", 1)'
      BY <3>1, <3>2 DEF BridgesUpTo, IsSequence
    <3>4. \A k \in DOMAIN map' : map'[k] # RngOf
      BY <3>1, SMT DEF RamOf, RngOf, At, Place
    <3> QED
      BY <3>1, <3>3, <3>4 DEF OrderInv, Ended, Past, Sections, Holds
  <2>5. CASE WireUp
    BY <2>5, MapKeepsOrderInv DEF WireUp
  <2>6. CASE Realize
    BY <2>6, MapKeepsOrderInv DEF Realize
  <2>7. CASE RealizeFails \/ RealizeUnderError
    BY <2>3, <2>7 DEF RealizeFails, RealizeUnderError
  <2>8. CASE PlaceVcram
    BY <2>2, <2>8 DEF PlaceVcram
  <2>9. CASE Unmap \/ Expire
    <3>1. Working /\ Op.kind \in {"unmap", "expire"} /\ (map' = map \/ map' = TakenOut(map, Op.dev))
          /\ Advance /\ error' = error
      BY <2>9 DEF Unmap, Expire
    <3>2. Op.dev \in {"uart0", "uart0_legacy"}
      BY <2>1, <3>1, OpIsSound DEF SoundOp
    <3> QED
      BY <2>2, <3>1, <3>2
  <2>10. CASE PassSdBus
    BY <2>2, <2>10 DEF PassSdBus
  <2>11. CASE EndSection
    BY <2>11, EndSectionKeepsOrderInv
  <2>12. CASE phase' = "failed" /\ UNCHANGED <<machine, map, error, at>>
    BY <2>1, <2>12, SameOrderKeepsOrderInv DEF Past, Sections
  <2>13. CASE phase \in {"card", "boot"} /\ phase' \in Past /\ UNCHANGED <<machine, map, error, at>>
    BY <2>1, <2>13, SameOrderKeepsOrderInv DEF Past, Sections
  <2>14. CASE UNCHANGED vars
    BY <2>1, <2>14, SameOrderKeepsOrderInv DEF vars, built
  <2> QED
    BY <2>4, <2>5, <2>6, <2>7, <2>8, <2>9, <2>10, <2>11, <2>12, <2>13, <2>14
       DEF Next, built, Past, RamIsWrong, UnmapAsserts, Lost, SdCard, BootFirmware, FirmwareFails,
           BootKernel, Stopped
<1> QED
  BY <1>1, <1>2, BuildInvariant, MapInvariant, PTL DEF Spec

-----------------------------------------------------------------------------
(* Who answers at the address of a device.                                   *)

\* Placement q shows v at address a of r, and what is above it shows nothing else.
IsOnTopWith(mp, f, r, a, q, v) ==
  /\ q \in Hits(mp, r, a) /\ f[<<mp[q].mr, a - mp[q].at>>] = v
  /\ \A j \in Hits(mp, r, a) :
       f[<<mp[j].mr, a - mp[j].at>>] \in {Hole, v} \/ ~OnTop(mp, j, q)

\* Of what is placed at an address, the topmost that is no hole answers.
LEMMA TopAnswers ==
  ASSUME NEW mp, WellFormed(mp), NEW f, NEW r \in Containers \ DOMAIN AliasOf, NEW a,
         NEW v, v # Hole, NEW q, IsOnTopWith(mp, f, r, a, q, v)
  PROVE  Shows(mp, f, r, a) = v
<1> DEFINE below(i) == f[<<mp[i].mr, a - mp[i].at>>]
           solid == {i \in Hits(mp, r, a) : below(i) # Hole}
           top == CHOOSE i \in solid : \A j \in solid : OnTop(mp, i, j)
<1>1. solid # {} /\ q \in solid /\ solid \subseteq DOMAIN mp
  BY DEF Hits, IsOnTopWith
<1>2. Shows(mp, f, r, a) = IF solid = {} THEN Hole ELSE below(top)
  BY Zenon DEF Shows
<1>3. top \in solid /\ \A j \in solid : OnTop(mp, top, j)
  <2> HIDE DEF solid
  <2>1. \E i \in solid : \A j \in solid : OnTop(mp, i, j)
    BY <1>1, SomeIsOnTop
  <2> QED
    BY <2>1, Zenon
<1>4. top \in Hits(mp, r, a) /\ below(top) # Hole /\ OnTop(mp, top, q)
  <2> HIDE DEF top
  <2> QED
    BY <1>1, <1>3
<1>5. below(top) = v
  <2> HIDE DEF top
  <2> QED
    BY <1>4 DEF IsOnTopWith
<1> QED
  BY <1>1, <1>2, <1>5

\* Where nothing is placed there is a hole.
LEMMA NothingIsHole ==
  ASSUME NEW mp, NEW f, NEW r \in Containers \ DOMAIN AliasOf, NEW a, Hits(mp, r, a) = {}
  PROVE  Shows(mp, f, r, a) = Hole
BY Zenon DEF Shows

\* The device whose registers may be at an offset of the peripherals.
Owner(o) ==
  CASE o = \h30 -> "systmr" [] o = \h60 -> "mphi" [] o = \h70 -> "dma" [] o = \hb2 -> "ic"
    [] o = \hb8 -> "mboxes" [] o = \h1000 -> "powermgt" [] o = \h1010 -> "cprman"
    [] o \in {\h1040, \h6100} -> "rng" [] o = \h2000 -> "gpio"
    [] o \in {\h2010, \h10010} -> "uart0" [] o = \h2020 -> "sdhost" [] o = \h2040 -> "spi0"
    [] o = \h2050 -> "i2c0" [] o = \h20f0 -> "otp" [] o = \h2120 -> "thermal"
    [] o = \h2150 -> "aux" [] o = \h3000 -> "sdhci" [] o = \h3400 -> "emmc2"
    [] o = \h8040 -> "i2c1" [] o = \h8050 -> "i2c2" [] o = \h9800 -> "dwc2"
    [] o = \he050 -> "dma15"

\* Each offset has one device, and behind the RP1 it is at one of its holes,
\* but for the random number generator.
LEMMA SpotsAreApart ==
  ASSUME NEW m \in Machine, NEW d \in DOMAIN Offset, NEW o \in Spots(m, d)
  PROVE  /\ o \in Nat /\ Owner(o) = d /\ o < PeriSize(m)
         /\ o < \h4000 \/ o \in {\h8040, \h8050, \h9800, \he050, \h10010}
            \/ (o = \h6100 /\ d = "rng")
<1>1. d \in {"systmr", "mphi", "dma", "ic", "mboxes", "powermgt", "cprman", "rng", "gpio", "uart0",
             "sdhost", "spi0", "i2c0", "otp", "thermal", "aux", "sdhci", "emmc2", "i2c1", "i2c2",
             "dwc2", "dma15"}
  BY SMT DEF Offset
<1>2. PeriSize(m) = IF m = "raspi5b" THEN \h100000 ELSE \h10000
  BY Machines, SMT DEF PeriSize
<1>3. o = Offset[d] \/ (m = "raspi5b" /\ d = "uart0" /\ o = \h10010)
      \/ (m = "raspi5b" /\ d = "rng" /\ o = \h6100)
  BY SMT DEF Spots
<1>4. CASE m = "raspi5b" /\ d = "uart0" /\ o = \h10010
  BY <1>2, <1>4, SMT DEF Owner
<1>5. CASE m = "raspi5b" /\ d = "rng" /\ o = \h6100
  BY <1>2, <1>5, SMT DEF Owner
<1>6. CASE o = Offset[d]
  <2>1. CASE d \in {"systmr", "mphi", "dma", "ic", "mboxes", "powermgt", "cprman", "rng"}
    BY <1>2, <1>6, <2>1, SMT DEF Owner, Offset
  <2>2. CASE d \in {"gpio", "uart0", "sdhost", "spi0", "i2c0", "otp", "thermal"}
    BY <1>2, <1>6, <2>2, SMT DEF Owner, Offset
  <2>3. CASE d \in {"aux", "sdhci", "emmc2", "i2c1", "i2c2", "dwc2", "dma15"}
    BY <1>2, <1>6, <2>3, SMT DEF Owner, Offset
  <2> QED
    BY <1>1, <2>1, <2>2, <2>3
<1> QED
  BY <1>3, <1>4, <1>5, <1>6

\* What is in the map: the RAM, or something listed.
Known(m, e) == e = RamOf(m) \/ Listed(m, e)

\* Every placement in a container is known.
LEMMA MapIsKnown ==
  ASSUME MapInv, NEW k \in DOMAIN map, map[k].in # "none"
  PROVE  Known(machine, map[k])
<1>1. Sound(machine, map[k])
  BY DEF MapInv
<1>2. "ram_alias0" \in DOMAIN AliasOf
  BY SMT DEF AliasOf
<1>3. Listed(machine, GpuRamOf(machine))
  BY <1>2 DEF Listed, GpuRamOf, Place
<1> QED
  BY <1>1, <1>3 DEF Sound, Apart, Known

\* The regions in the tree of placements.
LEMMA MapIsNested ==
  ASSUME MapInv
  PROVE  Nested(map)
<1> SUFFICES ASSUME NEW k \in DOMAIN map, map[k].in # "none"
             PROVE  map[k].in \in Containers /\ Depth(map[k].in) < Depth(map[k].mr)
  BY DEF Nested
<1> DEFINE e == map[k]
           m == machine
<1>1. Known(m, e)
  BY MapIsKnown
<1> SUFFICES e.in \in Containers /\ Depth(e.in) < Depth(e.mr)
  BY DEF e
<1> HIDE DEF e, m
<1>2. {"system", "peri", "rp1", "mbox", "gpu"} \subseteq Containers
  BY DEF Containers
<1>3. CASE e = RamOf(m)
  BY <1>2, <1>3, SMT DEF RamOf, Place, Depth
<1>4. CASE e.in = "system" /\ InSystem(m, e)
  <2>1. \A i \in 1 .. 4 : GicBlocks[i] \in {"gic.dist", "gic.cpu", "gic.hyp", "gic.virt"}
    BY SMT DEF GicBlocks
  <2>2. e.mr \in {"peri", "control", "scb", "uart0_legacy", "dma_remap",
                  "gic.dist", "gic.cpu", "gic.hyp", "gic.virt"}
    BY <1>4, <2>1, SMT DEF InSystem, PeriOf, At, Place, DmaRemap
  <2>3. Depth(e.in) = 0 /\ Depth(e.mr) > 0
    BY <1>4, <2>2, SMT DEF Depth
  <2> QED
    BY <1>2, <1>4, <2>3
<1>5. CASE e.in = "peri" /\ InPeripherals(m, e)
  <2>1. \A d \in DOMAIN Offset : d \notin {"system", "gpu", "mbox", "peri", "rp1"}
    BY SMT DEF Offset
  <2>2. e.mr \notin {"system", "gpu", "mbox", "peri"}
    BY <1>5, <2>1, SMT DEF InPeripherals, NoDevice, Rp1Of, Place
  <2>3. Depth(e.in) = 1 /\ Depth(e.mr) > 1
    BY <1>5, <2>2, SMT DEF Depth
  <2> QED
    BY <1>2, <1>5, <2>3
<1>6. CASE e.in = "rp1" /\ InsideRp1(e)
  <2>1. e.mr \notin {"system", "gpu", "mbox", "peri", "rp1"}
    BY <1>6, SMT DEF InsideRp1, Stub, InRp1, Place
  <2>2. Depth(e.in) = 2 /\ Depth(e.mr) > 2
    BY <1>6, <2>1, SMT DEF Depth
  <2> QED
    BY <1>2, <1>6, <2>2
<1>7. CASE e.in \in {"mbox", "gpu"} /\ e.mr \in {"fb_alias", "property"} \cup DOMAIN AliasOf
  <2>1. e.mr \notin {"system", "gpu", "mbox", "peri", "rp1"}
    BY <1>7, SMT DEF AliasOf
  <2>2. Depth(e.in) = 0 /\ Depth(e.mr) = 3
    BY <1>7, <2>1, SMT DEF Depth
  <2> QED
    BY <1>2, <1>7, <2>2
<1> QED
  BY <1>1, <1>3, <1>4, <1>5, <1>6, <1>7 DEF Known, Listed

\* Where the local controller and the blocks of the GIC are.
ControlAt == \h400000
GicAt(n) == \h107fff90 + \h10 * (n - 1)

\* Where a real device is placed, whichever of its placements is taken.
RealPlace(m, e) ==
  \/ e.mr \in DOMAIN Offset /\ \E o \in Spots(m, e.mr) : e = At(e.mr, "peri", o)
  \/ m = "raspi5b" /\ e \in {InRp1("rp1.sd0", \h4000, 1), InRp1("rp1.sd1", \h4100, 1)}
  \/ m # "raspi5b" /\ e = At("control", "system", ControlAt)
  \/ m = "raspi5b" /\ \E k \in 1 .. 4 : e = At(GicBlocks[k], "system", GicAt(k))

\* Every placement of a real device is such a place.
LEMMA RealDevicesArePlaced ==
  ASSUME BuildInv, MapInv, NEW k \in RealDevices, NEW i \in Placements(map, map[k].mr)
  PROVE  RealPlace(machine, map[i]) /\ map[k].mr \notin Containers \cup DOMAIN AliasOf
<1> DEFINE m == machine
           e == map[k]
           d == map[i]
           gics == {"gic.dist", "gic.cpu", "gic.hyp", "gic.virt"}
           others == {"rp1.sd0", "rp1.sd1", "control"} \cup gics
<1>1. /\ e.in \in {"system", "peri", "rp1"} /\ e.prio = 0
      /\ e.mr \notin Containers \cup DOMAIN AliasOf \cup Stub \cup {"ram"}
      /\ d.mr = e.mr /\ k \in DOMAIN map /\ i \in DOMAIN map /\ d.in # "none"
  BY DEF RealDevices, Placements
<1>2. Known(m, e) /\ Known(m, d)
  BY <1>1, MapIsKnown
<1> HIDE DEF m, e, d
<1>3. {"system", "gpu", "mbox", "peri", "scb", "rp1", "rp1.gpio", "rp1.uart0", "rp1.uart1"} \subseteq Containers
  BY DEF Containers
<1>4. {"peri_alias", "fb_alias", "uart0_legacy", "dma_remap"} \subseteq DOMAIN AliasOf
  BY SMT DEF AliasOf
<1>5. \A j \in 1 .. 4 : GicBlocks[j] \in gics
  BY SMT DEF GicBlocks
<1>6. e.mr \in DOMAIN Offset \cup others
  <2>1. CASE e = RamOf(m)
    BY <1>1, <2>1 DEF RamOf, Place
  <2>2. CASE InSystem(m, e)
    BY <1>1, <1>3, <1>4, <1>5, <2>2, SMT DEF InSystem, PeriOf, DmaRemap, At, Place
  <2>3. CASE InPeripherals(m, e)
    BY <1>1, <1>3, <2>3, SMT DEF InPeripherals, Rp1Of, Place
  <2>4. CASE InsideRp1(e)
    BY <1>1, <1>3, <2>4, SMT DEF InsideRp1, InRp1, Place
  <2> QED
    BY <1>1, <1>2, <2>1, <2>2, <2>3, <2>4 DEF Known, Listed
<1>7. \A x \in DOMAIN Offset : x \notin NoDevice \cup others
  BY SMT DEF Offset, NoDevice
<1>8. \A x \in others : x \notin NoDevice
  BY SMT DEF NoDevice
<1>9. \A x \in DOMAIN Offset : x \notin {"ram", "property", "peri", "rp1"} \cup DOMAIN AliasOf
  BY SMT DEF Offset, AliasOf
<1>10. RealPlace(m, d)
  <2>1. CASE d = RamOf(m)
    BY <1>1, <2>1 DEF RamOf, Place
  <2>2. CASE InSystem(m, d)
    <3>1. d # PeriOf(m)
      BY <1>1, <1>3, SMT DEF PeriOf, Place
    <3>2. d # DmaRemap /\ d # Place("uart0_legacy", "system", \hfe2010, 1, 0)
      BY <1>1, <1>4, SMT DEF DmaRemap, Place
    <3>3. d # Place("scb", "system", \h107c0000, 2 ^ 30, 0)
      <4> DEFINE big == 2 ^ 30
      <4> HIDE DEF big
      <4>1. d # Place("scb", "system", \h107c0000, big, 0)
        BY <1>1, <1>3, SMT DEF Place
      <4> QED
        BY <4>1 DEF big
    <3>4. \/ m # "raspi5b" /\ d = At("control", "system", ControlAt)
          \/ m = "raspi5b" /\ \E j \in 1 .. 4 : d = At(GicBlocks[j], "system", GicAt(j))
      BY <2>2, <3>1, <3>2, <3>3, SMT DEF InSystem, ControlAt, GicAt
    <3> QED
      BY <3>4, SMT DEF RealPlace
  <2>3. CASE InPeripherals(m, d)
    <3>1. d.mr \notin NoDevice /\ d # Rp1Of
      BY <1>1, <1>3, <1>6, <1>7, <1>8, SMT DEF Rp1Of, Place
    <3> QED
      BY <2>3, <3>1, SMT DEF InPeripherals, RealPlace
  <2>4. CASE m = "raspi5b" /\ InsideRp1(d)
    BY <1>1, <1>3, <2>4, SMT DEF InsideRp1, InRp1, Place, RealPlace
  <2>5. CASE d.mr \in {"fb_alias", "property"} \/ d.mr \in DOMAIN AliasOf
    BY <1>1, <1>4, <1>6, <1>9, <2>5, SMT
  <2> QED
    BY <1>2, <2>1, <2>2, <2>3, <2>4, <2>5 DEF Known, Listed
<1> QED
  BY <1>1, <1>10 DEF m, e, d

\* The bridges of a machine are placed, the Pi 5's generator above the RP1.
BridgesPlaced ==
  /\ Holds(map, PeriOf(machine))
  /\ machine = "raspi5b" =>
       /\ Holds(map, Rp1Of)
       /\ \A i, j \in DOMAIN map : map[i] = RngOf /\ map[j] = Rp1Of => j < i

\* They are when the machine is complete.
LEMMA CompleteHasBridges ==
  ASSUME BuildInv, OrderInv, Complete
  PROVE  BridgesPlaced
<1>1. ~error /\ machine \in Machine /\ Ended("own") /\ Ended("soc")
  BY DEF Complete, BuildInv, Ended, Past, Sections
<1>2. AllBridges("own") /\ AllBridges("soc")
  BY <1>1 DEF OrderInv, Sections
<1>3. CASE machine = "raspi5b"
  <2>1. Program[machine]["own"] = Own2712 /\ Program[machine]["soc"] = Soc2712
    BY <1>1, <1>3, Machines, SMT DEF Program
  <2>2. Holds(map, PeriOf(machine)) /\ Holds(map, Rp1Of)
    BY <1>2, <1>3, <2>1, Soc2712Avoids, RngComesLast DEF AllBridges, Bridges
  <2> QED
    BY <1>1, <1>3, <2>2 DEF OrderInv, BridgesPlaced
<1>4. CASE machine # "raspi5b"
  BY <1>1, <1>2, <1>4, OldSocBringsPeripherals DEF AllBridges, Bridges, BridgesPlaced
<1> QED
  BY <1>3, <1>4

\* What is placed in each of the containers.
LEMMA PlacedWhere ==
  ASSUME MapInv, NEW j \in DOMAIN map
  PROVE  /\ map[j].in = "system" => map[j] = RamOf(machine) \/ InSystem(machine, map[j])
         /\ map[j].in = "peri" => InPeripherals(machine, map[j])
         /\ map[j].in = "rp1" => machine = "raspi5b" /\ InsideRp1(map[j])
         /\ map[j].in # "scb"
<1> DEFINE e == map[j]
<1>1. e.in # "none" => Known(machine, e)
  BY MapIsKnown
<1>2. RamOf(machine).in = "system"
  BY SMT DEF RamOf, Place
<1> HIDE DEF e
<1>3. /\ e.in = "system" => e = RamOf(machine) \/ InSystem(machine, e)
      /\ e.in = "peri" => InPeripherals(machine, e)
      /\ e.in = "rp1" => machine = "raspi5b" /\ InsideRp1(e)
      /\ e.in # "scb"
  BY <1>1, <1>2 DEF Known, Listed
<1> QED
  BY <1>3 DEF e

\* In the system only the peripherals lie above the rest.
LEMMA SystemPriorities ==
  ASSUME NEW m, NEW e, e = RamOf(m) \/ InSystem(m, e)
  PROVE  e = PeriOf(m) \/ e.prio = 0
<1> DEFINE big == 2 ^ 30
<1>1. Place("scb", "system", \h107c0000, big, 0).prio = 0
  <2> HIDE DEF big
  <2> QED
    BY SMT DEF Place
<1>2. \A k \in 1 .. 4 : At(GicBlocks[k], "system", \h107fff90 + \h10 * (k - 1)).prio = 0
  BY SMT DEF At, Place
<1>3. /\ RamOf(m).prio = 0 /\ DmaRemap.prio = 0
      /\ At("control", "system", \h400000).prio = 0
      /\ Place("uart0_legacy", "system", \hfe2010, 1, 0).prio = 0
  BY SMT DEF RamOf, DmaRemap, At, Place
<1> QED
  BY <1>1, <1>2, <1>3, SMT DEF InSystem

\* What the regions show when they are asked from the system for a.
Solves(g, a) == \A p \in Points(map, "system", a) : g[p] = Shows(map, g, p[1], p[2])

\* What is shown at one of those points.
LEMMA SolvedAt ==
  ASSUME NEW g, NEW a, Solves(g, a), NEW s, NEW b, <<s, b>> \in Points(map, "system", a)
  PROVE  g[<<s, b>>] = Shows(map, g, s, b)
BY Zenon DEF Solves

\* What is in the peripherals answers the CPU if it answers there.
LEMMA ThroughPeripherals ==
  ASSUME machine \in Machine, MapInv, BridgesPlaced, NEW o \in Nat, o < PeriSize(machine),
         NEW g, Solves(g, PeriBase(machine) + o), NEW v, v # Hole, g[<<"peri", o>>] = v
  PROVE  g[<<"system", PeriBase(machine) + o>>] = v
<1> DEFINE a == PeriBase(machine) + o
<1>1. PeriBase(machine) \in Nat /\ PeriSize(machine) \in Nat
  BY Machines, SMT DEF PeriSize
<1>2. PICK q \in DOMAIN map : map[q] = PeriOf(machine)
  BY DEF BridgesPlaced, Holds
<1>3. /\ map[q].mr = "peri" /\ map[q].in = "system" /\ map[q].at = PeriBase(machine)
      /\ map[q].size = PeriSize(machine) /\ map[q].prio = 1
  BY <1>2, SMT DEF PeriOf, Place
<1>4. q \in Hits(map, "system", a) /\ a - map[q].at = o
  BY <1>1, <1>3 DEF Hits
<1>5. ASSUME NEW j \in Hits(map, "system", a)
      PROVE  g[<<map[j].mr, a - map[j].at>>] \in {Hole, v} \/ ~OnTop(map, j, q)
  <2>1. j \in DOMAIN map /\ map[j].in = "system"
    BY DEF Hits
  <2>2. map[j] = PeriOf(machine) \/ map[j].prio = 0
    BY <2>1, PlacedWhere, SystemPriorities
  <2>3. CASE map[j] = PeriOf(machine)
    BY <1>2, <1>3, <1>4, <2>3
  <2>4. CASE map[j].prio = 0
    BY <1>3, <2>4 DEF OnTop
  <2> QED
    BY <2>2, <2>3, <2>4
<1>6. "system" \in Containers \ DOMAIN AliasOf
  BY SMT DEF Containers, AliasOf
<1>7. a \in Nat /\ <<"system", a>> \in Points(map, "system", a)
  BY <1>1 DEF Points, Named
<1>8. g[<<"system", a>>] = Shows(map, g, "system", a)
  BY <1>7 DEF Solves
<1>9. g[<<map[q].mr, a - map[q].at>>] = v
  BY <1>3, <1>4
<1>10. IsOnTopWith(map, g, "system", a, q, v)
  BY <1>4, <1>5, <1>9 DEF IsOnTopWith
<1> HIDE DEF a
<1>11. Shows(map, g, "system", a) = v
  BY <1>6, <1>10, MapIsWellFormed, TopAnswers
<1> QED
  BY <1>8, <1>11 DEF a

\* A device shows itself.
LEMMA DeviceShowsItself ==
  ASSUME NEW i \in DOMAIN map, map[i].mr \notin Containers \cup DOMAIN AliasOf, NEW a \in Nat,
         NEW g, Solves(g, a)
  PROVE  g[<<map[i].mr, 0>>] = <<map[i].mr, 0>>
<1> DEFINE r == map[i].mr
<1>1. <<r, 0>> \in Points(map, "system", a)
  BY DEF Points, Named
<1> HIDE DEF r
<1>2. g[<<r, 0>>] = Shows(map, g, r, 0)
  BY <1>1 DEF Solves
<1> QED
  BY <1>2, Zenon DEF Shows, r

\* Where the old peripherals are, the RP1 has nothing.
LEMMA Rp1Holes ==
  ASSUME MapInv, NEW o \in {\h8040, \h8050, \h9800, \he050, \h10010}
  PROVE  Hits(map, "rp1", o - \h4000) = {}
<1> SUFFICES ASSUME NEW j \in Hits(map, "rp1", o - \h4000) PROVE FALSE
  OBVIOUS
<1>1. j \in DOMAIN map /\ InsideRp1(map[j]) /\ map[j].at <= o - \h4000
      /\ o - \h4000 < map[j].at + map[j].size
  BY PlacedWhere DEF Hits
<1>2. map[j].at \in Nat /\ map[j].size \in Nat
  BY <1>1, MapIsWellFormed DEF WellFormed, WellPlaced
<1> QED
  BY <1>1, <1>2, SMT DEF InsideRp1, InRp1, Place

\* Where the SD controllers of the RP1 are, it has nothing else.
LEMMA Rp1SdHits ==
  ASSUME MapInv, NEW j
  PROVE  /\ j \in Hits(map, "rp1", \h4000) => map[j] = InRp1("rp1.sd0", \h4000, 1)
         /\ j \in Hits(map, "rp1", \h4100) => map[j] = InRp1("rp1.sd1", \h4100, 1)
<1> SUFFICES ASSUME NEW b \in {\h4000, \h4100}, j \in Hits(map, "rp1", b)
             PROVE  map[j] = IF b = \h4000 THEN InRp1("rp1.sd0", \h4000, 1)
                             ELSE InRp1("rp1.sd1", \h4100, 1)
  BY SMT
<1>1. j \in DOMAIN map /\ InsideRp1(map[j]) /\ map[j].at <= b /\ b < map[j].at + map[j].size
  BY PlacedWhere DEF Hits
<1>2. map[j].at \in Nat /\ map[j].size \in Nat
  BY <1>1, MapIsWellFormed DEF WellFormed, WellPlaced
<1> QED
  BY <1>1, <1>2, SMT DEF InsideRp1, InRp1, Place

\* A device in the peripherals answers at its offset.
LEMMA PeripheralShows ==
  ASSUME machine \in Machine, MapInv, BridgesPlaced, NEW i \in DOMAIN map,
         map[i].mr \notin Containers \cup DOMAIN AliasOf, map[i].mr \in DOMAIN Offset,
         NEW o \in Spots(machine, map[i].mr), map[i] = At(map[i].mr, "peri", o),
         NEW g, Solves(g, PeriBase(machine) + o)
  PROVE  g[<<"peri", o>>] = <<map[i].mr, 0>> /\ o \in Nat /\ o < PeriSize(machine)
         /\ <<map[i].mr, 0>> # Hole
<1> DEFINE d == map[i].mr
           v == <<d, 0>>
           base == PeriBase(machine)
<1>1. /\ o \in Nat /\ Owner(o) = d /\ o < PeriSize(machine)
      /\ o < \h4000 \/ o \in {\h8040, \h8050, \h9800, \he050, \h10010} \/ (o = \h6100 /\ d = "rng")
  BY SpotsAreApart
<1>2. base \in Nat
  BY Machines, SMT
<1>3. v # Hole
  <2>1. "hole" \notin DOMAIN Offset
    BY SMT DEF Offset
  <2> QED
    BY <2>1 DEF Hole
<1>4. g[v] = v
  BY <1>1, <1>2, DeviceShowsItself
<1>5. map[i].in = "peri" /\ map[i].at = o /\ map[i].size = 1 /\ map[i].prio = 0
  BY SMT DEF At, Place
<1>6. i \in Hits(map, "peri", o)
  BY <1>1, <1>5 DEF Hits
<1>7. ASSUME NEW j \in Hits(map, "peri", o)
      PROVE  g[<<map[j].mr, o - map[j].at>>] \in {Hole, v} \/ ~OnTop(map, j, i)
  <2>1. j \in DOMAIN map /\ map[j].in = "peri" /\ map[j].at <= o /\ o < map[j].at + map[j].size
    BY DEF Hits
  <2>2. InPeripherals(machine, map[j])
    BY <2>1, PlacedWhere
  <2>3. CASE map[j].prio = -1000
    BY <1>5, <2>3, SMT DEF OnTop
  <2>4. ASSUME map[j].mr \in DOMAIN Offset, NEW o2 \in Spots(machine, map[j].mr),
               map[j] = At(map[j].mr, "peri", o2)
        PROVE  g[<<map[j].mr, o - map[j].at>>] = v
    <3>1. o2 \in Nat /\ Owner(o2) = map[j].mr
      BY <2>4, SpotsAreApart
    <3>2. map[j].at = o2 /\ map[j].size = 1
      BY <2>4, SMT DEF At, Place
    <3>3. o2 = o
      BY <1>1, <2>1, <3>1, <3>2
    <3> QED
      BY <1>1, <1>4, <3>1, <3>2, <3>3
  <2>5. CASE machine = "raspi5b" /\ map[j] = Rp1Of
    <3>1. map[j].mr = "rp1" /\ map[j].at = \h4000 /\ map[j].prio = 0
      BY <2>5, SMT DEF Rp1Of, Place
    <3>2. CASE o \in {\h8040, \h8050, \h9800, \he050, \h10010}
      <4> DEFINE b == o - \h4000
      <4>1. b \in Nat /\ b <= base + o
        BY <1>1, <1>2, <3>2
      <4>2. <<"rp1", b>> \in Points(map, "system", base + o)
        BY <1>1, <1>2, <2>1, <3>1, <4>1 DEF Points, Named
      <4>3. Hits(map, "rp1", b) = {}
        BY <3>2, Rp1Holes
      <4> HIDE DEF b
      <4>4. g[<<"rp1", b>>] = Shows(map, g, "rp1", b)
        BY <4>2 DEF Solves
      <4>5. "rp1" \in Containers \ DOMAIN AliasOf
        BY SMT DEF Containers, AliasOf
      <4>6. g[<<"rp1", b>>] = Hole
        BY <4>3, <4>4, <4>5, NothingIsHole
      <4> QED
        BY <3>1, <4>6 DEF b
    <3>3. CASE o = \h6100 /\ d = "rng"
      <4>1. map[i] = RngOf
        BY <3>3 DEF RngOf
      <4>2. j < i
        BY <2>1, <2>5, <4>1 DEF BridgesPlaced
      <4>3. i \in Nat /\ j \in Nat
        BY <2>1, MapIsWellFormed DEF WellFormed, IsSequence
      <4> QED
        BY <1>5, <3>1, <4>2, <4>3 DEF OnTop
    <3>4. CASE o < \h4000
      BY <1>1, <2>1, <3>1, <3>4
    <3> QED
      BY <1>1, <3>2, <3>3, <3>4
  <2> QED
    BY <2>2, <2>3, <2>4, <2>5, SMT DEF InPeripherals
<1>8. "peri" \in Containers \ DOMAIN AliasOf
  BY SMT DEF Containers, AliasOf
<1>9. <<"peri", o>> \in Points(map, "system", base + o)
  <2>1. "peri" \in Named(map, "system")
    <3>1. PICK q \in DOMAIN map : map[q] = PeriOf(machine)
      BY DEF BridgesPlaced, Holds
    <3>2. map[q].mr = "peri"
      BY <3>1, SMT DEF PeriOf, Place
    <3> QED
      BY <3>2 DEF Named
  <2> QED
    BY <1>1, <1>2, <2>1 DEF Points
<1>10. g[<<"peri", o>>] = Shows(map, g, "peri", o)
  BY <1>9 DEF Solves
<1>11. g[<<map[i].mr, o - map[i].at>>] = v
  BY <1>1, <1>4, <1>5
<1>12. IsOnTopWith(map, g, "peri", o, i, v)
  BY <1>6, <1>7, <1>11 DEF IsOnTopWith
<1> HIDE DEF v
<1>13. Shows(map, g, "peri", o) = v
  BY <1>3, <1>8, <1>12, MapIsWellFormed, TopAnswers
<1> QED
  BY <1>1, <1>3, <1>10, <1>13 DEF v


\* The peripherals and the RP1 are placed in one way only.
LEMMA PeripheralsArePlacedOnce ==
  ASSUME MapInv, NEW j
  PROVE  /\ j \in Placements(map, "peri") => map[j] = PeriOf(machine)
         /\ j \in Placements(map, "rp1") => map[j] = Rp1Of
<1> SUFFICES ASSUME NEW r \in {"peri", "rp1"}, j \in Placements(map, r)
             PROVE  map[j] = IF r = "peri" THEN PeriOf(machine) ELSE Rp1Of
  OBVIOUS
<1> DEFINE e == map[j]
           m == machine
<1>1. Known(m, e) /\ e.mr = r
  BY MapIsKnown DEF Placements
<1> HIDE DEF e, m
<1>2. e # RamOf(m)
  BY <1>1, SMT DEF RamOf, Place
<1>3. InSystem(m, e) => e = PeriOf(m)
  <2> DEFINE big == 2 ^ 30
  <2>1. \A k \in 1 .. 4 : GicBlocks[k] \notin {"peri", "rp1"}
    BY SMT DEF GicBlocks
  <2>2. \A k \in 1 .. 4 : e # At(GicBlocks[k], "system", \h107fff90 + \h10 * (k - 1))
    BY <1>1, <2>1, SMT DEF At, Place
  <2>3. e # At("control", "system", \h400000) /\ e # DmaRemap
        /\ e # Place("uart0_legacy", "system", \hfe2010, 1, 0)
    BY <1>1, SMT DEF At, DmaRemap, Place
  <2>4. e # Place("scb", "system", \h107c0000, big, 0)
    <3> HIDE DEF big
    <3> QED
      BY <1>1, SMT DEF Place
  <2> QED
    BY <2>2, <2>3, <2>4, SMT DEF InSystem
<1>4. PeriOf(m).mr = "peri" /\ Rp1Of.mr = "rp1"
  BY SMT DEF PeriOf, Rp1Of, Place
<1>5. InPeripherals(m, e) => e = Rp1Of
  <2>1. {"peri", "rp1"} \cap (NoDevice \cup DOMAIN Offset) = {}
    BY SMT DEF NoDevice, Offset
  <2> QED
    BY <1>1, <2>1, SMT DEF InPeripherals
<1>6. ~InsideRp1(e)
  BY <1>1, SMT DEF InsideRp1, Stub, InRp1, Place
<1>7. e.mr \notin {"fb_alias", "property"} \cup DOMAIN AliasOf
  BY <1>1, SMT DEF AliasOf
<1>8. e = IF r = "peri" THEN PeriOf(m) ELSE Rp1Of
  BY <1>1, <1>2, <1>3, <1>4, <1>5, <1>6, <1>7 DEF Known, Listed
<1> QED
  BY <1>8 DEF e, m

\* Devices are in the system, in the peripherals, or on the Pi 5 in the RP1.
LEMMA RealDevicesAreIn ==
  ASSUME NEW m, NEW e, RealPlace(m, e)
  PROVE  e.in \in {"system", "peri"} \/ (e.in = "rp1" /\ m = "raspi5b")
BY SMT DEF RealPlace, At, InRp1, Place

\* An SD controller of the RP1 answers at its offset in the peripherals.
LEMMA Rp1SdShows ==
  ASSUME machine \in Machine, machine = "raspi5b", MapInv, BridgesPlaced, NEW i \in DOMAIN map,
         map[i].mr \notin Containers \cup DOMAIN AliasOf,
         NEW b \in {\h4000, \h4100}, map[i] = InRp1(map[i].mr, b, 1),
         map[i].mr = IF b = \h4000 THEN "rp1.sd0" ELSE "rp1.sd1",
         NEW g, Solves(g, PeriBase(machine) + \h4000 + b)
  PROVE  g[<<"peri", \h4000 + b>>] = <<map[i].mr, 0>>
<1> DEFINE d == map[i].mr
           v == <<d, 0>>
           base == PeriBase(machine)
           o == \h4000 + b
           a == base + \h4000 + b
<1>1. base \in Nat /\ b \in Nat /\ o \in Nat /\ a \in Nat /\ o <= a /\ b <= a
  BY Machines, SMT
<1>2. v # Hole
  BY DEF Hole
<1>3. g[v] = v
  BY <1>1, DeviceShowsItself
<1>4. map[i].in = "rp1" /\ map[i].at = b /\ map[i].size = 1
  BY SMT DEF InRp1, Place
<1>5. PICK q \in DOMAIN map : map[q] = Rp1Of
  BY DEF BridgesPlaced, Holds
<1>6. map[q].mr = "rp1" /\ map[q].in = "peri" /\ map[q].at = \h4000 /\ map[q].size = \h10000
      /\ map[q].prio = 0
  BY <1>5, SMT DEF Rp1Of, Place
<1>7. /\ "rp1" \in Containers \ DOMAIN AliasOf /\ "peri" \in Containers \ DOMAIN AliasOf
      /\ "peri" \in {AliasOf[s] : s \in DOMAIN AliasOf}
  BY SMT DEF Containers, AliasOf
<1>8. <<"rp1", b>> \in Points(map, "system", a) /\ <<"peri", o>> \in Points(map, "system", a)
  <2>1. "rp1" \in Named(map, "system") /\ "peri" \in Named(map, "system")
    BY <1>6, <1>7 DEF Named
  <2>2. b \in 0 .. a /\ o \in 0 .. a
    BY <1>1
  <2> QED
    BY <2>1, <2>2 DEF Points
<1>9. g[<<"rp1", b>>] = Shows(map, g, "rp1", b) /\ g[<<"peri", o>>] = Shows(map, g, "peri", o)
  BY <1>8 DEF Solves
<1>10. g[<<"rp1", b>>] = v
  <2>1. i \in Hits(map, "rp1", b)
    BY <1>1, <1>4 DEF Hits
  <2>2. ASSUME NEW j \in Hits(map, "rp1", b)
        PROVE  <<map[j].mr, b - map[j].at>> = v
    BY <2>2, Rp1SdHits, SMT DEF InRp1, Place
  <2> HIDE DEF v
  <2>3. Shows(map, g, "rp1", b) = g[v]
    BY <1>2, <1>3, <1>7, <2>1, <2>2, MapIsWellFormed, OneThingAnswers
  <2> QED
    BY <1>3, <1>9, <2>3
<1>11. q \in Hits(map, "peri", o) /\ o - map[q].at = b
  BY <1>1, <1>6 DEF Hits
<1>12. ASSUME NEW j \in Hits(map, "peri", o)
       PROVE  g[<<map[j].mr, o - map[j].at>>] \in {Hole, v} \/ ~OnTop(map, j, q)
  <2>1. j \in DOMAIN map /\ map[j].in = "peri" /\ map[j].at <= o /\ o < map[j].at + map[j].size
    BY DEF Hits
  <2>2. InPeripherals(machine, map[j])
    BY <2>1, PlacedWhere
  <2>3. CASE map[j].prio = -1000
    BY <1>6, <2>3, SMT DEF OnTop
  <2>4. ASSUME map[j].mr \in DOMAIN Offset, NEW o2 \in Spots(machine, map[j].mr),
               map[j] = At(map[j].mr, "peri", o2)
        PROVE  FALSE
    <3>1. /\ o2 \in Nat
          /\ o2 < \h4000 \/ o2 \in {\h8040, \h8050, \h9800, \he050, \h10010} \/ o2 = \h6100
      BY <2>4, SpotsAreApart
    <3>2. map[j].at = o2 /\ map[j].size = 1
      BY <2>4, SMT DEF At, Place
    <3>3. o2 = o
      BY <1>1, <2>1, <3>1, <3>2
    <3> QED
      BY <3>1, <3>3
  <2>5. CASE map[j] = Rp1Of
    BY <1>5, <1>6, <1>10, <1>11, <2>5
  <2> QED
    BY <2>2, <2>3, <2>4, <2>5, SMT DEF InPeripherals
<1> HIDE DEF o
<1>13. g[<<map[q].mr, o - map[q].at>>] = v
  BY <1>6, <1>10, <1>11
<1>14. IsOnTopWith(map, g, "peri", o, q, v)
  BY <1>11, <1>12, <1>13 DEF IsOnTopWith
<1> HIDE DEF v
<1>15. Shows(map, g, "peri", o) = v
  BY <1>2, <1>7, <1>14, MapIsWellFormed, TopAnswers
<1> QED
  BY <1>9, <1>15 DEF o, v

\* The local controller of the older chips is above the RAM and the peripherals.
LEMMA ControlShows ==
  ASSUME machine \in Machine, machine # "raspi5b", MapInv, NEW i \in DOMAIN map,
         map[i].mr \notin Containers \cup DOMAIN AliasOf,
         map[i] = At("control", "system", ControlAt),
         NEW g, Solves(g, ControlAt)
  PROVE  g[<<"system", ControlAt>>] = <<map[i].mr, 0>>
<1> DEFINE v == <<map[i].mr, 0>>
<1>1. map[i].mr = "control" /\ map[i].in = "system" /\ map[i].at = ControlAt /\ map[i].size = 1
  BY SMT DEF At, Place
<1>2. v # Hole
  BY <1>1 DEF Hole
<1>3. ControlAt \in Nat
  BY SMT DEF ControlAt
<1>4. g[v] = v
  BY <1>3, DeviceShowsItself
<1>5. "system" \in Containers \ DOMAIN AliasOf
  BY SMT DEF Containers, AliasOf
<1>6. i \in Hits(map, "system", ControlAt)
  BY <1>1, <1>3 DEF Hits
<1>7. ASSUME NEW j \in Hits(map, "system", ControlAt)
      PROVE  <<map[j].mr, ControlAt - map[j].at>> = v
  <2>1. j \in DOMAIN map /\ map[j].in = "system" /\ map[j].at <= ControlAt
        /\ ControlAt < map[j].at + map[j].size
    BY DEF Hits
  <2>2. map[j] # RamOf(machine)
    BY <2>1, Machines, SMT DEF RamOf, Place, ControlAt
  <2>3. map[j] # PeriOf(machine)
    BY <2>1, Machines, SMT DEF PeriOf, PeriSize, Place, ControlAt
  <2>4. map[j] = At("control", "system", ControlAt)
    BY <2>1, <2>2, <2>3, PlacedWhere, SMT DEF InSystem, ControlAt
  <2> QED
    BY <1>1, <1>3, <2>4
<1>8. g[<<"system", ControlAt>>] = Shows(map, g, "system", ControlAt)
  <2>1. <<"system", ControlAt>> \in Points(map, "system", ControlAt)
    BY <1>3 DEF Points, Named
  <2> QED
    BY <2>1, SolvedAt
<1> HIDE DEF v
<1>9. Shows(map, g, "system", ControlAt) = g[v]
  BY <1>2, <1>4, <1>5, <1>6, <1>7, MapIsWellFormed, OneThingAnswers
<1> QED
  BY <1>4, <1>8, <1>9 DEF v

\* A block of the GIC is above a container that holds nothing.
LEMMA GicShows ==
  ASSUME machine \in Machine, machine = "raspi5b", MapInv, NEW i \in DOMAIN map,
         map[i].mr \notin Containers \cup DOMAIN AliasOf,
         NEW n \in 1 .. 4, map[i] = At(GicBlocks[n], "system", GicAt(n)),
         NEW g, Solves(g, GicAt(n))
  PROVE  g[<<"system", GicAt(n)>>] = <<map[i].mr, 0>>
<1> DEFINE v == <<map[i].mr, 0>>
           a == GicAt(n)
           scb == Place("scb", "system", \h107c0000, 2 ^ 30, 0)
<1>1. map[i].mr = GicBlocks[n] /\ map[i].in = "system" /\ map[i].at = a /\ map[i].size = 1
      /\ map[i].prio = 0
  BY SMT DEF At, Place
<1>2. v # Hole
  <2>1. GicBlocks[n] # "hole"
    BY SMT DEF GicBlocks
  <2> QED
    BY <1>1, <2>1 DEF Hole
<1>3. a \in Nat /\ \A x \in {\hc00000 + \h400000, \hfe2010 + 1} : x < a
  BY SMT DEF GicAt
<1>4. g[v] = v
  BY <1>3, DeviceShowsItself, SMT
<1>5. "system" \in Containers \ DOMAIN AliasOf /\ "scb" \in Containers \ DOMAIN AliasOf
  BY SMT DEF Containers, AliasOf
<1>6. i \in Hits(map, "system", a)
  BY <1>1, <1>3, SMT DEF Hits
<1>7. scb.mr = "scb" /\ scb.at \in 0 .. a
  <2> DEFINE big == 2 ^ 30
  <2> HIDE DEF big
  <2>1. Place("scb", "system", \h107c0000, big, 0).mr = "scb"
        /\ Place("scb", "system", \h107c0000, big, 0).at = \h107c0000
    BY SMT DEF Place
  <2>2. \h107c0000 \in 0 .. a
    BY SMT DEF GicAt
  <2> QED
    BY <2>1, <2>2, SMT DEF big
<1> HIDE DEF scb
<1>8. ASSUME NEW j \in Hits(map, "system", a)
      PROVE  g[<<map[j].mr, a - map[j].at>>] \in {Hole, v}
  <2>1. j \in DOMAIN map /\ map[j].in = "system" /\ map[j].at <= a /\ a < map[j].at + map[j].size
    BY DEF Hits
  <2>2. map[j] # RamOf(machine)
    BY <2>1, Machines, SMT DEF RamOf, Place, GicAt
  <2>3. map[j] # PeriOf(machine)
    BY <2>1, Machines, SMT DEF PeriOf, PeriSize, Place, GicAt
  <2>4. map[j] # DmaRemap /\ map[j] # Place("uart0_legacy", "system", \hfe2010, 1, 0)
    BY <2>1, SMT DEF DmaRemap, Place, GicAt
  <2>5. InSystem(machine, map[j])
    BY <2>1, <2>2, PlacedWhere
  <2>6. map[j] = scb \/ \E k \in 1 .. 4 : map[j] = At(GicBlocks[k], "system", GicAt(k))
    <3> HIDE DEF a
    <3> QED
      BY <2>3, <2>4, <2>5, SMT DEF InSystem, scb, GicAt
  <2>7. CASE map[j] = scb
    <3> DEFINE b == a - scb.at
    <3>1. b \in 0 .. a
      BY <1>3, <1>7
    <3>2. <<"scb", b>> \in Points(map, "system", a)
      BY <1>7, <2>1, <2>7, <3>1 DEF Points, Named
    <3>3. Hits(map, "scb", b) = {}
      BY PlacedWhere DEF Hits
    <3> HIDE DEF a, b
    <3>4. g[<<"scb", b>>] = Shows(map, g, "scb", b)
      BY <3>2, SolvedAt DEF a
    <3>5. g[<<"scb", b>>] = Hole
      BY <1>5, <3>3, <3>4, NothingIsHole
    <3> QED
      BY <1>7, <2>7, <3>5 DEF b
  <2>8. ASSUME NEW k \in 1 .. 4, map[j] = At(GicBlocks[k], "system", GicAt(k))
        PROVE  <<map[j].mr, a - map[j].at>> = v
    <3>1. map[j].mr = GicBlocks[k] /\ map[j].at = GicAt(k) /\ map[j].size = 1
      BY <2>8, SMT DEF At, Place
    <3>2. k = n
      BY <2>1, <3>1, SMT DEF GicAt
    <3> QED
      BY <1>1, <1>3, <3>1, <3>2
  <2> QED
    BY <1>4, <2>6, <2>7, <2>8
<1>9. g[<<map[i].mr, a - map[i].at>>] = v
  BY <1>1, <1>3, <1>4
<1>10. g[<<"system", a>>] = Shows(map, g, "system", a)
  <2>1. <<"system", a>> \in Points(map, "system", a)
    BY <1>3 DEF Points, Named
  <2> QED
    BY <2>1, SolvedAt
<1>11. IsOnTopWith(map, g, "system", a, i, v)
  BY <1>6, <1>8, <1>9, Zenon DEF IsOnTopWith
<1> HIDE DEF v, a
<1>12. Shows(map, g, "system", a) = v
  BY <1>2, <1>5, <1>11, MapIsWellFormed, TopAnswers
<1> QED
  BY <1>10, <1>12 DEF v, a

\* Where a container that devices are in begins.
Start(m, c) == CASE c = "system" -> 0
                 [] c = "peri" -> PeriBase(m)
                 [] c = "rp1" -> PeriBase(m) + \h4000

\* A device answers at the address it was placed at.
LEMMA PlacedAnswers ==
  ASSUME machine \in Machine, MapInv, BridgesPlaced, NEW i \in DOMAIN map,
         map[i].mr \notin Containers \cup DOMAIN AliasOf, RealPlace(machine, map[i])
  PROVE  Answer(map, "system", Start(machine, map[i].in) + map[i].at) = <<map[i].mr, 0>>
<1> DEFINE a == Start(machine, map[i].in) + map[i].at
           v == <<map[i].mr, 0>>
<1> SUFFICES Answer(map, "system", a) = v
  OBVIOUS
<1>1. PeriBase(machine) \in Nat
  BY Machines, SMT
<1>2. ASSUME NEW o \in Spots(machine, map[i].mr), map[i].mr \in DOMAIN Offset,
             map[i] = At(map[i].mr, "peri", o)
      PROVE  Answer(map, "system", a) = v
  <2>1. map[i].in = "peri" /\ map[i].at = o
    BY <1>2, SMT DEF At, Place
  <2>2. a = PeriBase(machine) + o /\ o \in Nat
    BY <1>2, <2>1, SpotsAreApart DEF Start
  <2> HIDE DEF a
  <2>3. PICK g : Solves(g, a) /\ Answer(map, "system", a) = g[<<"system", a>>]
    BY <1>1, <2>2, MapIsWellFormed, AnswerIsShown DEF Solves
  <2>4. g[<<"peri", o>>] = v /\ o < PeriSize(machine) /\ v # Hole
    BY <1>2, <2>2, <2>3, PeripheralShows
  <2> HIDE DEF v
  <2> QED
    BY <2>2, <2>3, <2>4, ThroughPeripherals
<1>3. ASSUME machine = "raspi5b", NEW b \in {\h4000, \h4100}, map[i] = InRp1(map[i].mr, b, 1),
             map[i].mr = IF b = \h4000 THEN "rp1.sd0" ELSE "rp1.sd1"
      PROVE  Answer(map, "system", a) = v
  <2>1. map[i].in = "rp1" /\ map[i].at = b
    BY <1>3, SMT DEF InRp1, Place
  <2> DEFINE o == \h4000 + b
  <2>2. a = PeriBase(machine) + \h4000 + b /\ a = PeriBase(machine) + o /\ a \in Nat /\ o \in Nat
    BY <1>1, <2>1 DEF Start
  <2>3. o < PeriSize(machine) /\ v # Hole
    BY <1>3, Machines, SMT DEF PeriSize, Hole
  <2> HIDE DEF a
  <2>4. PICK g : Solves(g, a) /\ Answer(map, "system", a) = g[<<"system", a>>]
    BY <2>2, MapIsWellFormed, AnswerIsShown DEF Solves
  <2>5. g[<<"peri", o>>] = v
    BY <1>3, <2>2, <2>4, Rp1SdShows
  <2> HIDE DEF v, o
  <2> QED
    BY <2>2, <2>3, <2>4, <2>5, ThroughPeripherals
<1>4. CASE machine # "raspi5b" /\ map[i] = At("control", "system", ControlAt)
  <2>1. map[i].in = "system" /\ map[i].at = ControlAt
    BY <1>4, SMT DEF At, Place
  <2>2. a = ControlAt /\ a \in Nat
    BY <2>1, SMT DEF Start, ControlAt
  <2> HIDE DEF a
  <2>3. PICK g : Solves(g, a) /\ Answer(map, "system", a) = g[<<"system", a>>]
    BY <2>2, MapIsWellFormed, AnswerIsShown DEF Solves
  <2>4. g[<<"system", a>>] = v
    BY <1>4, <2>2, <2>3, ControlShows
  <2> QED
    BY <2>3, <2>4
<1>5. ASSUME machine = "raspi5b", NEW n \in 1 .. 4,
             map[i] = At(GicBlocks[n], "system", GicAt(n))
      PROVE  Answer(map, "system", a) = v
  <2>1. map[i].in = "system" /\ map[i].at = GicAt(n)
    BY <1>5, SMT DEF At, Place
  <2>2. a = GicAt(n) /\ a \in Nat
    BY <2>1, SMT DEF Start, GicAt
  <2> HIDE DEF a
  <2>3. PICK g : Solves(g, a) /\ Answer(map, "system", a) = g[<<"system", a>>]
    BY <2>2, MapIsWellFormed, AnswerIsShown DEF Solves
  <2>4. g[<<"system", a>>] = v
    BY <1>5, <2>2, <2>3, GicShows
  <2> QED
    BY <2>3, <2>4
<1>6. CASE machine = "raspi5b" /\ map[i] \in {InRp1("rp1.sd0", \h4000, 1), InRp1("rp1.sd1", \h4100, 1)}
  <2>1. \E b \in {\h4000, \h4100} :
          map[i] = InRp1(map[i].mr, b, 1) /\ map[i].mr = IF b = \h4000 THEN "rp1.sd0" ELSE "rp1.sd1"
    BY <1>6, SMT DEF InRp1, Place
  <2> QED
    BY <1>3, <1>6, <2>1, SMT
<1> HIDE DEF a, v
<1> QED
  BY <1>2, <1>4, <1>5, <1>6 DEF RealPlace

\* Where a device begins is one of the addresses it was placed at.
LEMMA BeginsWherePlaced ==
  ASSUME BuildInv, machine \in Machine, MapInv, BridgesPlaced, NEW k \in RealDevices
  PROVE  \E i \in Placements(map, map[k].mr) :
           Begins(map, "system", map[k].mr) = Start(machine, map[i].in) + map[i].at
<1> DEFINE r == map[k].mr
<1>1. /\ k \in DOMAIN map /\ r \notin Containers /\ map[k].in # "none"
      /\ {"system", "peri", "rp1"} \subseteq Containers
  BY DEF RealDevices, Containers
<1>2. PICK f : \A s \in Regions(map) :
        f[s] = Sum(map, "system", f, s) /\ Begins(map, "system", s) = f[s]
  BY MapIsNested, BeginsIsSum
<1>3. f["system"] = 0
  BY <1>1, <1>2 DEF Sum, Regions
<1>4. f["peri"] = PeriBase(machine)
  <2>1. PICK q \in DOMAIN map : map[q] = PeriOf(machine)
    BY DEF BridgesPlaced, Holds
  <2>2. PeriOf(machine).mr = "peri" /\ PeriOf(machine).in = "system"
        /\ PeriOf(machine).at = PeriBase(machine)
    BY SMT DEF PeriOf, Place
  <2>3. q \in Placements(map, "peri")
    BY <2>1, <2>2 DEF Placements
  <2>4. ASSUME NEW j \in Placements(map, "peri")
        PROVE  map[j] = PeriOf(machine)
    BY PeripheralsArePlacedOnce
  <2> DEFINE i == CHOOSE i \in Placements(map, "peri") : TRUE
  <2>5. i \in Placements(map, "peri")
    BY <2>3
  <2>6. f["peri"] = f[map[i].in] + map[i].at
    <3>1. f["peri"] = Sum(map, "system", f, "peri")
      BY <1>1, <1>2 DEF Regions
    <3> QED
      BY <2>3, <3>1, Zenon DEF Sum
  <2> HIDE DEF i
  <2>7. map[i] = PeriOf(machine)
    BY <2>4, <2>5
  <2> QED
    BY <1>3, <2>2, <2>6, <2>7, Machines, SMT
<1>5. machine = "raspi5b" => f["rp1"] = PeriBase(machine) + \h4000
  <2> SUFFICES ASSUME machine = "raspi5b" PROVE f["rp1"] = PeriBase(machine) + \h4000
    OBVIOUS
  <2>1. PICK q \in DOMAIN map : map[q] = Rp1Of
    BY DEF BridgesPlaced, Holds
  <2>2. Rp1Of.mr = "rp1" /\ Rp1Of.in = "peri" /\ Rp1Of.at = \h4000
    BY SMT DEF Rp1Of, Place
  <2>3. q \in Placements(map, "rp1")
    BY <2>1, <2>2 DEF Placements
  <2>4. ASSUME NEW j \in Placements(map, "rp1")
        PROVE  map[j] = Rp1Of
    BY PeripheralsArePlacedOnce
  <2> DEFINE i == CHOOSE i \in Placements(map, "rp1") : TRUE
  <2>5. i \in Placements(map, "rp1")
    BY <2>3
  <2>6. f["rp1"] = f[map[i].in] + map[i].at
    <3>1. f["rp1"] = Sum(map, "system", f, "rp1")
      BY <1>1, <1>2 DEF Regions
    <3> QED
      BY <2>3, <3>1, Zenon DEF Sum
  <2> HIDE DEF i
  <2>7. map[i] = Rp1Of
    BY <2>4, <2>5
  <2> QED
    BY <1>4, <2>2, <2>6, <2>7
<1> DEFINE i == CHOOSE i \in Placements(map, r) : TRUE
<1>6. i \in Placements(map, r)
  BY <1>1 DEF Placements
<1>7. f[r] = f[map[i].in] + map[i].at
  <2>1. f[r] = Sum(map, "system", f, r) /\ r # "system"
    BY <1>1, <1>2 DEF Regions
  <2> HIDE DEF r
  <2> QED
    BY <1>6, <2>1, Zenon DEF Sum
<1>8. Begins(map, "system", r) = f[r]
  BY <1>1, <1>2 DEF Regions
<1> HIDE DEF i
<1>9. map[i].in \in {"system", "peri"} \/ (map[i].in = "rp1" /\ machine = "raspi5b")
  <2>1. RealPlace(machine, map[i])
    BY <1>6, RealDevicesArePlaced
  <2> QED
    BY <2>1, RealDevicesAreIn
<1>10. f[map[i].in] = Start(machine, map[i].in)
  BY <1>3, <1>4, <1>5, <1>9 DEF Start
<1> QED
  BY <1>6, <1>7, <1>8, <1>10 DEF r

\* The CPU reaches every device of a machine that was made, where it was mapped.
THEOREM NoDeviceIsHidden == Spec => []NoDeviceHidden
<1>1. BuildInv /\ MapInv /\ OrderInv => NoDeviceHidden
  <2> SUFFICES ASSUME BuildInv, MapInv, OrderInv, Complete, NEW k \in RealDevices
               PROVE  Answer(map, "system", Begins(map, "system", map[k].mr)) = <<map[k].mr, 0>>
    BY DEF NoDeviceHidden
  <2>1. machine \in Machine /\ BridgesPlaced
    BY CompleteHasBridges DEF BuildInv
  <2>2. PICK i \in Placements(map, map[k].mr) :
          Begins(map, "system", map[k].mr) = Start(machine, map[i].in) + map[i].at
    BY <2>1, BeginsWherePlaced
  <2>3. i \in DOMAIN map /\ map[i].mr = map[k].mr
    BY DEF Placements
  <2>4. RealPlace(machine, map[i]) /\ map[i].mr \notin Containers \cup DOMAIN AliasOf
    BY <2>3, RealDevicesArePlaced
  <2> QED
    BY <2>1, <2>2, <2>3, <2>4, PlacedAnswers
<1> QED
  BY <1>1, BuildInvariant, MapInvariant, OrderInvariant, PTL

-----------------------------------------------------------------------------
(* The SD bus.                                                               *)

\* The operation passes on the SD bus of the chip.
PassesOn(op) == op.kind = "sdbus" /\ op.dev = "soc"
NonePassesOn(s) == \A k \in DOMAIN s : ~PassesOn(s[k])

\* The Pi 5's chip does not, unless it is given the call that it lacks.
LacksSdBus(m) == m = "raspi5b" /\ ~SdBusAlias

\* A concatenation passes on what its parts do.
LEMMA ConcatPassesOn ==
  ASSUME NEW s, NEW t, IsSequence(s), IsSequence(t)
  PROVE  IsSequence(s \o t) /\ (NonePassesOn(s \o t) <=> NonePassesOn(s) /\ NonePassesOn(t))
<1> DEFINE S == {s[k] : k \in DOMAIN s} \cup {t[k] : k \in DOMAIN t}
           u == s \o t
<1>1. s \in Seq(S) /\ t \in Seq(S)
  BY SeqMonotonic DEF IsSequence
<1>2. /\ Len(u) = Len(s) + Len(t) /\ DOMAIN u = 1 .. Len(u)
      /\ \A i \in 1 .. Len(s) + Len(t) : u[i] = IF i <= Len(s) THEN s[i] ELSE t[i - Len(s)]
  BY <1>1, ConcatProperties, LenProperties
<1>3. IsSequence(u)
  BY ConcatIsSequence
<1>4. /\ \A k \in DOMAIN s : \E j \in DOMAIN u : u[j] = s[k]
      /\ \A k \in DOMAIN t : \E j \in DOMAIN u : u[j] = t[k]
  BY ConcatHasElements
<1> HIDE DEF u
<1>5. ASSUME NEW k \in DOMAIN u
      PROVE  \/ k \in DOMAIN s /\ u[k] = s[k]
             \/ k - Len(s) \in DOMAIN t /\ u[k] = t[k - Len(s)]
  BY <1>2 DEF IsSequence
<1>6. NonePassesOn(u) <=> NonePassesOn(s) /\ NonePassesOn(t)
  BY <1>4, <1>5, Zenon DEF NonePassesOn
<1> QED
  BY <1>3, <1>6 DEF u

\* The peripherals pass on their own bus only.
LEMMA PeripheralsPassOnTheirs ==
  ASSUME NEW m \in Machine
  PROVE  NonePassesOn(Program[m]["common"]) /\ NonePassesOn(Program[m]["own"])
<1>1. NonePassesOn(Common(m))
  <2>1. NonePassesOn(GpuBus(m)) /\ NonePassesOn(CoreDevices)
    <3>1. NonePassesOn(GpuBus(m))
      BY SMT DEF NonePassesOn, PassesOn, Wire, Child, Other, GpuBus
    <3>2. NonePassesOn(CoreDevices)
      BY SMT DEF NonePassesOn, PassesOn, Wire, Child, Other, CoreDevices
    <3> QED
      BY <3>1, <3>2
  <2>2. NonePassesOn(Video) /\ NonePassesOn(StorageAndDma)
    <3>1. NonePassesOn(Video)
      BY SMT DEF NonePassesOn, PassesOn, Wire, Child, Other, Video
    <3>2. NonePassesOn(StorageAndDma)
      BY SMT DEF NonePassesOn, PassesOn, Wire, Child, Other, StorageAndDma
    <3> QED
      BY <3>1, <3>2
  <2>3. NonePassesOn(SerialBuses) /\ NonePassesOn(Unimplemented)
    <3>1. NonePassesOn(SerialBuses)
      BY SMT DEF NonePassesOn, PassesOn, Wire, Child, Other, SerialBuses
    <3>2. NonePassesOn(Unimplemented)
      BY SMT DEF NonePassesOn, PassesOn, Wire, Child, Other, Unimplemented
    <3> QED
      BY <3>1, <3>2
  <2> QED
    BY <2>1, <2>2, <2>3, PiecesAreSequences, ConcatPassesOn DEF Common
<1>2. NonePassesOn(Own2835)
  BY SMT DEF NonePassesOn, PassesOn, Own2835, Wire, Child, Other
<1>3. NonePassesOn(Own2712)
  <2> DEFINE storage1 == <<Child("emmc2", <<InPeri("emmc2")>>, {})>>
             storage2 == <<Child("rp1", <<Rp1Of>>, {}), Other("sdbus", "peripherals")>>
  <2>1. NonePassesOn(Uart2712) /\ NonePassesOn(Gates2712) /\ NonePassesOn(Sensors2712)
    <3>1. NonePassesOn(Uart2712)
      BY SMT DEF NonePassesOn, PassesOn, Wire, Child, Other, Uart2712
    <3>2. NonePassesOn(Gates2712)
      BY SMT DEF NonePassesOn, PassesOn, Wire, Child, Other, Gates2712
    <3>3. NonePassesOn(Sensors2712)
      BY SMT DEF NonePassesOn, PassesOn, Wire, Child, Other, Sensors2712
    <3> QED
      BY <3>1, <3>2, <3>3
  <2>2. NonePassesOn(Rp1) /\ IsSequence(Rp1)
    <3>1. NonePassesOn(Rp1Blocks) /\ NonePassesOn(Rp1I2cs) /\ NonePassesOn(Rp1Spis)
      <4>1. NonePassesOn(Rp1Blocks)
        BY SMT DEF NonePassesOn, PassesOn, Wire, Child, Other, Rp1Blocks
      <4>2. NonePassesOn(Rp1I2cs)
        BY SMT DEF NonePassesOn, PassesOn, Wire, Child, Other, Rp1I2cs
      <4>3. NonePassesOn(Rp1Spis)
        BY SMT DEF NonePassesOn, PassesOn, Wire, Child, Other, Rp1Spis
      <4> QED
        BY <4>1, <4>2, <4>3
    <3>2. Rp1I2cs = [k \in 1 .. 6 |-> Rp1I2cs[k]] /\ Rp1Spis = [k \in 1 .. 6 |-> Rp1Spis[k]]
      BY SMT DEF Rp1I2cs, Rp1Spis
    <3>3. IsSequence(Rp1Blocks)
      BY SMT DEF IsSequence, Rp1Blocks
    <3>4. IsSequence(Rp1I2cs) /\ IsSequence(Rp1Spis)
      BY <3>2, FunctionIsSequence, Zenon
    <3> QED
      BY <3>1, <3>3, <3>4, ConcatPassesOn DEF Rp1
  <2>3. IsSequence(storage1) /\ IsSequence(storage2)
    BY TupleIsSequence, Zenon
  <2>4. NonePassesOn(storage1) /\ NonePassesOn(storage2)
    <3>1. NonePassesOn(storage1)
      BY SMT DEF NonePassesOn, PassesOn, Wire, Child, Other
    <3>2. NonePassesOn(storage2)
      BY SMT DEF NonePassesOn, PassesOn, Wire, Child, Other
    <3> QED
      BY <3>1, <3>2
  <2>5. Storage2712 = storage1 \o Rp1 \o storage2
    BY SMT DEF Storage2712, Rp1Of
  <2> HIDE DEF storage1, storage2
  <2>6. IsSequence(Storage2712) /\ NonePassesOn(Storage2712)
    BY <2>2, <2>3, <2>4, <2>5, ConcatPassesOn
  <2>7. IsSequence(Uart2712 \o Storage2712) /\ NonePassesOn(Uart2712 \o Storage2712)
    BY <2>1, <2>6, PiecesAreSequences, ConcatPassesOn
  <2>8. /\ IsSequence((Uart2712 \o Storage2712) \o Gates2712)
        /\ NonePassesOn((Uart2712 \o Storage2712) \o Gates2712)
    BY <2>1, <2>7, PiecesAreSequences, ConcatPassesOn
  <2> QED
    BY <2>1, <2>8, PiecesAreSequences, ConcatPassesOn DEF Own2712
<1>4. /\ Program[m]["common"] = Common(m)
      /\ Program[m]["own"] \in {Own2712, Own2835}
  BY SMT DEF Program
<1> QED
  BY <1>1, <1>2, <1>3, <1>4

\* Every chip passes on its bus but that of the Pi 5.
LEMMA ChipPassesOn ==
  ASSUME NEW m \in Machine
  PROVE  NonePassesOn(Program[m]["soc"]) <=> LacksSdBus(m)
<1>1. CASE m = "raspi5b"
  <2>1. NonePassesOn(MemoryMap2712) /\ NonePassesOn(Gic2712) /\ NonePassesOn(Late2712)
    <3>1. NonePassesOn(MemoryMap2712)
      BY SMT DEF NonePassesOn, PassesOn, Wire, Child, Other, MemoryMap2712
    <3>2. NonePassesOn(Gic2712)
      BY SMT DEF NonePassesOn, PassesOn, Wire, Child, Other, Gic2712
    <3>3. NonePassesOn(Late2712)
      BY SMT DEF NonePassesOn, PassesOn, Wire, Child, Other, Late2712
    <3> QED
      BY <3>1, <3>2, <3>3
  <2>2. NonePassesOn(Cpus2712)
    <3>1. \A c : Cpu2712(c).kind = "child"
      BY SMT DEF Cpu2712, Child
    <3> QED
      BY <3>1, SMT DEF NonePassesOn, PassesOn, Cpus2712
  <2>3. NonePassesOn(PassedOn2712) <=> ~SdBusAlias
    <3>1. CASE SdBusAlias
      <4>1. 1 \in DOMAIN PassedOn2712 /\ PassesOn(PassedOn2712[1])
        BY <3>1, SMT DEF PassesOn, PassedOn2712, Other
      <4> QED
        BY <3>1, <4>1 DEF NonePassesOn
    <3>2. CASE ~SdBusAlias
      BY <3>2, SMT DEF NonePassesOn, PassedOn2712
    <3> QED
      BY <3>1, <3>2
  <2>4. Program[m]["soc"] = Soc2712
    BY <1>1, Machines, SMT DEF Program
  <2> QED
    BY <1>1, <2>1, <2>2, <2>3, <2>4, Soc2712IsSequences, ConcatPassesOn DEF Soc2712, LacksSdBus
<1>2. CASE m # "raspi5b"
  <2>1. Program[m]["soc"] = SocBase(m) \o (IF Soc(m) = "bcm2835" THEN Soc2835 ELSE Soc2836)
    BY <1>2, Machines, SMT DEF Program
  <2>2. ~NonePassesOn(SocBase(m))
    <3>1. 1 \in DOMAIN SocBase(m) /\ PassesOn(SocBase(m)[1])
      BY SMT DEF SocBase, PassesOn, Other
    <3> QED
      BY <3>1 DEF NonePassesOn
  <2> QED
    BY <1>2, <2>1, <2>2, PiecesAreSequences, Soc2836IsSequences, ConcatPassesOn DEF LacksSdBus
<1> QED
  BY <1>1, <1>2

\* While no error is set, the chip's bus was passed on if an operation so far does
\* that; if it was, the machine is not the Pi 5 the call is missing from; and the
\* SD card is where it turns out.
SdBusInv ==
  /\ "soc" \in sdbus => ~LacksSdBus(machine)
  /\ phase = "soc" /\ ~error =>
       \A k \in DOMAIN Program[machine]["soc"] :
         k < at /\ PassesOn(Program[machine]["soc"][k]) => "soc" \in sdbus
  /\ phase \in Past => ("soc" \in sdbus \/ LacksSdBus(machine))
  /\ phase \in {"boot", "ready"} => ~LacksSdBus(machine)
  /\ phase = "no_sd_bus" => LacksSdBus(machine)

\* The operation that is next, and those before it.
LEMMA NextOperation ==
  ASSUME BuildInv, at > 0, Working
  PROVE  /\ phase \in Sections /\ phase \notin Past /\ machine \in Machine
         /\ at \in DOMAIN Program[machine][phase] /\ Op = Program[machine][phase][at]
         /\ \A k \in DOMAIN Program[machine][phase] : k < at + 1 => k < at \/ k = at
<1>1. phase \in Sections /\ IsSequence(Section) /\ Section = Program[machine][phase]
  BY SectionsAreSequences DEF BuildInv, Working, Section
<1>2. at \in Nat /\ machine \in Machine
  BY DEF BuildInv
<1>3. phase \notin Past
  BY <1>1 DEF Past, Sections
<1>4. at \in DOMAIN Section /\ Op = Section[at]
  BY <1>1, <1>2 DEF Working, IsSequence, Op
<1>5. \A k \in DOMAIN Section : k < at + 1 => k < at \/ k = at
  BY <1>1, <1>2 DEF IsSequence
<1> QED
  BY <1>1, <1>2, <1>3, <1>4, <1>5

\* The bus of the chip is found if and only if the chip passes it on.
THEOREM SdBusInvariant == Spec => []SdBusInv
<1>1. Init => SdBusInv
  <2>1. Init => phase = "start" /\ sdbus = {}
    BY Zenon DEF Init
  <2> QED
    BY <2>1 DEF SdBusInv, Past
<1>2. BuildInv /\ MapInv /\ SdBusInv /\ [Next]_vars => SdBusInv'
  <2> SUFFICES ASSUME BuildInv, MapInv, SdBusInv, [Next]_vars PROVE SdBusInv'
    OBVIOUS
  <2>1. at > 0 /\ machine \in Machine
    BY DEF BuildInv, MapInv
  <2>2. ASSUME Working, Advance, error' = error,
               sdbus' = IF Op.kind = "sdbus" THEN sdbus \cup {Op.dev} ELSE sdbus
        PROVE  SdBusInv'
    <3>1. machine' = machine /\ phase' = phase /\ at' = at + 1
      BY <2>2 DEF Advance
    <3>2. "soc" \in sdbus' <=> "soc" \in sdbus \/ PassesOn(Op)
      BY <2>2 DEF PassesOn
    <3>3. PassesOn(Op) => phase = "soc" /\ ~LacksSdBus(machine)
      BY <2>1, <2>2, NextOperation, PeripheralsPassOnTheirs, ChipPassesOn DEF NonePassesOn, Sections
    <3>4. ASSUME phase = "soc", ~error, NEW k \in DOMAIN Program[machine]["soc"], k < at + 1,
                 PassesOn(Program[machine]["soc"][k])
          PROVE  "soc" \in sdbus'
      <4>1. k < at \/ (k = at /\ Op = Program[machine]["soc"][k])
        BY <2>1, <2>2, <3>4, NextOperation
      <4> QED
        BY <3>2, <3>4, <4>1 DEF SdBusInv
    <3>5. phase \in Sections
      BY <2>2 DEF Working
    <3> QED
      BY <2>2, <3>1, <3>2, <3>3, <3>4, <3>5 DEF SdBusInv, Past, Sections
  <2>3. ASSUME UNCHANGED <<machine, sdbus>>, phase' \in Past \cup {"soc"} => phase' = phase,
               error' \/ (phase' = phase => at' = at /\ error' = error)
        PROVE  SdBusInv'
    BY <2>3 DEF SdBusInv, Past
  <2>4. CASE RamIsWrong \/ RamIsRight
    BY <2>3, <2>4 DEF RamIsWrong, RamIsRight, built, Past
  <2>5. CASE WireUp
    BY <2>2, <2>5 DEF WireUp
  <2>6. CASE Realize
    BY <2>2, <2>6 DEF Realize
  <2>7. CASE RealizeFails \/ RealizeUnderError
    <3>1. UNCHANGED <<machine, phase, sdbus>> /\ error'
      BY <2>7 DEF RealizeFails, RealizeUnderError, Skip, built
    <3> QED
      BY <2>3, <3>1
  <2>8. CASE PlaceVcram
    BY <2>2, <2>8 DEF PlaceVcram
  <2>9. CASE Unmap \/ Expire
    BY <2>2, <2>9 DEF Unmap, Expire
  <2>10. CASE UnmapAsserts \/ Lost
    BY <2>3, <2>10 DEF UnmapAsserts, Lost, built, Past, Working, Sections
  <2>11. CASE PassSdBus
    BY <2>2, <2>11 DEF PassSdBus
  <2>12. CASE EndSection
    <3>1. /\ phase \in Sections /\ at > Len(Section) /\ at' = 1 /\ UNCHANGED <<machine, error, sdbus>>
          /\ Section = Program[machine][phase] /\ IsSequence(Section) /\ at \in Nat
      BY <2>1, <2>12, SectionsAreSequences DEF EndSection, built, Section, BuildInv
    <3>2. CASE phase = "common"
      <4>1. phase' = "own"
        BY <2>12, <3>2 DEF EndSection, Return
      <4> QED
        BY <2>3, <3>1, <3>2, <4>1 DEF Past
    <3>3. CASE phase = "own"
      <4>1. phase' \in {"soc", "failed"}
        BY <2>12, <3>3 DEF EndSection, Return
      <4>2. IsSequence(Program[machine]["soc"])
        BY <2>1, SectionsAreSequences DEF Sections
      <4>3. \A k \in DOMAIN Program[machine]["soc"] : ~(k < 1)
        BY <4>2 DEF IsSequence
      <4> QED
        BY <3>1, <4>1, <4>3 DEF SdBusInv, Past
    <3>4. CASE phase = "soc"
      <4>1. phase' = IF error THEN "failed" ELSE "card"
        BY <2>12, <3>4 DEF EndSection, Return
      <4>2. \A k \in DOMAIN Program[machine]["soc"] : k < at
        BY <3>1, <3>4 DEF IsSequence
      <4>3. ~error => ("soc" \in sdbus \/ LacksSdBus(machine))
        BY <2>1, <3>4, <4>2, ChipPassesOn DEF SdBusInv, NonePassesOn
      <4> QED
        BY <3>1, <4>1, <4>3 DEF SdBusInv, Past
    <3> QED
      BY <3>1, <3>2, <3>3, <3>4 DEF Sections
  <2>13. CASE SdCard
    <3>1. /\ phase = "card" /\ phase' = IF "soc" \in sdbus THEN "boot" ELSE "no_sd_bus"
          /\ UNCHANGED <<machine, sdbus>>
      BY <2>13 DEF SdCard, built
    <3> QED
      BY <3>1 DEF SdBusInv, Past
  <2>14. CASE phase = "boot" /\ phase' \in {"ready", "failed"} /\ UNCHANGED <<machine, sdbus>>
    BY <2>14 DEF SdBusInv, Past
  <2>15. CASE UNCHANGED vars
    BY <2>3, <2>15 DEF vars, built
  <2> QED
    BY <2>4, <2>5, <2>6, <2>7, <2>8, <2>9, <2>10, <2>11, <2>12, <2>13, <2>14, <2>15
       DEF Next, built, BootFirmware, FirmwareFails, BootKernel, Stopped
<1> QED
  BY <1>1, <1>2, BuildInvariant, MapInvariant, PTL DEF Spec

\* Every machine finds its SD bus but the Pi 5, which finds it with the call that
\* the older chips make; without, it is never ready.
THEOREM OnlyPi5LacksSdBus ==
  Spec => [](IF machine = "raspi5b" /\ ~SdBusAlias THEN phase # "ready" ELSE SdBusFound)
<1>1. SdBusInv => IF machine = "raspi5b" /\ ~SdBusAlias THEN phase # "ready" ELSE SdBusFound
  BY DEF SdBusInv, LacksSdBus, SdBusFound
<1> QED
  BY <1>1, SdBusInvariant, PTL

-----------------------------------------------------------------------------
(* What every state of the board looks like.                                 *)

\* What has been realized is a part of the machine, and the bus is on the
\* peripherals or the chip.
PartsInv ==
  /\ realized \subseteq Children(machine)
  /\ sdbus \subseteq {"peripherals", "soc"}

\* A child that is next is a part of the machine.
LEMMA OpIsChild ==
  ASSUME BuildInv, at > 0, Working, Op.kind = "child"
  PROVE  Op.dev \in Children(machine)
<1>1. phase \in Sections /\ IsSequence(Section) /\ Section = Program[machine][phase]
  BY SectionsAreSequences DEF BuildInv, Working, Section
<1>2. at \in DOMAIN Program[machine][phase]
  BY <1>1 DEF Working, IsSequence, BuildInv
<1> DEFINE P == Program[machine]
           kids(s) == {P[s][k].dev : k \in {j \in DOMAIN P[s] : P[s][j].kind = "child"}}
<1>3. Op = P[phase][at]
  BY <1>1 DEF Op
<1> HIDE DEF P
<1>4. Op.dev \in kids(phase)
  BY <1>2, <1>3 DEF P
<1>5. Children(machine) = UNION {kids(s) : s \in Sections}
  BY Zenon DEF Children, P
<1> QED
  BY <1>1, <1>4, <1>5

\* Realizing adds the operation's child, and passing on the bus its object.
THEOREM PartsInvariant == Spec => []PartsInv
<1>1. Init => PartsInv
  <2>1. Init => realized = {} /\ sdbus = {}
    BY Zenon DEF Init
  <2> QED
    BY <2>1 DEF PartsInv
<1>2. BuildInv /\ MapInv /\ PartsInv /\ [Next]_vars => PartsInv'
  <2> SUFFICES ASSUME BuildInv, MapInv, PartsInv, [Next]_vars PROVE PartsInv'
    OBVIOUS
  <2>1. at > 0
    BY DEF MapInv
  <2>2. ASSUME Working, Op.kind = "child", UNCHANGED <<machine, sdbus>>,
               realized' \in {realized, realized \cup {Op.dev}}
        PROVE  PartsInv'
    BY <2>1, <2>2, OpIsChild DEF PartsInv
  <2>3. CASE Realize
    BY <2>2, <2>3 DEF Realize, Advance
  <2>4. CASE RealizeUnderError
    BY <2>2, <2>4 DEF RealizeUnderError, Skip
  <2>5. CASE PassSdBus
    <3>1. Op.dev \in {"peripherals", "soc"}
      BY <2>1, <2>5, OpIsSound DEF PassSdBus, SoundOp
    <3> QED
      BY <2>5, <3>1 DEF PassSdBus, PartsInv, Advance
  <2>6. CASE UNCHANGED <<machine, realized, sdbus>>
    BY <2>6 DEF PartsInv
  <2>7. CASE WireUp \/ PlaceVcram \/ Unmap \/ Expire
    BY <2>6, <2>7, Zenon DEF WireUp, PlaceVcram, Unmap, Expire, Advance
  <2>8. CASE \/ RamIsWrong \/ RamIsRight \/ RealizeFails \/ UnmapAsserts \/ Lost \/ EndSection
            \/ SdCard \/ FirmwareFails \/ BootFirmware \/ BootKernel \/ Stopped
    BY <2>6, <2>8, Zenon
       DEF RamIsWrong, RamIsRight, RealizeFails, UnmapAsserts, Lost, EndSection, SdCard,
           FirmwareFails, BootFirmware, BootKernel, Stopped, Skip, built, vars
  <2>9. CASE UNCHANGED vars
    BY <2>6, <2>9, Zenon DEF vars, built
  <2> QED
    BY <2>3, <2>4, <2>5, <2>7, <2>8, <2>9, Zenon DEF Next
<1> QED
  BY <1>1, <1>2, BuildInvariant, MapInvariant, PTL DEF Spec

\* Whatever is asked for, the state stays of its type; that no output drives
\* itself and that nothing is put into what is no container follows from the
\* operations being good.
THEOREM TypeInvariant == Spec => []TypeOK
<1>1. BuildInv /\ MapInv /\ VcramInv /\ LineInv /\ PartsInv => TypeOK
  <2> SUFFICES ASSUME BuildInv, MapInv, VcramInv, LineInv, PartsInv PROVE TypeOK
    OBVIOUS
  <2>1. /\ machine \in Machine /\ at \in Nat \ {0} /\ error \in BOOLEAN
        /\ phase \in Sections \cup {"start", "card", "boot", "ready", "failed", "no_sd_bus"}
    BY DEF BuildInv, MapInv, Phases
  <2>2. \A k \in DOMAIN map : map[k].in \in Containers \cup {"none"}
    <3>1. "system" \in Containers /\ "gpu" \in Containers
      BY DEF Containers
    <3>2. \A e : Sound(machine, e) => e.in \in Containers \cup {"none"}
      BY <3>1 DEF Sound, RamOf, GpuRamOf, Place, Apart
    <3> QED
      BY <3>2 DEF MapInv
  <2>3. \A o \in DOMAIN line : o # line[o]
    BY DEF LineInv, GoodLine
  <2>4. vcram \in [base : Nat, size : Nat] /\ boot.ram \in Nat
    BY Sizes, SMT DEF VcramInv
  <2> QED
    BY <2>1, <2>2, <2>3, <2>4 DEF TypeOK, PartsInv
<1> QED
  BY <1>1, BuildInvariant, MapInvariant, VcramInvariant, LineInvariant, PartsInvariant, PTL
=============================================================================
