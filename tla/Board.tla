--------------------------------- MODULE Board ---------------------------------
(***************************************************************************)
(* Making a Raspberry Pi: raspi_base_machine_init checks the size of RAM,  *)
(* maps it, realizes the chip, plugs in the SD card and sets up booting;   *)
(* raspi5b_machine_init adds a bootloader for kernels that are not Linux.  *)
(* Realizing the chip runs the operations of SocWiring one by one, and any *)
(* child of it may fail to be realized.                                    *)
(*                                                                         *)
(* A function that meets an error returns at once.  The peripherals of a   *)
(* chip ignore an error of the common ones and go on until they realize a  *)
(* child of their own, which then counts as failed; the chip's caller ends *)
(* QEMU.  Connecting a device that was not realized may end it earlier;    *)
(* the outcome is the same.                                                *)
(***************************************************************************)
EXTENDS SocWiring

CONSTANTS
  Vcram,    \* the sizes of video memory asked for (64 MiB when none is)
  Entries   \* where the programs to boot may begin

\* Where the upper RAM begins: 1 GiB.
UpperRamBase == \h400000

\* There is video memory, less than 1 GiB of it; a program begins anywhere.
ASSUME BoardConstants ==
  /\ Vcram \in SUBSET (1 .. UpperRamBase - 1)
  /\ Entries \in SUBSET Nat
  /\ SdBusAlias \in BOOLEAN

VARIABLES
  machine,
  phase,     \* "start", a section of the program, "card", "boot", "ready", "failed", "no_sd_bus"
  at,        \* the next operation of the section
  error,     \* an error is set
  realized,  \* the children realized
  map,       \* the placements of regions
  line,      \* for each connected output the input it drives
  vcram,     \* base and size of the video memory
  sdbus,     \* the objects with an "sd-bus"
  boot       \* what the boot code and the guest are told

built == <<realized, map, line, vcram, sdbus>>
vars == <<machine, phase, at, error, built, boot>>

NoBoot == [ram |-> 0, nodes |-> {}, program |-> 0, linux |-> FALSE, entry |-> 0, stub |-> 0]

\* What a machine is put together from.
Children(m) ==
  UNION {{Program[m][s][k].dev : k \in {j \in DOMAIN Program[m][s] : Program[m][s][j].kind = "child"}} :
           s \in Sections}

TypeOK ==
  /\ machine \in Machine
  /\ phase \in Sections \cup {"start", "card", "boot", "ready", "failed", "no_sd_bus"}
  /\ at \in Nat \ {0} /\ error \in BOOLEAN
  /\ realized \subseteq Children(machine)
  /\ \A k \in DOMAIN map : map[k].in \in Containers \cup {"none"}
  /\ \A o \in DOMAIN line : o # line[o]
  /\ vcram \in [base : Nat, size : Nat]
  /\ sdbus \subseteq {"peripherals", "soc"}
  /\ boot.ram \in Nat

Init ==
  /\ machine \in Machine
  /\ phase = "start" /\ at = 1 /\ error = FALSE
  /\ realized = {} /\ map = <<>> /\ line = <<>> /\ sdbus = {}
  /\ \E size \in Vcram : vcram = [base |-> 0, size |-> size]
  /\ boot = NoBoot

-----------------------------------------------------------------------------
(* Realizing the chip.                                                     *)

Least(a, b) == IF a < b THEN a ELSE b

\* The RAM given with -m has to be the board's.
RamIsWrong ==
  /\ phase = "start"
  /\ phase' = "failed"
  /\ UNCHANGED <<machine, at, error, built, boot>>

\* The property of the Pi 5's framebuffer is overwritten before it is realized.
RamIsRight ==
  /\ phase = "start"
  /\ phase' = "common"
  /\ map' = <<Place("ram", "system", 0, RamSize(machine), 0)>>
  /\ vcram' = IF Soc(machine) = "bcm2712" THEN [vcram EXCEPT !.size = 0] ELSE vcram
  /\ UNCHANGED <<machine, at, error, realized, line, sdbus, boot>>

Section == Program[machine][phase]
Working == phase \in Sections /\ at <= Len(Section)
Op == Section[at]

Advance == at' = at + 1 /\ UNCHANGED <<machine, phase, boot>>
Skip == at' = Len(Section) + 1 /\ UNCHANGED <<machine, phase, boot>>

\* A connection takes the place of an earlier one from the same output.
Connect(irqs) ==
  line' = [o \in DOMAIN line \cup {c[1] : c \in irqs} |->
             IF \E c \in irqs : c[1] = o THEN (CHOOSE c \in irqs : c[1] = o)[2]
             ELSE line[o]]

MapAndConnect ==
  /\ map' = map \o Op.maps
  /\ Connect(Op.irqs)

\* A wire, and the second placement of a region whose list links were cleared
\* while it was in the list: the library may cope (see Lost).
WireUp ==
  /\ Working /\ Op.kind \in {"wire", "again"}
  /\ MapAndConnect
  /\ Advance /\ UNCHANGED <<error, realized, vcram, sdbus>>

\* The framebuffer refuses a base of zero.
CanRealize(dev) == dev = "fb" => vcram.base # 0

Realize ==
  /\ Working /\ Op.kind = "child" /\ ~error /\ CanRealize(Op.dev)
  /\ realized' = realized \cup {Op.dev}
  /\ MapAndConnect
  /\ Advance /\ UNCHANGED <<error, vcram, sdbus>>

RealizeFails ==
  /\ Working /\ Op.kind = "child" /\ ~error
  /\ error' = TRUE
  /\ Skip /\ UNCHANGED built

\* The child may be realized; its caller sees the error that was there before.
RealizeUnderError ==
  /\ Working /\ Op.kind = "child" /\ error
  /\ realized' \in {realized, realized \cup {Op.dev}}
  /\ Skip /\ UNCHANGED <<error, map, line, vcram, sdbus>>

\* Mutated: the difference is a signed number.
VcramBaseSigned ==
  Least(IF vcram.base = 0 THEN RamSize(machine) - vcram.size ELSE vcram.base,
        UpperRamBase - vcram.size)

\* Where the video memory is: at the end of RAM, below the upper RAM.  What is
\* below zero wraps in 64 bits to an address past everything.
VcramBase ==
  LET end == IF vcram.base = 0 THEN RamSize(machine) - vcram.size ELSE vcram.base
  IN  IF end < 0 THEN UpperRamBase - vcram.size ELSE Least(end, UpperRamBase - vcram.size)

PlaceVcram ==
  /\ Working /\ Op.kind = "vcram"
  /\ vcram' = [vcram EXCEPT !.base = VcramBase]
  /\ Advance /\ UNCHANGED <<error, realized, map, line, sdbus>>

Placed(mr) == {k \in DOMAIN map : map[k].mr = mr /\ map[k].in # "none"}

Unmap ==
  /\ Working /\ Op.kind = "unmap" /\ Placed(Op.dev) # {}
  /\ map' = TakenOut(map, Op.dev)
  /\ Advance /\ UNCHANGED <<error, realized, line, vcram, sdbus>>

\* Taking a region out of a container it is not in is an assertion of QEMU.
UnmapAsserts ==
  /\ Working /\ Op.kind = "unmap" /\ Placed(Op.dev) = {}
  /\ phase' = "failed"
  /\ UNCHANGED <<machine, at, error, built, boot>>

\* The memory of a region on the stack is used again: it may still do as before.
Expire ==
  /\ Working /\ Op.kind = "expire"
  /\ map' \in {map, TakenOut(map, Op.dev)}
  /\ Advance /\ UNCHANGED <<error, realized, line, vcram, sdbus>>

\* The library's list of regions is damaged, and QEMU does not get any further.
Lost ==
  /\ Working /\ Op.kind = "again"
  /\ phase' = "failed"
  /\ UNCHANGED <<machine, at, error, built, boot>>

PassSdBus ==
  /\ Working /\ Op.kind = "sdbus"
  /\ sdbus' = sdbus \cup {Op.dev}
  /\ Advance /\ UNCHANGED <<error, realized, map, line, vcram>>

\* Mutated: the chip goes on when its peripherals failed.
ReturnUnchecked(next) == phase' = next

\* The chip and its caller look at the error; the peripherals do not.
Return(next) == phase' = IF error /\ phase # "common" THEN "failed" ELSE next

EndSection ==
  /\ phase \in Sections /\ at > Len(Section)
  /\ Return(CASE phase = "common" -> "own" [] phase = "own" -> "soc" [] phase = "soc" -> "card")
  /\ at' = 1
  /\ UNCHANGED <<machine, error, built, boot>>

-----------------------------------------------------------------------------
(* The SD card, and booting.                                               *)

SdCard ==
  /\ phase = "card"
  /\ phase' = IF "soc" \in sdbus THEN "boot" ELSE "no_sd_bus"
  /\ UNCHANGED <<machine, at, error, built, boot>>

\* Mutated: the video memory is left in the RAM the guest is given.
BootRamWithVcram == RamSize(machine)

\* The RAM for booting is computed anew, in 32 bits.
BootRam ==
  LET base == IF vcram.base = 0 THEN (RamSize(machine) - vcram.size) % 2 ^ 24 ELSE vcram.base
  IN  Least(base, UpperRamBase - vcram.size)

\* Mutated: the node is added for the RAM of the board, as its comment says.
NodesOfBoard(ram) ==
  IF machine = "raspi5b" /\ RamSize(machine) > UpperRamBase
  THEN {<<UpperRamBase, RamSize(machine)>>} ELSE {}

\* The second memory node raspi5_modify_dtb adds, as the first and the last
\* address but one; ram is info->ram_size, the RAM for booting.
MemoryNodes(ram) ==
  IF machine = "raspi5b" /\ ram > UpperRamBase
  THEN {<<UpperRamBase, RamSize(machine)>>} ELSE {}

FirmwareAddr == IF ProcessorId(machine) <= 1 THEN \h80 ELSE \h800

\* KERNEL64_LOAD_ADDR, where a raw kernel is put.
KernelAddr == \h800

\* What arm_load_kernel makes of a kernel whose first instruction is at program
\* (external).  For what it takes for Linux, a raw image too, the CPU starts at
\* 0, in a loader that jumps to the program, whatever becomes of the entry; for
\* an ELF file it starts at the entry.  stub is where the code at 0 leads.
LoadKernel(kind, program, entry) ==
  [boot EXCEPT !.ram = BootRam, !.nodes = MemoryNodes(BootRam), !.program = program,
               !.linux = kind # "elf", !.entry = entry,
               !.stub = IF kind = "elf" THEN 0 ELSE program]

Loadable(kind, program, entry) ==
  /\ kind = "linux" => program # 0
  /\ kind = "raw" => program = KernelAddr
  /\ entry = program \/ (kind # "elf" /\ entry = 0)

\* Mutated: the entry is cleared before it is read.
ClearThenWrite(loaded) == [loaded EXCEPT !.entry = 0, !.stub = KernelAddr]

\* The Pi 5 writes a loader at 0 for a kernel without the magic of Linux; an
\* entry of 0 is taken for that of a raw kernel.
WriteBootloader(loaded) ==
  [loaded EXCEPT !.entry = 0, !.stub = IF loaded.entry = 0 THEN KernelAddr ELSE loaded.entry]

\* If there was code at 0 already, the library has two images for one address,
\* and either may be what the CPU finds there.
BareMetal(loaded) ==
  LET written == WriteBootloader(loaded)
  IN  {written} \cup (IF loaded.linux \/ loaded.program = 0
                      THEN {[written EXCEPT !.stub = loaded.stub]} ELSE {})

\* The Pi 5 writes its loader for the kernel's sake, also when the firmware is
\* what is started.
BootFirmware ==
  /\ phase = "boot"
  /\ phase' = "ready"
  /\ LET started == [boot EXCEPT !.ram = BootRam, !.program = FirmwareAddr,
                                  !.entry = FirmwareAddr]
     IN  boot' \in {started} \cup
                   (IF machine = "raspi5b" THEN {WriteBootloader(started)} ELSE {})
  /\ UNCHANGED <<machine, at, error, built>>

FirmwareFails ==
  /\ phase = "boot"
  /\ phase' = "failed"
  /\ UNCHANGED <<machine, at, error, built, boot>>

\* A Linux image or a compressed one has magic; a raw or an ELF one has none.
BootKernel ==
  /\ phase = "boot"
  /\ phase' = "ready"
  /\ \E kind \in {"linux", "raw", "elf"}, program \in Entries, entry \in Entries \cup {0} :
       /\ Loadable(kind, program, entry)
       /\ boot' \in IF machine = "raspi5b" /\ kind # "linux"
                    THEN BareMetal(LoadKernel(kind, program, entry))
                    ELSE {LoadKernel(kind, program, entry)}
  /\ UNCHANGED <<machine, at, error, built>>

Stopped == phase \in {"ready", "failed", "no_sd_bus"} /\ UNCHANGED vars

Next ==
  \/ RamIsWrong \/ RamIsRight
  \/ WireUp \/ Realize \/ RealizeFails \/ RealizeUnderError
  \/ PlaceVcram \/ Unmap \/ UnmapAsserts \/ Expire \/ Lost \/ PassSdBus
  \/ EndSection
  \/ SdCard \/ BootFirmware \/ FirmwareFails \/ BootKernel
  \/ Stopped

Spec == Init /\ [][Next]_vars

-----------------------------------------------------------------------------
(* Properties.                                                             *)

\* The chip is realized, and without an error.
Complete == phase \in {"card", "boot", "ready", "no_sd_bus"} /\ ~error

\* What a machine needs to be ready: every child of its chip was realized and
\* no error is left behind.  The chip-specific realize functions ignore the
\* result of the common one, so an early failure has to be caught later.
ReadyIsComplete ==
  phase = "ready" =>
    /\ ~error
    /\ \A s \in Sections : \A k \in DOMAIN Program[machine][s] :
         Program[machine][s][k].kind = "child" => Program[machine][s][k].dev \in realized

Stub == {"rp1.i2c0", "rp1.i2c1", "rp1.i2c2", "rp1.i2c3", "rp1.i2c4", "rp1.i2c5",
         "rp1.spi0", "rp1.spi1", "rp1.spi2", "rp1.spi3", "rp1.spi4", "rp1.spi5"}

\* The placements of the registers of real devices in the CPU's address space.
RealDevices ==
  {k \in DOMAIN map : /\ map[k].in \in {"system", "peri", "rp1"}
                      /\ map[k].mr \notin Containers \cup DOMAIN AliasOf \cup Stub \cup {"ram"}
                      /\ map[k].prio = 0}

\* The CPU reaches every device that was mapped, at the address it was mapped
\* to: the chips of the Pi 5 pile the RP1, the old peripherals and their
\* replacements onto the same addresses, and the order decides who answers.
NoDeviceHidden ==
  Complete => \A k \in RealDevices :
    Answer(map, "system", Begins(map, "system", map[k].mr)) = <<map[k].mr, 0>>

\* The addresses of RAM the guest is told of, at which another region begins
\* or ends, or the RAM itself does.
Told == {<<0, boot.ram>>} \cup boot.nodes
EdgesIn(range) ==
  {a \in (UNION {{map[k].at - 1, map[k].at, map[k].at + map[k].size - 1, map[k].at + map[k].size} :
                   k \in {j \in DOMAIN map : map[j].in = "system"}})
         \cup {range[1], range[2] - 1} : range[1] <= a /\ a < range[2]}

\* RAM the guest is told of is RAM: raspi.c computes the size for booting and
\* raspi5b.c the memory node far from where the peripherals are mapped over
\* the RAM.  On the boards with 1 GiB this needs video memory at least as
\* large as the 16 MiB of peripherals at its end.
RamToldIsRam ==
  (phase = "ready" /\ (RamSize(machine) = UpperRamBase => vcram.size >= \h10000)) =>
    \A range \in Told : \A a \in EdgesIn(range) : Answer(map, "system", a) = <<"ram", a>>

VideoMemory == {vcram.base, vcram.base + vcram.size - 1}

\* The guest was not given the video memory.
VideoIsNotTold ==
  phase = "ready" /\ vcram.size > 0 =>
    \A range \in Told : \A a \in VideoMemory : ~(range[1] <= a /\ a < range[2])

\* What the framebuffer shows by way of the GPU bus is RAM that the guest was
\* not given: the two functions that compute it agree.
VideoMemoryIsApart ==
  /\ VideoIsNotTold
  /\ phase = "ready" /\ vcram.size \in 1 .. RamSize(machine) =>
       \A a \in VideoMemory : Answer(map, "gpu", a) = <<"ram", a>>

\* No two outputs drive one interrupt input: later connections replace earlier
\* ones, and on the Pi 5 channel 13 of the DMA takes the line AUX had before.
OneSourcePerInput ==
  Complete => \A o1, o2 \in DOMAIN line : line[o1] = line[o2] => o1 = o2

\* The devices that pass interrupts on.
Relay == {"ic", "control", "gic", "mboxes", "orgated_i2c", "orgated_dma",
          "mmc_irq_orgate", "emmc_irq_orgate"}

\* The devices one of whose outputs gets to a device of ends, by way of at most
\* n relays.
Reaching(ends, n) ==
  LET reach[k \in 0 .. n] ==
        IF k = 0 THEN ends
        ELSE reach[k - 1] \cup
             {o[1] : o \in {p \in DOMAIN line : /\ p[1] \in Relay
                                                 /\ line[p][1] \in reach[k - 1]}}
  IN  reach[n]

CpuNames == {"cpu0", "cpu1", "cpu2", "cpu3"}

\* An interrupt that was connected is heard: it gets to a CPU, through gates
\* and controllers.  On the Pi 5 the controller of the old peripherals is
\* itself connected to nothing, and what still goes there is not heard.
InterruptsHeard ==
  Complete =>
    LET heard == Reaching(CpuNames \cup (IF machine = "raspi5b" THEN {"ic"} ELSE {}), 4)
    IN  \A o \in DOMAIN line : line[o][1] \in heard

\* Where the CPU gets to: at 0 is a loader that jumps on.
Reached == IF boot.linux \/ boot.entry = 0 THEN boot.stub ELSE boot.entry

\* The CPU gets to the program it was told to boot, by way of the entry, of
\* arm_load_kernel's loader or of the Pi 5's, which replaces the one or the
\* other (raspi5b.c:140-147).  An ELF file that begins at 0 is left out on the
\* Pi 5: its entry is taken for that of a raw kernel, and it is not reached.
EntryReachesProgram ==
  phase = "ready" /\ ~(machine = "raspi5b" /\ boot.program = 0) => Reached = boot.program

\* bcm2712_peripherals.c:256: "Add SD bus alias on peripherals object for
\* board-level connections".  The board looks for it on the chip.
SdBusFound == phase # "no_sd_bus"
=============================================================================
