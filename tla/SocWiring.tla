------------------------------- MODULE SocWiring -------------------------------
(***************************************************************************)
(* What the realize functions of the Raspberry Pi chips do, as data: for   *)
(* each machine three sequences of operations, for the peripherals shared  *)
(* by all chips (bcm_soc_peripherals_common_realize), the chip's own       *)
(* peripherals, and the chip.  Board.tla runs them.                        *)
(*                                                                         *)
(* Addresses and sizes are in units of 256 bytes.  A region has the name   *)
(* of its device; the second DMA region is "dma15".  Of the offsets and    *)
(* interrupt numbers, those of the older chips come from QEMU's own        *)
(* headers.  Blocks disabled with #if 0 are left out.                      *)
(***************************************************************************)
EXTENDS Integers, Sequences

CONSTANT SdBusAlias   \* does the BCM2712 object pass on its peripherals' "sd-bus"?

AliasOf == [peri_alias |-> "peri", peri_alias2712 |-> "peri",
            ram_alias0 |-> "ram", ram_alias1 |-> "ram",
            ram_alias2 |-> "ram", ram_alias3 |-> "ram",
            fb_alias |-> "fb", uart0_legacy |-> "uart0", dma_remap |-> "system"]

Containers == {"system", "gpu", "mbox", "peri", "scb"}
              \cup {"rp1", "rp1.gpio", "rp1.uart0", "rp1.uart1"}

INSTANCE MemoryMap

-----------------------------------------------------------------------------
(* The machines.                                                           *)

BoardRev == [raspi0   |-> \h920092, raspi1ap |-> \h900021,
             raspi2b  |-> \ha21041,
             raspi3ap |-> \h9020e0, raspi3b  |-> \ha02082,
             raspi5b  |-> \hc83111]

Machine == DOMAIN BoardRev

Pi5Revisions == {\hc03111, \hc83111, \hd03111, \hd83111}

\* The field of n bits at bit s of a revision.
Field(rev, s, n) == (rev \div 2 ^ s) % 2 ^ n

RamSize(m) == 2 ^ 20 * 2 ^ Field(BoardRev[m], 20, 3)

ProcessorId(m) ==
  IF BoardRev[m] \in Pi5Revisions THEN 4 ELSE Field(BoardRev[m], 12, 4)

Soc(m) == <<"bcm2835", "bcm2836", "bcm2837", "bcm2838", "bcm2712">>[ProcessorId(m) + 1]

PeriBase(m) == CASE Soc(m) = "bcm2835" -> \h200000
                 [] Soc(m) = "bcm2712" -> \h7c0000
                 [] OTHER -> \h3f0000

PeriSize(m) == IF Soc(m) = "bcm2712" THEN \h100000 ELSE \h10000

Cpu(n) == <<"cpu0", "cpu1", "cpu2", "cpu3">>[n + 1]

-----------------------------------------------------------------------------
(* The operations.  A child is realized, then mapped and connected; a wire *)
(* only maps and connects.  An interrupt goes from an output of a device   *)
(* to an input of another.                                                 *)

Irq(dev, out, to, in) == <<<<dev, out>>, <<to, in>>>>

Child(dev, maps, irqs) ==
  [kind |-> "child", dev |-> dev, maps |-> maps, irqs |-> irqs]
Wire(maps, irqs) == [kind |-> "wire", dev |-> "none", maps |-> maps, irqs |-> irqs]
Other(kind, dev) == [kind |-> kind, dev |-> dev, maps |-> <<>>, irqs |-> {}]

\* Offsets in the peripherals of QEMU's raspi_platform.h.
Offset == [
  systmr |-> \h30, mphi |-> \h60, dma |-> \h70, ic |-> \hb2, mboxes |-> \hb8,
  powermgt |-> \h1000, cprman |-> \h1010, rng |-> \h1040,
  gpio |-> \h2000, uart0 |-> \h2010, sdhost |-> \h2020, spi0 |-> \h2040,
  i2c0 |-> \h2050, otp |-> \h20f0, thermal |-> \h2120, aux |-> \h2150,
  sdhci |-> \h3000, emmc2 |-> \h3400, i2c1 |-> \h8040, i2c2 |-> \h8050,
  dwc2 |-> \h9800, dma15 |-> \he050]

\* Inputs of the old interrupt controller in raspi_platform.h; those of its
\* ARM half follow the 64 of the GPU half.
IcLine == [timer |-> 0, usb |-> 9, dma |-> 16, aux |-> 29, hostport |-> 32,
           i2c |-> 53, spi |-> 54, sdio |-> 56, uart0 |-> 57, arasan |-> 62,
           mailbox |-> 64 + 1]

InPeri(d) == At(d, "peri", Offset[d])
ToIc(d, out, line) == Irq(d, out, "ic", line)

\* An unimplemented device: mapped below everything else.
Unimp(name, ofs, size) == Place(name, "peri", ofs, size, -1000)

-----------------------------------------------------------------------------
(* The peripherals all chips have.                                         *)

GpuBus(m) == <<Wire(
  <<Place("peri_alias", "gpu", \h7e0000, PeriSize(m), 1),
    Place("ram_alias0", "gpu", 0, RamSize(m), 0),
    Place("ram_alias1", "gpu", \h400000, RamSize(m), 0),
    Place("ram_alias2", "gpu", \h800000, RamSize(m), 0),
    Place("ram_alias3", "gpu", \hc00000, RamSize(m), 0)>>, {})>>

CoreDevices == <<
  Child("ic", <<>>, {}),
  Child("cprman", <<InPeri("cprman"), InPeri("ic")>>, {}),
  Child("systmr", <<InPeri("systmr")>>,
        {ToIc("systmr", n, IcLine.timer + n) : n \in 0 .. 3}),
  Child("uart0", <<InPeri("uart0")>>, {ToIc("uart0", 0, IcLine.uart0)}),
  Child("aux", <<InPeri("aux")>>, {ToIc("aux", 0, IcLine.aux)}),
  Child("mboxes", <<InPeri("mboxes")>>, {ToIc("mboxes", 0, IcLine.mailbox)})>>

\* The regions of the mailbox channels are mapped by number of channel.
Video == <<
  Other("vcram", "fb"),
  Child("fb", <<At("fb_alias", "mbox", 1)>>, {Irq("fb", 0, "mboxes", 1)}),
  Child("otp", <<InPeri("otp")>>, {}),
  Child("property", <<At("property", "mbox", 8)>>, {Irq("property", 0, "mboxes", 8)})>>

StorageAndDma == <<
  Child("sdhci", <<InPeri("sdhci")>>, {}),
  Child("sdhost", <<InPeri("sdhost")>>, {ToIc("sdhost", 0, IcLine.sdio)}),
  Child("dma", <<InPeri("dma"), InPeri("dma15")>>, {})>>

SerialBuses == <<
  Child("mphi", <<>>, {ToIc("mphi", 0, IcLine.hostport)}),
  Child("dwc2", <<InPeri("dwc2")>>, {ToIc("dwc2", 0, IcLine.usb)}),
  Child("powermgt", <<InPeri("powermgt")>>, {}),
  Child("spi0", <<InPeri("spi0")>>, {ToIc("spi0", 0, IcLine.spi)}),
  Child("i2c0", <<>>, {}),
  Child("i2c1", <<>>, {}),
  Child("i2c2", <<>>, {}),
  Wire(<<InPeri("i2c0"), InPeri("i2c1"), InPeri("i2c2")>>, {}),
  Child("orgated_i2c", <<>>,
        {Irq("i2c0", 0, "orgated_i2c", 0), Irq("i2c1", 0, "orgated_i2c", 1),
         Irq("i2c2", 0, "orgated_i2c", 2), ToIc("orgated_i2c", 0, IcLine.i2c)})>>

Unimplemented == <<Wire(
  <<Unimp("txp", \h40, \h10), Unimp("sp804", \hb4, 1), Unimp("i2s", \h2030, 1),
    Unimp("smi", \h6000, 1), Unimp("spis", \h2140, 1), Unimp("dbus", \h9000, \h80),
    Unimp("ave0", \h9100, \h80), Unimp("v3d", \hc000, \h10),
    Unimp("sdramc", \he000, 1)>>, {})>>

Common(m) ==
  GpuBus(m) \o CoreDevices \o Video \o StorageAndDma \o SerialBuses \o Unimplemented

-----------------------------------------------------------------------------
(* The peripherals of the BCM2835, BCM2836 and BCM2837.                    *)

Own2835 == <<
  Wire(<<>>, {ToIc("sdhci", 0, IcLine.arasan)}
             \cup {ToIc("dma", n, IcLine.dma + n) : n \in 0 .. 10}),
  Child("orgated_dma", <<>>,
        {Irq("dma", 11 + n, "orgated_dma", n) : n \in 0 .. 3}
        \cup {ToIc("orgated_dma", 0, IcLine.dma + 11)}),
  Child("rng", <<InPeri("rng")>>, {}),
  Child("thermal", <<InPeri("thermal")>>, {}),
  Wire(<<InPeri("mphi")>>, {}),
  Child("gpio", <<InPeri("gpio")>>, {}),
  Other("sdbus", "peripherals")>>

-----------------------------------------------------------------------------
(* The peripherals of the BCM2712.                                         *)

\* The Pi 5 has its UART elsewhere.
Uart2712 == <<
  Other("unmap", "uart0"),
  Wire(<<At("uart0", "peri", \h10010)>>, {}),
  Wire(<<Place("peri_alias2712", "gpu", \h7e0000, PeriSize("raspi5b"), 1)>>, {})>>

\* Offsets in the RP1.
Rp1Offset == [
  gpio |-> 0, uart0 |-> \h1000, uart1 |-> \h1100, i2c |-> \h2000, spi |-> \h3000,
  sd0 |-> \h4000, sd1 |-> \h4100]

Rp1I2c(n) == <<"rp1.i2c0", "rp1.i2c1", "rp1.i2c2", "rp1.i2c3", "rp1.i2c4", "rp1.i2c5">>[n + 1]
Rp1Spi(n) == <<"rp1.spi0", "rp1.spi1", "rp1.spi2", "rp1.spi3", "rp1.spi4", "rp1.spi5">>[n + 1]

InRp1(mr, at, size) == Place(mr, "rp1", at, size, 0)

\* rp1_init initialises the registers of the UARTs once more, as containers.
Rp1Blocks == <<
  Wire(<<InRp1("rp1.gpio", Rp1Offset.gpio, \h100)>>, {}),
  Child("rp1.uart0", <<InRp1("rp1.uart0", Rp1Offset.uart0, \h100)>>, {}),
  Child("rp1.uart1", <<InRp1("rp1.uart1", Rp1Offset.uart1, \h100)>>, {}),
  Child("rp1.sd0", <<InRp1("rp1.sd0", Rp1Offset.sd0, 1)>>, {}),
  Child("rp1.sd1", <<InRp1("rp1.sd1", Rp1Offset.sd1, 1)>>, {})>>

Rp1I2cs == [k \in 1 .. 6 |-> Child(Rp1I2c(k - 1),
  <<InRp1(Rp1I2c(k - 1), Rp1Offset.i2c + \h100 * (k - 1), \h100)>>, {})]

Rp1Spis == [k \in 1 .. 6 |-> Child(Rp1Spi(k - 1),
  <<InRp1(Rp1Spi(k - 1), Rp1Offset.spi + \h100 * (k - 1), \h100)>>, {})]

Rp1 == Rp1Blocks \o Rp1I2cs \o Rp1Spis

Storage2712 ==
  <<Child("emmc2", <<InPeri("emmc2")>>, {})>>
  \o Rp1
  \o <<Child("rp1", <<Place("rp1", "peri", \h4000, \h10000, 0)>>, {}),
       Other("sdbus", "peripherals")>>

Gates2712 == <<
  Child("mmc_irq_orgate", <<>>,
        {Irq("sdhci", 0, "mmc_irq_orgate", 0), Irq("emmc2", 0, "mmc_irq_orgate", 1),
         ToIc("mmc_irq_orgate", 0, IcLine.arasan)}),
  Child("emmc_irq_orgate", <<>>,
        {Irq("sdhost", 0, "emmc_irq_orgate", 0),
         ToIc("emmc_irq_orgate", 0, IcLine.sdio)}),
  Wire(<<>>, {ToIc("dma", n, IcLine.dma + n) : n \in 0 .. 15}),
  Wire(<<>>, {ToIc("dma", 15, 31)})>>

DmaRemap == Place("dma_remap", "system", \hc00000, \h400000, 0)

Sensors2712 == <<
  Child("thermal", <<InPeri("thermal")>>, {}),
  Child("rng", <<At("rng", "peri", \h6100)>>, {}),
  Wire(<<Unimp("clkisp", \h6300, 1), Unimp("l2_intc_v3d", \h1600, \h100),
         Unimp("l2_intc_rp1", \h1700, \h100), Unimp("l2_intc_ao", \h1800, \h100),
         Unimp("l2_intc_hdmi0", \h1900, \h100)>>, {}),
  Wire(<<DmaRemap>>, {})>>

\* Mutated: the sensors are realized before the RP1.
SensorsFirst2712 == Uart2712 \o Sensors2712 \o Storage2712 \o Gates2712

Own2712 == Uart2712 \o Storage2712 \o Gates2712 \o Sensors2712

-----------------------------------------------------------------------------
(* The chips.                                                              *)

\* The peripherals' own two interrupt lines are those of its controller.
SocBase(m) == <<
  Other("sdbus", "soc"),
  Wire(<<Place("peri", "system", PeriBase(m), PeriSize(m), 1)>>, {})>>

Soc2835 == <<Child(Cpu(0), <<>>, {Irq("ic", 0, Cpu(0), 0), Irq("ic", 1, Cpu(0), 1)})>>

\* Each CPU with its lines from the local controller, and its four timers, which
\* go to the controller's inputs after gpu-irq and gpu-fiq.
Cpu2836(c) == Child(Cpu(c), <<>>,
  {Irq("control", 2 * c, Cpu(c), 0), Irq("control", 2 * c + 1, Cpu(c), 1)}
  \cup {Irq(Cpu(c), t, "control", 2 + 4 * c + t) : t \in 0 .. 3})

Cpus2836 == [k \in 1 .. 4 |-> Cpu2836(k - 1)]

\* Mutated: the controller of the peripherals is connected to nothing.
ControlDeaf2836 == <<Child("control", <<At("control", "system", \h400000)>>, {})>>

Control2836 == <<
  Child("control", <<At("control", "system", \h400000)>>,
        {Irq("ic", 0, "control", 0), Irq("ic", 1, "control", 1)})>>

Soc2836 == Control2836 \o Cpus2836

\* A private interrupt of a CPU at the GIC: they follow the shared ones, 32 for
\* each CPU, the first 16 of which are software interrupts.
GicShared == 512
PPI(cpu, irq) == GicShared + cpu * 32 + 16 + irq

\* Where each CPU's timers, performance monitor (4) and GIC maintenance go.
Ppi == [timer |-> 13, vtimer |-> 14, hyp_timer |-> 15, pmu |-> 7, maintenance |-> 9]

Cpu2712(c) == Child(Cpu(c), <<>>,
  {Irq("gic", c + 4 * line, Cpu(c), line) : line \in 0 .. 3}
  \cup {Irq("gic", c + 16, "gic", PPI(c, Ppi.maintenance)),
        Irq(Cpu(c), 0, "gic", PPI(c, Ppi.timer)),
        Irq(Cpu(c), 1, "gic", PPI(c, Ppi.vtimer)),
        Irq(Cpu(c), 2, "gic", PPI(c, Ppi.hyp_timer)),
        Irq(Cpu(c), 4, "gic", PPI(c, Ppi.pmu))})

\* The shared interrupts of the GIC, from the defines of bcm2712.c and its header.
Spi == [mbox |-> 33, timer0 |-> 64, dwc2 |-> 73, i2c |-> 117, spi |-> 118, sdhost |-> 120]
SpiOfHeader == [uart0 |-> 121, uart1 |-> 122, emmc2 |-> 127, rp1_uart0 |-> 129, rp1_uart1 |-> 130]

ToGic(d, out, line) == Irq(d, out, "gic", line)

\* Mutated: AUX keeps the line it was given at the old controller.
SharedWithoutAux2712 ==
  {ToGic("uart0", 0, SpiOfHeader.uart0),
   ToGic("sdhost", 0, Spi.sdhost), ToGic("mboxes", 0, Spi.mbox),
   ToGic("emmc2", 0, SpiOfHeader.emmc2)}

Shared2712 ==
  {ToGic("uart0", 0, SpiOfHeader.uart0), ToGic("aux", 0, SpiOfHeader.uart1),
   ToGic("sdhost", 0, Spi.sdhost), ToGic("mboxes", 0, Spi.mbox),
   ToGic("dwc2", 0, Spi.dwc2), ToGic("i2c0", 0, Spi.i2c), ToGic("spi0", 0, Spi.spi),
   ToGic("emmc2", 0, SpiOfHeader.emmc2),
   ToGic("rp1.uart0", 0, SpiOfHeader.rp1_uart0), ToGic("rp1.uart1", 0, SpiOfHeader.rp1_uart1)}
  \cup {ToGic("systmr", n, Spi.timer0 + n) : n \in 0 .. 3}

Cpus2712 == [k \in 1 .. 4 |-> Cpu2712(k - 1)]

\* The alias of the UART lives on the stack of the block that maps it: "expire".
MemoryMap2712 == <<
  Wire(<<Place("scb", "system", \h107c0000, 2 ^ 30, 0),
         Place("uart0_legacy", "system", \hfe2010, 1, 0)>>, {}),
  Other("expire", "uart0_legacy"),
  Wire(<<Place("peri", "system", PeriBase("raspi5b"), PeriSize("raspi5b"), 1)>>, {})>>

GicBlocks == <<"gic.dist", "gic.cpu", "gic.hyp", "gic.virt">>

Gic2712 == <<
  Child("gic", [k \in 1 .. 4 |-> At(GicBlocks[k], "system", \h107fff90 + \h10 * (k - 1))], {})>>

\* The remap window is initialised and added while it is already mapped: "again".
Late2712 == <<
  Wire(<<>>, Shared2712),
  [Other("again", "dma_remap") EXCEPT !.maps = <<DmaRemap>>]>>

PassedOn2712 == IF SdBusAlias THEN <<Other("sdbus", "soc")>> ELSE <<>>

Soc2712 == MemoryMap2712 \o Gic2712 \o Cpus2712 \o Late2712 \o PassedOn2712

-----------------------------------------------------------------------------
(* The three sequences of a machine.                                       *)

Sections == {"common", "own", "soc"}

Program == [m \in Machine |->
  [common |-> Common(m),
   own |-> IF Soc(m) = "bcm2712" THEN Own2712 ELSE Own2835,
   soc |-> IF Soc(m) = "bcm2712" THEN Soc2712
           ELSE SocBase(m) \o (IF Soc(m) = "bcm2835" THEN Soc2835 ELSE Soc2836)]]
=============================================================================
