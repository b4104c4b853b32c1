------------------------------ MODULE Framebuffer ------------------------------
(***************************************************************************)
(* The framebuffer (hw/display/bcm2835_fb.c) between the guest, which      *)
(* configures it through its mailbox and may reset the machine, and the    *)
(* host's display, which redraws when it likes.  QEMU runs each of these   *)
(* under one lock.                                                         *)
(*                                                                         *)
(* The device maps the part of memory it shows only when it redraws after  *)
(* a change.  Addresses count from the framebuffer's base; pixels, palette *)
(* and colour order are left out.  32-bit arithmetic wraps at Wrap.        *)
(***************************************************************************)
EXTENDS Integers

CONSTANTS
  XMax, YMax,      \* XRES_MAX, YRES_MAX
  XSmall, YSmall,  \* XRES_SMALL, YRES_SMALL
  Wrap,            \* 2^32
  Initial,         \* initial_config, filled in by realize
  Requests         \* the configurations the guest asks for

\* Sizes that machine words can hold, as they are in the code.
ASSUME FbSizes ==
  /\ Wrap \in Nat /\ XMax \in 1 .. Wrap - 1 /\ YMax \in 1 .. Wrap - 1
  /\ XSmall \in 1 .. XMax /\ YSmall \in 1 .. YMax

Word == 0 .. Wrap - 1
Config == [xres : Word, yres : Word, xres_virtual : Word, yres_virtual : Word,
           xoffset : Word, yoffset : Word, bytes : Word]

\* The guest asks for anything; the first configuration is one the board may have.
ASSUME FbConfigs ==
  /\ Initial \in Config /\ Requests \subseteq Config
  /\ Initial.xres \in 1 .. XMax /\ Initial.xres_virtual = Initial.xres
  /\ Initial.yres \in 1 .. YMax /\ Initial.yres_virtual = Initial.yres

VARIABLES
  config,      \* the configuration in force; bytes is bpp >> 3
  invalidate,  \* the next redraw maps the memory anew
  pending,     \* an answer waits in the mailbox
  irq,         \* the mailbox's interrupt line
  console,     \* the size of the console's surface
  section,     \* the memory mapped by the last redraw that mapped any
  reply,       \* pitch and size as the guest was told
  told         \* the configuration the reply was about

vars == <<config, invalidate, pending, irq, console, section, reply, told>>

Nothing == [start |-> 0, rows |-> 0, pitch |-> 0]

TypeOK ==
  /\ config \in Config /\ told \in Config
  /\ config.xres \in 1 .. XMax /\ config.yres \in 1 .. YMax
  /\ invalidate \in BOOLEAN /\ pending \in BOOLEAN /\ irq \in BOOLEAN
  /\ console \in [x : 1 .. XMax, y : 1 .. YMax]
  /\ section \in [start : Nat, rows : Nat, pitch : Word]
  /\ reply \in [pitch : Word, size : Word]

-----------------------------------------------------------------------------
(* The configuration.                                                      *)

Lower(a, b) == IF a < b THEN a ELSE b
Higher(a, b) == IF a > b THEN a ELSE b
Minus(a, b) == (a - b) % Wrap

fb_use_offsets(c) == c.xres_virtual > c.xres \/ c.yres_virtual > c.yres

bcm2835_fb_get_pitch(c) == (Higher(c.xres, c.xres_virtual) * c.bytes) % Wrap
bcm2835_fb_get_size(c) ==
  (Higher(c.yres, c.yres_virtual) * bcm2835_fb_get_pitch(c)) % Wrap

\* The resolutions are cut at their maximum ...
Cut(c) == [c EXCEPT !.xres = Lower(@, XMax), !.xres_virtual = Lower(@, XMax),
                    !.yres = Lower(@, YMax), !.yres_virtual = Lower(@, YMax)]

\* ... zero means a default ...
WithDefaults(c) ==
  LET x == IF c.xres = 0 THEN XSmall ELSE c.xres
      y == IF c.yres = 0 THEN YSmall ELSE c.yres
  IN  [c EXCEPT !.xres = x, !.yres = y,
                !.xres_virtual = IF @ = 0 THEN x ELSE @,
                !.yres_virtual = IF @ = 0 THEN y ELSE @]

\* Mutated: the viewport itself is not taken off.
ClippedToVirtual(c) ==
  IF fb_use_offsets(c)
    THEN [c EXCEPT !.xoffset = Lower(@, c.xres_virtual), !.yoffset = Lower(@, c.yres_virtual)]
    ELSE c

\* ... and the offsets, if they count, are clipped to what the viewport leaves
\* of the virtual screen.
Clipped(c) ==
  IF fb_use_offsets(c)
    THEN [c EXCEPT !.xoffset = Lower(@, Minus(c.xres_virtual, c.xres)),
                   !.yoffset = Lower(@, Minus(c.yres_virtual, c.yres))]
    ELSE c

\* Mutated: the offsets are clipped before the defaults are filled in.
ValidateClipsFirst(c) == WithDefaults(Clipped(Cut(c)))

Validate(c) == Clipped(WithDefaults(Cut(c)))

\* The memory a redraw maps.
Section(c) ==
  [start |-> IF fb_use_offsets(c)
               THEN c.xoffset + c.yoffset * bcm2835_fb_get_pitch(c) ELSE 0,
   rows  |-> c.yres,
   pitch |-> bcm2835_fb_get_pitch(c)]

SizeOf(c) == [x |-> c.xres, y |-> c.yres]
ReplyFor(c) == [pitch |-> bcm2835_fb_get_pitch(c), size |-> bcm2835_fb_get_size(c)]

-----------------------------------------------------------------------------
(* The steps.                                                              *)

Init ==
  /\ config = Initial /\ told = Initial
  /\ invalidate = TRUE /\ pending = FALSE /\ irq = FALSE
  /\ console = SizeOf(Initial)
  /\ section = Nothing
  /\ reply = ReplyFor(Initial)

\* Mutated: a new configuration has the memory mapped anew only when the
\* resolution changes.
ReconfigureLazily(c) ==
  /\ config' = c
  /\ invalidate' = (invalidate \/ SizeOf(c) # SizeOf(config))
  /\ console' = SizeOf(c)

bcm2835_fb_reconfigure(c) ==
  /\ config' = c
  /\ invalidate' = TRUE
  /\ console' = SizeOf(c)

\* Mutated: pitch and size are those of what the guest asked for.
PushRepliesEarly(req) ==
  LET c == Validate(req)
  IN  /\ reply' = ReplyFor(req)
      /\ told' = c
      /\ bcm2835_fb_reconfigure(c)

\* bcm2835_fb_mbox_push: the configuration is made valid, the guest's message
\* gets pitch and size, and the configuration takes force.
Push(req) ==
  LET c == Validate(req)
  IN  /\ reply' = ReplyFor(c)
      /\ told' = c
      /\ bcm2835_fb_reconfigure(c)

\* The mailbox hands over a message only when no answer waits; the device
\* asserts it.
WriteData(req) ==
  /\ ~pending
  /\ pending' = TRUE
  /\ Push(req)
  /\ irq' = TRUE
  /\ UNCHANGED section

\* The mailbox takes the answer.
ReadData ==
  /\ pending' = FALSE
  /\ irq' = FALSE
  /\ UNCHANGED <<config, invalidate, console, section, reply, told>>

\* The host's display asks for a redraw of everything.
fb_invalidate_display ==
  /\ invalidate' = TRUE
  /\ UNCHANGED <<config, pending, irq, console, section, reply, told>>

\* A redraw: the memory is mapped if something changed.
fb_update_display ==
  /\ section' = IF invalidate THEN Section(config) ELSE section
  /\ invalidate' = FALSE
  /\ UNCHANGED <<config, pending, irq, console, reply, told>>

\* The machine is reset.  Neither the console nor the interrupt line is told.
Reset ==
  /\ pending' = FALSE
  /\ config' = Initial
  /\ invalidate' = TRUE
  /\ UNCHANGED <<irq, console, section, reply, told>>

Next ==
  \/ \E req \in Requests : WriteData(req)
  \/ ReadData
  \/ fb_invalidate_display
  \/ fb_update_display
  \/ Reset

Spec == Init /\ [][Next]_vars

-----------------------------------------------------------------------------
(* Properties.                                                             *)

\* A display that is not about to map the memory anew shows the memory of the
\* configuration in force, however guest, host and resets interleave.
SectionFollowsConfig == ~invalidate => section = Section(config)

\* A reconfiguration sizes the console's surface as the guest asked: it has
\* another size only when a reset put the initial configuration back.
ConsoleFollowsConfig == console = SizeOf(config) \/ config = Initial

\* While the configuration is the one the guest was answered about, pitch and
\* size are what it was told: it draws where the display reads.
ReplyDescribesConfig == config = told => reply = ReplyFor(config)

\* The configuration in force is one that validation leaves as it is.
ConfigIsValid == Validate(config) = config

\* An answer that waits has raised the interrupt.
PendingIsSignalled == pending => irq

\* The last byte a redraw reads lies in the framebuffer the guest was told about,
\* also when a virtual side is smaller than the viewport.  Left out is only a
\* viewport moved along such a side: the limit of that offset wraps, so nothing
\* clips it.
MovedUnclipped(c) ==
  /\ fb_use_offsets(c)
  /\ \/ c.xres_virtual < c.xres /\ c.xoffset > 0
     \/ c.yres_virtual < c.yres /\ c.yoffset > 0
LastByte(c, s) == s.start + (s.rows - 1) * s.pitch + c.xres * c.bytes
PixelsInFrame ==
  ~invalidate /\ ~MovedUnclipped(config) =>
    LastByte(config, section) <= bcm2835_fb_get_size(config)
=============================================================================
