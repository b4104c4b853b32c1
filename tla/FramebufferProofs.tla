--------------------------- MODULE FramebufferProofs ---------------------------
(* The invariants of Framebuffer, for every size of the screen, every      *)
(* initial configuration and every set of requests.                        *)
EXTENDS Framebuffer, TLAPS

\* What the resolutions of a configuration in force are.
Resolved(c) ==
  /\ c \in Config
  /\ c.xres \in 1 .. XMax /\ c.xres_virtual \in 1 .. XMax
  /\ c.yres \in 1 .. YMax /\ c.yres_virtual \in 1 .. YMax

\* A difference wraps into a word.
LEMMA MinusWord == ASSUME NEW a \in Word, NEW b \in Word PROVE Minus(a, b) \in Word
  BY FbSizes, SMT DEF Minus, Word

\* Pitch and size are words whatever the configuration.
LEMMA ReplyWords == ASSUME NEW c \in Config
                    PROVE /\ bcm2835_fb_get_pitch(c) \in Word
                          /\ bcm2835_fb_get_size(c) \in Word
<1>1. Wrap \in Nat \ {0} BY FbSizes
<1>2. Higher(c.xres, c.xres_virtual) * c.bytes \in Int
  BY <1>1 DEF Higher, Config, Word
<1>3. bcm2835_fb_get_pitch(c) \in Word
  BY <1>1, <1>2 DEF bcm2835_fb_get_pitch, Word
<1>4. Higher(c.yres, c.yres_virtual) * bcm2835_fb_get_pitch(c) \in Int
  BY <1>1, <1>3 DEF Higher, Config, Word
<1>5. bcm2835_fb_get_size(c) \in Word
  BY <1>1, <1>4 DEF bcm2835_fb_get_size, Word
<1> QED BY <1>3, <1>5

\* Writing the four resolutions of a configuration.
Four(c, x, xv, y, yv) ==
  [c EXCEPT !.xres = x, !.xres_virtual = xv, !.yres = y, !.yres_virtual = yv]

\* What that leaves behind.
IsFour(d, x, xv, y, yv) ==
  /\ d \in Config
  /\ d.xres = x /\ d.xres_virtual = xv /\ d.yres = y /\ d.yres_virtual = yv

\* Writing valid resolutions gives a configuration that has them.
LEMMA FourFields ==
  ASSUME NEW c \in Config, NEW x \in Word, NEW xv \in Word, NEW y \in Word, NEW yv \in Word
  PROVE  IsFour(Four(c, x, xv, y, yv), x, xv, y, yv)
  BY DEF Four, IsFour, Config

\* Writing what is there changes nothing.
LEMMA FourSame == ASSUME NEW c \in Config
                  PROVE Four(c, c.xres, c.xres_virtual, c.yres, c.yres_virtual) = c
  BY DEF Four, Config

\* The sizes are numbers, and words.
LEMMA Sizes == /\ XMax \in Nat /\ YMax \in Nat
               /\ 0 .. XMax \subseteq Word /\ 0 .. YMax \subseteq Word
               /\ Word \subseteq Nat
  BY FbSizes DEF Word

\* The lower of two naturals is one of them.
LEMMA LowerFacts == ASSUME NEW a \in Nat, NEW b \in Nat
                    PROVE Lower(a, b) \in 0 .. b /\ (a <= b => Lower(a, b) = a)
  BY DEF Lower

\* Cutting and filling in make the resolutions of any request valid.
LEMMA DefaultsResolve == ASSUME NEW c \in Config PROVE Resolved(WithDefaults(Cut(c)))
<1>1. /\ c.xres \in Word /\ c.xres_virtual \in Word
      /\ c.yres \in Word /\ c.yres_virtual \in Word
  BY DEF Config
<1>2. /\ Lower(c.xres, XMax) \in 0 .. XMax /\ Lower(c.xres_virtual, XMax) \in 0 .. XMax
      /\ Lower(c.yres, YMax) \in 0 .. YMax /\ Lower(c.yres_virtual, YMax) \in 0 .. YMax
  BY <1>1, Sizes, LowerFacts
<1> DEFINE d == Cut(c)
<1>4. /\ d \in Config
      /\ d.xres \in 0 .. XMax /\ d.xres_virtual \in 0 .. XMax
      /\ d.yres \in 0 .. YMax /\ d.yres_virtual \in 0 .. YMax
  <2>1. d = Four(c, Lower(c.xres, XMax), Lower(c.xres_virtual, XMax),
                 Lower(c.yres, YMax), Lower(c.yres_virtual, YMax))
    BY DEF Cut, Four
  <2> HIDE DEF d
  <2>2. /\ Lower(c.xres, XMax) \in Word /\ Lower(c.xres_virtual, XMax) \in Word
        /\ Lower(c.yres, YMax) \in Word /\ Lower(c.yres_virtual, YMax) \in Word
    BY <1>2, Sizes
  <2>3. /\ d \in Config
        /\ d.xres = Lower(c.xres, XMax) /\ d.xres_virtual = Lower(c.xres_virtual, XMax)
        /\ d.yres = Lower(c.yres, YMax) /\ d.yres_virtual = Lower(c.yres_virtual, YMax)
    <3>1. IsFour(d, Lower(c.xres, XMax), Lower(c.xres_virtual, XMax),
                    Lower(c.yres, YMax), Lower(c.yres_virtual, YMax))
      BY <2>1, <2>2, FourFields, Zenon
    <3> QED BY <3>1 DEF IsFour
  <2> QED BY <1>2, <2>3
<1> HIDE DEF d
<1> DEFINE x == IF d.xres = 0 THEN XSmall ELSE d.xres
           y == IF d.yres = 0 THEN YSmall ELSE d.yres
           xv == IF d.xres_virtual = 0 THEN x ELSE d.xres_virtual
           yv == IF d.yres_virtual = 0 THEN y ELSE d.yres_virtual
           e == WithDefaults(d)
<1>5. /\ x \in 1 .. XMax /\ xv \in 1 .. XMax
      /\ y \in 1 .. YMax /\ yv \in 1 .. YMax
  BY <1>4, FbSizes
<1>6. e = Four(d, x, xv, y, yv)
  BY <1>4 DEF WithDefaults, Four, Config
<1> HIDE DEF x, y, xv, yv, e
<1>7. x \in Word /\ xv \in Word /\ y \in Word /\ yv \in Word
  BY <1>5, FbSizes DEF Word
<1>8. /\ e \in Config
      /\ e.xres = x /\ e.xres_virtual = xv /\ e.yres = y /\ e.yres_virtual = yv
  <2>1. d \in Config BY <1>4
  <2>2. IsFour(e, x, xv, y, yv) BY <2>1, <1>6, <1>7, FourFields, Zenon
  <2> QED BY <2>2 DEF IsFour
<1> QED BY <1>5, <1>8 DEF Resolved, d, e

\* Clipping leaves the resolutions alone and the offsets words.
LEMMA ClipKeepsResolved == ASSUME NEW c, Resolved(c)
                           PROVE /\ Resolved(Clipped(c))
                                 /\ Clipped(Clipped(c)) = Clipped(c)
<1>1. c \in Config BY DEF Resolved
<1>2. /\ Minus(c.xres_virtual, c.xres) \in Word
      /\ Minus(c.yres_virtual, c.yres) \in Word
  BY <1>1, MinusWord DEF Config
<1> DEFINE dx == Minus(c.xres_virtual, c.xres)
           dy == Minus(c.yres_virtual, c.yres)
<1>3. CASE ~fb_use_offsets(c)
  BY <1>3 DEF Clipped
<1>4. CASE fb_use_offsets(c)
  <2> DEFINE e == [c EXCEPT !.xoffset = Lower(@, dx), !.yoffset = Lower(@, dy)]
  <2>1. Clipped(c) = e BY <1>4 DEF Clipped
  <2>2. /\ Lower(c.xoffset, dx) \in Word /\ Lower(c.yoffset, dy) \in Word
        /\ Lower(Lower(c.xoffset, dx), dx) = Lower(c.xoffset, dx)
        /\ Lower(Lower(c.yoffset, dy), dy) = Lower(c.yoffset, dy)
    BY <1>1, <1>2 DEF Lower, Config, Word
  <2> HIDE DEF dx, dy
  <2>3. /\ e \in Config
        /\ e.xres = c.xres /\ e.xres_virtual = c.xres_virtual
        /\ e.yres = c.yres /\ e.yres_virtual = c.yres_virtual
        /\ e.xoffset = Lower(c.xoffset, dx) /\ e.yoffset = Lower(c.yoffset, dy)
    BY <1>1, <2>2 DEF Config
  <2>4. Resolved(e) BY <2>3 DEF Resolved
  <2>5. fb_use_offsets(e) BY <1>4, <2>3 DEF fb_use_offsets
  <2>6. Clipped(e) = [e EXCEPT !.xoffset = Lower(@, dx), !.yoffset = Lower(@, dy)]
    BY <2>3, <2>5 DEF Clipped, dx, dy
  <2>7. Clipped(e) = e
    BY <2>2, <2>3, <2>6 DEF Config
  <2> QED BY <2>1, <2>4, <2>7
<1> QED BY <1>3, <1>4

\* A configuration with valid resolutions is neither cut nor filled in.
LEMMA ResolvedStays == ASSUME NEW c, Resolved(c) PROVE WithDefaults(Cut(c)) = c
<1>1. c \in Config BY DEF Resolved
<1>2. /\ c.xres \in 1 .. XMax /\ c.xres_virtual \in 1 .. XMax
      /\ c.yres \in 1 .. YMax /\ c.yres_virtual \in 1 .. YMax
      /\ c.xres \in Word /\ c.xres_virtual \in Word
      /\ c.yres \in Word /\ c.yres_virtual \in Word
  BY <1>1 DEF Resolved, Config
<1>3. Cut(c) = c
  <2>1. /\ Lower(c.xres, XMax) = c.xres /\ Lower(c.xres_virtual, XMax) = c.xres_virtual
        /\ Lower(c.yres, YMax) = c.yres /\ Lower(c.yres_virtual, YMax) = c.yres_virtual
    BY <1>2, Sizes DEF Lower
  <2>2. Cut(c) = Four(c, c.xres, c.xres_virtual, c.yres, c.yres_virtual)
    BY <2>1 DEF Cut, Four
  <2> QED BY <1>1, <2>2, FourSame
<1>4. WithDefaults(c) = c
  <2>1. c.xres # 0 /\ c.xres_virtual # 0 /\ c.yres # 0 /\ c.yres_virtual # 0
    BY <1>2, FbSizes
  <2>2. WithDefaults(c) = Four(c, c.xres, c.xres_virtual, c.yres, c.yres_virtual)
    BY <1>1, <2>1 DEF WithDefaults, Four, Config
  <2> QED BY <1>1, <2>2, FourSame
<1> QED BY <1>3, <1>4

\* Validation gives a valid configuration and changes none.
LEMMA ValidateFacts == ASSUME NEW c \in Config
                       PROVE /\ Resolved(Validate(c))
                             /\ Validate(Validate(c)) = Validate(c)
<1> DEFINE d == WithDefaults(Cut(c))
<1>1. Resolved(d) BY DefaultsResolve
<1>2. Validate(c) = Clipped(d) BY DEF Validate
<1> HIDE DEF d
<1>3. Resolved(Clipped(d)) /\ Clipped(Clipped(d)) = Clipped(d)
  BY <1>1, ClipKeepsResolved
<1>4. WithDefaults(Cut(Clipped(d))) = Clipped(d)
  BY <1>3, ResolvedStays
<1> QED BY <1>2, <1>3, <1>4 DEF Validate

\* The initial configuration is valid: its virtual screen is its viewport.
LEMMA InitialValid == Resolved(Initial) /\ Validate(Initial) = Initial
<1>1. Resolved(Initial) BY FbConfigs DEF Resolved
<1>2. ~fb_use_offsets(Initial) BY FbConfigs, FbSizes DEF fb_use_offsets
<1> QED BY <1>1, <1>2, ResolvedStays DEF Validate, Clipped

\* The mapped section of any configuration.
LEMMA SectionType == ASSUME NEW c, Resolved(c)
                     PROVE Section(c) \in [start : Nat, rows : Nat, pitch : Word]
<1>1. c \in Config BY DEF Resolved
<1>2. bcm2835_fb_get_pitch(c) \in Word BY <1>1, ReplyWords
<1>3. c.xoffset + c.yoffset * bcm2835_fb_get_pitch(c) \in Nat
  <2>1. /\ c.xoffset \in Nat /\ c.yoffset \in Nat
        /\ bcm2835_fb_get_pitch(c) \in Nat
    BY <1>1, <1>2 DEF Config, Word
  <2>2. c.yoffset * bcm2835_fb_get_pitch(c) \in Nat BY <2>1
  <2> QED BY <2>1, <2>2
<1>4. c.yres \in Nat BY <1>1 DEF Config, Word
<1> QED BY <1>2, <1>3, <1>4 DEF Section

\* The inductive invariant: the type invariant with what a configuration in
\* force and one the guest was told of have in common, and the relations
\* between the parts of the state.
Valid(c) == Resolved(c) /\ Validate(c) = c

FbInv ==
  /\ TypeOK
  /\ Valid(config) /\ Valid(told)
  /\ SectionFollowsConfig
  /\ ConsoleFollowsConfig
  /\ reply = ReplyFor(told)
  /\ PendingIsSignalled

\* It holds initially.
LEMMA InitFbInv == Init => FbInv
<1> SUFFICES ASSUME Init PROVE FbInv OBVIOUS
<1>1. Valid(Initial) BY InitialValid DEF Valid
<1>2. ReplyFor(Initial) \in [pitch : Word, size : Word]
  BY ReplyWords, FbConfigs DEF ReplyFor
<1>3. SizeOf(Initial) \in [x : 1 .. XMax, y : 1 .. YMax]
  BY FbConfigs DEF SizeOf
<1>4. Nothing \in [start : Nat, rows : Nat, pitch : Word]
  BY FbSizes DEF Nothing, Word
<1>5. TypeOK
  BY <1>2, <1>3, <1>4, FbConfigs DEF Init, TypeOK
<1> QED
  BY <1>1, <1>5 DEF Init, FbInv, SectionFollowsConfig, ConsoleFollowsConfig, PendingIsSignalled

\* A request puts a valid configuration in force.
LEMMA PushFacts ==
  ASSUME FbInv, NEW req \in Requests, WriteData(req)
  PROVE  FbInv'
<1> DEFINE c == Validate(req)
<1>1. req \in Config BY FbConfigs
<1>2. Valid(c) BY <1>1, ValidateFacts DEF Valid
<1> HIDE DEF c
<1>3. /\ config' = c /\ told' = c /\ reply' = ReplyFor(c) /\ invalidate' = TRUE
      /\ console' = SizeOf(c) /\ pending' = TRUE /\ irq' = TRUE /\ section' = section
  BY DEF WriteData, Push, bcm2835_fb_reconfigure, c
<1>4. c \in Config /\ c.xres \in 1 .. XMax /\ c.yres \in 1 .. YMax
  BY <1>2 DEF Valid, Resolved
<1>5. ReplyFor(c) \in [pitch : Word, size : Word]
  BY <1>4, ReplyWords DEF ReplyFor
<1>6. SizeOf(c) \in [x : 1 .. XMax, y : 1 .. YMax]
  BY <1>4 DEF SizeOf
<1>7. TypeOK' BY <1>3, <1>4, <1>5, <1>6 DEF FbInv, TypeOK
<1>8. SectionFollowsConfig' BY <1>3 DEF SectionFollowsConfig
<1>9. ConsoleFollowsConfig' BY <1>3 DEF ConsoleFollowsConfig
<1>10. PendingIsSignalled' BY <1>3 DEF PendingIsSignalled
<1>11. Valid(config)' /\ Valid(told)' BY <1>2, <1>3 DEF Valid, Resolved
<1> QED BY <1>3, <1>7, <1>8, <1>9, <1>10, <1>11 DEF FbInv

\* Every step keeps it.
LEMMA NextFbInv == FbInv /\ [Next]_vars => FbInv'
<1> SUFFICES ASSUME FbInv, [Next]_vars PROVE FbInv' OBVIOUS
<1> USE DEF FbInv
<1>1. ASSUME NEW req \in Requests, WriteData(req) PROVE FbInv'
  BY <1>1, PushFacts
<1>2. CASE ReadData
  BY <1>2 DEF ReadData, TypeOK, Valid, Resolved, SectionFollowsConfig,
              ConsoleFollowsConfig, PendingIsSignalled
<1>3. CASE fb_invalidate_display
  BY <1>3 DEF fb_invalidate_display, TypeOK, Valid, Resolved, SectionFollowsConfig,
              ConsoleFollowsConfig, PendingIsSignalled
<1>4. CASE fb_update_display
  <2>1. Section(config) \in [start : Nat, rows : Nat, pitch : Word]
    BY SectionType DEF Valid
  <2>2. TypeOK' BY <1>4, <2>1 DEF fb_update_display, TypeOK
  <2>3. SectionFollowsConfig'
    BY <1>4 DEF fb_update_display, SectionFollowsConfig
  <2> QED
    BY <1>4, <2>2, <2>3 DEF fb_update_display, Valid, Resolved, ConsoleFollowsConfig,
                            PendingIsSignalled
<1>5. CASE Reset
  <2>1. Valid(Initial) BY InitialValid DEF Valid
  <2>2. TypeOK' BY <1>5, FbConfigs DEF Reset, TypeOK
  <2>3. Valid(config)' /\ Valid(told)' BY <1>5, <2>1 DEF Reset, Valid, Resolved
  <2>4. reply' = ReplyFor(told)' BY <1>5 DEF Reset
  <2> QED
    BY <1>5, <2>2, <2>3, <2>4 DEF Reset, SectionFollowsConfig, ConsoleFollowsConfig,
                                  PendingIsSignalled
<1>6. CASE UNCHANGED vars
  BY <1>6 DEF vars, TypeOK, Valid, Resolved, SectionFollowsConfig,
              ConsoleFollowsConfig, PendingIsSignalled
<1> QED BY <1>1, <1>2, <1>3, <1>4, <1>5, <1>6 DEF Next

\* The inductive invariant holds in every reachable state.
THEOREM FbInvariant == Spec => []FbInv
  BY InitFbInv, NextFbInv, PTL DEF Spec

\* The configuration in force, the mapped memory and what the guest was told
\* have the ranges the code relies on.
THEOREM FbTypeCorrect == Spec => []TypeOK
<1>1. FbInv => TypeOK BY DEF FbInv
<1> QED BY <1>1, FbInvariant, PTL

\* A redraw never reads memory mapped for an earlier configuration.
THEOREM RedrawFollowsConfig == Spec => []SectionFollowsConfig
<1>1. FbInv => SectionFollowsConfig BY DEF FbInv
<1> QED BY <1>1, FbInvariant, PTL

\* What the guest was told describes the configuration as long as it is in
\* force.
THEOREM ReplyIsRight == Spec => []ReplyDescribesConfig
<1>1. FbInv => ReplyDescribesConfig BY DEF FbInv, ReplyDescribesConfig
<1> QED BY <1>1, FbInvariant, PTL

\* The console has the size of the configuration in force, or a reset put the
\* initial one back, and an answer that waits has raised the interrupt.
THEOREM ConsoleAndInterrupt == Spec => [](ConsoleFollowsConfig /\ PendingIsSignalled)
<1>1. FbInv => ConsoleFollowsConfig /\ PendingIsSignalled BY DEF FbInv
<1> QED BY <1>1, FbInvariant, PTL

\* Validation is idempotent on every configuration that is ever in force.
THEOREM ConfigStaysValid == Spec => []ConfigIsValid
<1>1. FbInv => ConfigIsValid BY DEF FbInv, Valid, ConfigIsValid
<1> QED BY <1>1, FbInvariant, PTL

-----------------------------------------------------------------------------
(* The pixels a redraw reads.                                              *)

\* What the guests ask for: pixels of whole bytes, and few enough of them that
\* the largest screen has a size of 32 bits.
PixelsFit ==
  \A c \in Requests \cup {Initial} : c.bytes \in Nat \ {0} /\ (XMax * c.bytes) * YMax < Wrap

\* Products grow with their factors.
LEMMA Products ==
  ASSUME NEW a \in Nat, NEW b \in Nat, NEW c \in Nat, a <= b
  PROVE  a * c \in Nat /\ b * c \in Nat /\ a * c <= b * c
<1>1. PICK d \in Nat : b = a + d
  <2>1. b - a \in Nat /\ b = a + (b - a)
        OBVIOUS
  <2> QED BY <2>1
<1>2. b * c = a * c + d * c
      BY <1>1
<1>3. a * c \in Nat /\ d * c \in Nat
      BY <1>1
<1> QED BY <1>2, <1>3

\* Validation leaves the size of a pixel alone.
LEMMA ValidateKeepsBytes == ASSUME NEW c \in Config PROVE Validate(c).bytes = c.bytes
<1>1. Cut(c) \in Config /\ Cut(c).bytes = c.bytes
  <2>1. /\ Lower(c.xres, XMax) \in Word /\ Lower(c.xres_virtual, XMax) \in Word
        /\ Lower(c.yres, YMax) \in Word /\ Lower(c.yres_virtual, YMax) \in Word
        BY FbSizes DEF Lower, Config, Word
  <2> QED BY <2>1 DEF Cut, Config
<1> DEFINE d == Cut(c)
<1> HIDE DEF d
<1>2. d \in Config /\ d.bytes = c.bytes
      BY <1>1 DEF d
<1>3. WithDefaults(d).bytes = d.bytes
  <2> DEFINE x == IF d.xres = 0 THEN XSmall ELSE d.xres
             y == IF d.yres = 0 THEN YSmall ELSE d.yres
  <2>1. WithDefaults(d) = [d EXCEPT !.xres = x, !.yres = y,
                !.xres_virtual = IF @ = 0 THEN x ELSE @,
                !.yres_virtual = IF @ = 0 THEN y ELSE @]
        BY DEF WithDefaults
  <2> HIDE DEF x, y
  <2> QED BY <1>2, <2>1 DEF Config
<1>4. WithDefaults(d) \in Config
      BY DefaultsResolve DEF Resolved, d
<1> DEFINE e == WithDefaults(d)
<1> HIDE DEF e
<1>5. e \in Config /\ e.bytes = c.bytes
      BY <1>2, <1>3, <1>4 DEF e
<1>6. Clipped(e).bytes = e.bytes
  <2>1. CASE ~fb_use_offsets(e)
        BY <2>1 DEF Clipped
  <2>2. CASE fb_use_offsets(e)
    <3> DEFINE dx == Minus(e.xres_virtual, e.xres)
               dy == Minus(e.yres_virtual, e.yres)
    <3>1. Clipped(e) = [e EXCEPT !.xoffset = Lower(@, dx), !.yoffset = Lower(@, dy)]
          BY <2>2 DEF Clipped
    <3> HIDE DEF dx, dy
    <3> QED BY <1>5, <3>1 DEF Config
  <2> QED BY <2>1, <2>2
<1>7. Validate(c) = Clipped(e)
      BY DEF Validate, d, e
<1> QED BY <1>5, <1>6, <1>7

\* A valid configuration that uses its offsets keeps the viewport in the frame,
\* each side of which is the longer of the two, unless it moves it along a
\* virtual side that is too short for it.
LEMMA ViewportInside ==
  ASSUME NEW c, Valid(c), fb_use_offsets(c), ~MovedUnclipped(c)
  PROVE  /\ c.xoffset <= Higher(c.xres, c.xres_virtual) - c.xres
         /\ c.yoffset <= Higher(c.yres, c.yres_virtual) - c.yres
<1> DEFINE dx == Minus(c.xres_virtual, c.xres)
           dy == Minus(c.yres_virtual, c.yres)
<1>1. /\ c \in Config
      /\ c.xres \in Word /\ c.xres_virtual \in Word /\ c.yres \in Word /\ c.yres_virtual \in Word
      BY DEF Valid, Resolved, Config
<1>2. Clipped(c) = c
      BY ResolvedStays DEF Valid, Validate
<1>3. /\ dx \in Nat /\ dy \in Nat
      /\ c.xres_virtual >= c.xres => dx = c.xres_virtual - c.xres
      /\ c.yres_virtual >= c.yres => dy = c.yres_virtual - c.yres
  <2>1. ASSUME NEW a \in Word, NEW b \in Word
        PROVE  Minus(a, b) \in Nat /\ (a >= b => Minus(a, b) = a - b)
        BY <2>1, FbSizes DEF Minus, Word
  <2> QED BY <1>1, <2>1
<1>4. c = [c EXCEPT !.xoffset = Lower(@, dx), !.yoffset = Lower(@, dy)]
      BY <1>2 DEF Clipped
<1> HIDE DEF dx, dy
<1>5. c.xoffset = Lower(c.xoffset, dx) /\ c.yoffset = Lower(c.yoffset, dy)
      BY <1>1, <1>4 DEF Config
<1>6. c.xoffset \in Nat /\ c.yoffset \in Nat /\ dx \in Nat /\ dy \in Nat
      BY <1>1, <1>3 DEF Config, Word
<1>7. c.xoffset <= dx /\ c.yoffset <= dy
      BY <1>5, <1>6 DEF Lower
<1>8. /\ c.xres_virtual < c.xres => c.xoffset = 0
      /\ c.yres_virtual < c.yres => c.yoffset = 0
      BY <1>6 DEF MovedUnclipped
<1> QED BY <1>1, <1>3, <1>6, <1>7, <1>8 DEF Higher, Word

\* The last byte of a valid configuration whose pixels fit lies in the frame.
LEMMA LastByteInside ==
  ASSUME NEW c, Valid(c), ~MovedUnclipped(c),
         c.bytes \in Nat \ {0}, (XMax * c.bytes) * YMax < Wrap
  PROVE  LastByte(c, Section(c)) <= bcm2835_fb_get_size(c)
<1> DEFINE xr == c.xres
           yr == c.yres
           xv == Higher(c.xres, c.xres_virtual)
           yv == Higher(c.yres, c.yres_virtual)
           b == c.bytes
           p == xv * b
<1>1. /\ c \in Config /\ xr \in Nat \ {0} /\ yr \in Nat \ {0} /\ b \in Nat \ {0}
      /\ xv \in Nat /\ yv \in Nat \ {0} /\ xr <= xv /\ yr <= yv /\ xv <= XMax /\ yv <= YMax
      /\ XMax \in Nat /\ YMax \in Nat \ {0} /\ Wrap \in Nat
      BY FbSizes DEF Valid, Resolved, Higher
<1>2. p \in Nat /\ p <= XMax * b /\ XMax * b \in Nat
      BY <1>1, Products
<1>3. p * yv < Wrap /\ p * yv \in Nat /\ p <= p * yv
  <2> DEFINE q == XMax * b
  <2>1. q * YMax < Wrap
        OBVIOUS
  <2> HIDE DEF p, q
  <2>2. p * YMax \in Nat /\ q * YMax \in Nat /\ p * YMax <= q * YMax
        BY <1>1, <1>2, Products DEF q
  <2>3. yv * p \in Nat /\ yv * p <= YMax * p
        BY <1>1, <1>2, Products
  <2>4. 1 * p <= yv * p
        BY <1>1, <1>2, Products
  <2>5. yv * p = p * yv /\ YMax * p = p * YMax /\ 1 * p = p
        BY <1>1, <1>2
  <2> QED BY <1>1, <1>2, <2>1, <2>2, <2>3, <2>4, <2>5
<1>4. bcm2835_fb_get_pitch(c) = p
  <2>1. bcm2835_fb_get_pitch(c) = p % Wrap
        BY DEF bcm2835_fb_get_pitch
  <2> HIDE DEF p
  <2> QED BY <1>1, <1>2, <1>3, <2>1
<1>5. bcm2835_fb_get_size(c) = yv * p
  <2>1. bcm2835_fb_get_size(c) = (yv * p) % Wrap
        BY <1>4 DEF bcm2835_fb_get_size
  <2> HIDE DEF p
  <2>2. yv * p = p * yv
        BY <1>1, <1>2
  <2> QED BY <1>1, <1>2, <1>3, <2>1, <2>2
<1>6. LastByte(c, Section(c)) = Section(c).start + (yr - 1) * p + xr * b
      BY <1>4 DEF LastByte, Section
<1>7. xr * b \in Nat /\ xr * b <= p
      BY <1>1, Products
<1>8. yr - 1 \in Nat /\ (yr - 1) * p \in Nat
      BY <1>1, <1>2, Products
<1>9. CASE fb_use_offsets(c)
  <2> DEFINE xo == c.xoffset
             yo == c.yoffset
  <2>1. xo \in Nat /\ yo \in Nat /\ xo <= xv - xr /\ yo <= yv - yr
        BY <1>1, <1>9, ViewportInside DEF Config, Word
  <2>2. Section(c).start = xo + yo * p
        BY <1>4, <1>9 DEF Section
  <2>3. xo + xr * b <= p
    <3>1. (xo + xr) * b <= p
      <4>1. xo + xr \in Nat /\ xo + xr <= xv
            BY <1>1, <2>1
      <4> HIDE DEF xo, xr, xv, b
      <4> QED BY <1>1, <4>1, Products
    <3>2. (xo + xr) * b = xo * b + xr * b
          BY <1>1, <2>1
    <3>3. xo <= xo * b
      <4>1. 1 * xo <= b * xo
            BY <1>1, <2>1, Products
      <4> QED BY <1>1, <2>1, <4>1
    <3>4. xo * b \in Nat
          BY <1>1, <2>1
    <3> HIDE DEF p, xo
    <3> QED BY <1>2, <1>7, <2>1, <3>1, <3>2, <3>3, <3>4
  <2>4. (yo + (yr - 1)) * p + p <= yv * p
    <3> HIDE DEF p, yo
    <3>1. yo + (yr - 1) \in Nat /\ (yo + (yr - 1)) + 1 \in Nat /\ (yo + (yr - 1)) + 1 <= yv
          BY <1>1, <2>1
    <3>2. ((yo + (yr - 1)) + 1) * p <= yv * p
          BY <1>1, <1>2, <3>1, Products
    <3>3. ((yo + (yr - 1)) + 1) * p = (yo + (yr - 1)) * p + p
          BY <1>2, <3>1
    <3> QED BY <3>2, <3>3
  <2>5. (yo + (yr - 1)) * p = yo * p + (yr - 1) * p
    <3> HIDE DEF p, yo
    <3> QED BY <1>1, <1>2, <1>8, <2>1
  <2>6. yo * p \in Nat
    <3> HIDE DEF p, yo
    <3> QED BY <1>2, <2>1
  <2> DEFINE A == yo * p
             B == (yr - 1) * p
             D == xr * b
             Z == yv * p
  <2>7. LastByte(c, Section(c)) = xo + A + B + D
        BY <1>6, <2>2
  <2>8. A + B + p <= Z
        BY <2>4, <2>5
  <2>9. A \in Nat /\ B \in Nat /\ D \in Nat /\ Z \in Nat
    <3>1. Z \in Nat
      <4> HIDE DEF p
      <4> QED BY <1>1, <1>2
    <3> QED BY <1>7, <1>8, <2>6, <3>1
  <2>10. bcm2835_fb_get_size(c) = Z
         BY <1>5
  <2>11. xo + D <= p
         BY <2>3
  <2> HIDE DEF A, B, D, Z, p, xo
  <2> QED BY <1>2, <2>1, <2>7, <2>8, <2>9, <2>10, <2>11
<1>10. CASE ~fb_use_offsets(c)
  <2>1. Section(c).start = 0
        BY <1>10 DEF Section
  <2>2. (yr - 1) * p + p <= yv * p
    <3> HIDE DEF p
    <3>1. yr * p <= yv * p
          BY <1>1, <1>2, Products
    <3>2. ((yr - 1) + 1) * p = (yr - 1) * p + p
          BY <1>2, <1>8
    <3> QED BY <1>1, <3>1, <3>2
  <2> DEFINE B == (yr - 1) * p
             D == xr * b
             Z == yv * p
  <2>3. Z \in Nat
    <3> HIDE DEF p
    <3> QED BY <1>1, <1>2
  <2>4. LastByte(c, Section(c)) = B + D /\ B + p <= Z /\ D <= p /\ bcm2835_fb_get_size(c) = Z
        BY <1>5, <1>6, <1>7, <1>8, <2>1, <2>2
  <2>5. B \in Nat /\ D \in Nat
        BY <1>7, <1>8
  <2> HIDE DEF B, D, Z, p
  <2> QED BY <1>2, <2>3, <2>4, <2>5
<1> QED BY <1>9, <1>10

\* The size of a pixel of the configuration in force is the initial one or one
\* a guest asked for.
BytesAsked == config.bytes \in {c.bytes : c \in Requests \cup {Initial}}

\* Every step keeps it.
LEMMA BytesKept == BytesAsked /\ [Next]_vars => BytesAsked'
<1> SUFFICES ASSUME BytesAsked, [Next]_vars
             PROVE  BytesAsked'
    OBVIOUS
<1>1. ASSUME NEW req \in Requests, WriteData(req)
      PROVE  BytesAsked'
  <2>1. config' = Validate(req)
        BY <1>1 DEF WriteData, Push, bcm2835_fb_reconfigure
  <2>2. config'.bytes = req.bytes
        BY <2>1, FbConfigs, ValidateKeepsBytes
  <2> QED BY <2>2 DEF BytesAsked
<1>2. CASE Reset
      BY <1>2 DEF Reset, BytesAsked
<1>3. CASE ReadData \/ fb_invalidate_display \/ fb_update_display \/ UNCHANGED vars
  <2>1. config' = config
        BY <1>3 DEF ReadData, fb_invalidate_display, fb_update_display, vars
  <2> QED BY <2>1 DEF BytesAsked
<1> QED BY <1>1, <1>2, <1>3 DEF Next

\* When the pixels of the largest mode fit in a machine word, a redraw reads no
\* byte behind the end of the frame the guest was told of, whatever the two
\* resolutions are, unless the viewport is moved along a virtual side shorter
\* than its own: there the limit of the offset wraps (bcm2835_fb.c:248-251).
THEOREM RedrawStaysInFrame == PixelsFit => (Spec => []PixelsInFrame)
<1> SUFFICES ASSUME PixelsFit
             PROVE  Spec => []PixelsInFrame
    OBVIOUS
<1>1. Init => BytesAsked
      BY DEF Init, BytesAsked
<1>2. FbInv /\ BytesAsked => PixelsInFrame
  <2> SUFFICES ASSUME FbInv, BytesAsked, ~MovedUnclipped(config), ~invalidate
               PROVE  LastByte(config, section) <= bcm2835_fb_get_size(config)
      BY DEF PixelsInFrame
  <2>1. Valid(config) /\ section = Section(config)
        BY DEF FbInv, SectionFollowsConfig
  <2>2. config.bytes \in Nat \ {0} /\ (XMax * config.bytes) * YMax < Wrap
        BY DEF BytesAsked, PixelsFit
  <2> QED BY <2>1, <2>2, LastByteInside
<1> QED BY <1>1, <1>2, BytesKept, FbInvariant, PTL DEF Spec
=============================================================================
