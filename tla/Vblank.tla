------------------------------- MODULE Vblank -------------------------------
(***************************************************************************)
(* Interrupts of the main CPU: start-up (entry.S, the first lines of main) *)
(* and the vector table (init.c), the handlers, and the three places of    *)
(* the main loop that race with them: run_timing_test, wait_vblank and the *)
(* computation of frame_ticks.                                             *)
(*                                                                         *)
(* An interrupt is taken between two steps of the program as soon as the   *)
(* controller requests one and interrupts are on (the CPU samples its      *)
(* interrupt pin after every instruction); its handler is one step, as it  *)
(* runs with interrupts off.  vblank_count has 32 bits and the V30 reads   *)
(* it in two halves, in an order the compiler chooses (lowFirst).          *)
(***************************************************************************)
EXTENDS Integers

CONSTANTS
  H,             \* number of values of half of vblank_count (2^16)
  B,             \* number of values of a byte (2^8)
  Costs,         \* cycles a timed instruction may take
  IsrCost,       \* cycles an interrupt takes
  FramePace      \* least number of steps of the program in a frame

ASSUME VblankAssumption ==
  /\ H \in Nat /\ H >= 3
  /\ B \in Nat /\ B >= 2
  /\ Costs \subseteq Nat
  /\ IsrCost \in Nat \ {0}
  /\ FramePace \in Nat /\ FramePace >= 13

VARIABLES
  pc,
  ie,                               \* the CPU's interrupt flag
  pic,                              \* the interrupt controller's registers
  irr,                              \* interrupts it has latched
  age,                              \* steps of the program in this frame
  lowFirst,                         \* the low half of a count is read first
  hinted,                           \* the raster interrupt came in this frame
  vblank_count, prev_vblank_tick, vblank_tick,
  cnt, half,                        \* wait_vblank: its variable, the half read
  elapsed, cost, ticks,             \* run_timing_test
  flipped, frame_ticks,             \* main
  frames, passed, since             \* history: frames, ticks of the last one,
                                    \* those since wait_vblank was called
hw      == <<pic, irr, hinted, lowFirst>>
statics == <<vblank_count, prev_vblank_tick, vblank_tick>>
waiting == <<cnt, half>>
timing  == <<elapsed, cost, ticks>>
locals  == <<flipped, frame_ticks>>
history == <<frames, passed, since>>
vars    == <<pc, ie, hw, age, statics, waiting, timing, locals, history>>

Vblank  == 0                        \* the controller's inputs
DmaDone == 1
Hint    == 2
Lines   == {Vblank, DmaDone, Hint}

Counts == 0 .. H * H - 1
Low(n) == n % H
High(n) == n \div H

\* Power is on; RAM and the controller hold anything.
Init ==
  /\ pc = "cli" /\ ie = FALSE
  /\ pic \in [expect : {"icw2", "ocw1"}, base : {0, 16}, aeoi : {FALSE}, imr : {{}, Lines}, isr : {{}}]
  /\ irr \in {{}, Lines}
  /\ age = 0 /\ hinted = FALSE /\ lowFirst \in BOOLEAN
  /\ vblank_count \in {0, H + 1} /\ prev_vblank_tick \in {0, 1} /\ vblank_tick = 1
  /\ cnt = 0 /\ half = 0
  /\ elapsed = 0 /\ cost = 0 /\ ticks = 0
  /\ flipped = FALSE /\ frame_ticks = 0
  /\ frames = 0 /\ passed = 0 /\ since = 0

-----------------------------------------------------------------------------
(***************************************************************************)
(* The interrupt controller (external, an 8259): three initialisation      *)
(* words, then a mask.                                                     *)
(***************************************************************************)
Bit(v, i) == (v \div CASE i = 0 -> 1 [] i = 1 -> 2 [] i = 2 -> 4) % 2

PicWrite(port, v) ==
  IF port = 64 THEN [pic EXCEPT !.expect = "icw2", !.aeoi = FALSE, !.imr = {}, !.isr = {}]
  ELSE CASE pic.expect = "icw2" -> [pic EXCEPT !.expect = "icw4", !.base = v]
         [] pic.expect = "icw4" -> [pic EXCEPT !.expect = "ocw1", !.aeoi = (Bit(v, 1) = 1)]
         [] pic.expect = "ocw1" -> [pic EXCEPT !.imr = {i \in Lines : Bit(v, i) = 1}]

\* Lowest number first, and nothing below one that is in service.
Requested(i) ==
  /\ i \in irr \ pic.imr
  /\ \A j \in Lines : j <= i => j \notin pic.isr
  /\ \A j \in irr \ pic.imr : i <= j

InterruptTaken == ie /\ \E i \in Lines : Requested(i)

\* Vertical blanks that wait to be taken.
Held == IF Vblank \in irr THEN 1 ELSE 0

\* init.c: the 16 entries of exception_vectors that are filled.
ExceptionVector(v) ==
  CASE v = 8 -> "vblank_handler"
    [] v \in {9, 10, 11} -> "return"
    [] v \in (0 .. 7) \cup (12 .. 15) -> "return"
    [] OTHER -> "none"

HandlerReadsFirst ==                \* mutant: the old tick is lost
  /\ vblank_tick' \in 0 .. B - 1
  /\ prev_vblank_tick' = vblank_tick'
  /\ vblank_count' = (vblank_count + 1) % (H * H)
  /\ passed' = (vblank_tick' - vblank_tick) % B

\* The sound CPU's tick counter may have advanced by any number.
vblank_handler ==
  /\ prev_vblank_tick' = vblank_tick
  /\ vblank_tick' \in 0 .. B - 1
  /\ vblank_count' = (vblank_count + 1) % (H * H)
  /\ passed' = (vblank_tick' - vblank_tick) % B

Interrupt(i) ==
  /\ ie /\ Requested(i)
  /\ irr' = irr \ {i}
  /\ pic' = IF pic.aeoi THEN pic ELSE [pic EXCEPT !.isr = @ \cup {i}]
  /\ elapsed' = IF pc \in {"warm2", "timed"} THEN elapsed + IsrCost ELSE elapsed
  /\ LET handler == ExceptionVector(pic.base + i) IN
     /\ pc' = IF handler = "none" THEN "lost" ELSE pc
     /\ IF handler = "vblank_handler"
        THEN vblank_handler /\ since' = IF since < 4 THEN since + 1 ELSE since
        ELSE UNCHANGED <<statics, passed, since>>
  /\ UNCHANGED <<ie, hinted, lowFirst, age, waiting, cost, ticks, locals, frames>>

-----------------------------------------------------------------------------
(***************************************************************************)
(* The video hardware (external): a vertical blank begins each frame.      *)
(***************************************************************************)
NewFrame ==
  /\ age >= FramePace /\ ~InterruptTaken
  /\ age' = 0 /\ hinted' = FALSE
  /\ irr' = irr \cup {Vblank}
  /\ frames' = (frames + 1) % (H * H)
  /\ UNCHANGED <<pc, ie, pic, lowFirst, statics, waiting, timing, locals, passed, since>>

RasterHint ==
  /\ ~hinted /\ hinted' = TRUE
  /\ irr' = irr \cup {Hint}
  /\ UNCHANGED <<pc, ie, pic, lowFirst, age, statics, waiting, timing, locals, history>>

-----------------------------------------------------------------------------
(***************************************************************************)
(* The program.  A step happens when no interrupt is to be taken.          *)
(***************************************************************************)
Step(from, to) ==
  /\ ~InterruptTaken
  /\ pc = from /\ pc' = to
  /\ age' = IF age < FramePace THEN age + 1 ELSE age

\* entry.S
Cli ==
  /\ Step("cli", "bss")
  /\ ie' = FALSE
  /\ UNCHANGED <<hw, statics, waiting, timing, locals, history>>

Bss ==
  /\ Step("bss", "icw1")
  /\ vblank_count' = 0 /\ prev_vblank_tick' = 0 /\ vblank_tick' = 0
  /\ UNCHANGED <<ie, hw, waiting, timing, locals, history>>

\* main: 0x40 and 0x42 are the controller's ports.
OutB(port, v) ==
  /\ pic' = PicWrite(port, v)
  /\ irr' = IF port = 64 THEN {} ELSE irr
  /\ UNCHANGED <<ie, hinted, lowFirst, statics, waiting, timing, locals, history>>

Icw1 == Step("icw1", "icw2") /\ OutB(64, 19)

Icw2Vectors16 == Step("icw2", "icw4") /\ OutB(66, 16)      \* mutant: base 0x10
Icw2 == Step("icw2", "icw4") /\ OutB(66, 8)

Icw4NoAutoEoi == Step("icw4", "mask") /\ OutB(66, 13)      \* mutant: 0x0d
Icw4 == Step("icw4", "mask") /\ OutB(66, 15)

Mask == Step("mask", "setup") /\ OutB(66, 250)

\* Display, palette and sound timer: longer than a frame.
Setup ==
  /\ Step("setup", "setup") \/ Step("setup", "sti")
  /\ UNCHANGED <<ie, hw, statics, waiting, timing, locals, history>>

\* Frames are counted from here: the one that is latched is the first.
EnableInterrupts ==
  /\ Step("sti", "comms")
  /\ ie' = TRUE
  /\ frames' = Held
  /\ passed' = 0
  /\ UNCHANGED <<hw, statics, waiting, timing, locals, since>>

\* while (1): a command of the host may take any time.
Comms ==
  /\ Step("comms", "comms") \/ Step("comms", "disable")
  /\ UNCHANGED <<ie, hw, statics, waiting, timing, locals, history>>

(***************************************************************************)
(* run_timing_test: the function of the test reads the hardware clock      *)
(* before ("warm1", "first") and after ("warm2", "timed") the instruction  *)
(* it times.                                                               *)
(***************************************************************************)
DisableMissing ==                   \* mutant: disable_interrupts left out
  /\ Step("disable", "warm1")
  /\ cost' \in Costs
  /\ UNCHANGED <<ie, hw, statics, waiting, elapsed, ticks, locals, history>>

Disable ==
  /\ Step("disable", "warm1")
  /\ ie' = FALSE
  /\ cost' \in Costs
  /\ UNCHANGED <<hw, statics, waiting, elapsed, ticks, locals, history>>

FirstReading(from, to) ==
  /\ Step(from, to)
  /\ elapsed' = cost
  /\ UNCHANGED <<ie, hw, statics, waiting, cost, ticks, locals, history>>

\* The result is narrowed to a byte, the type of the pointer to the function.
SecondReading(from, to) ==
  /\ Step(from, to)
  /\ ticks' = elapsed % B /\ elapsed' = 0
  /\ UNCHANGED <<ie, hw, statics, waiting, cost, locals, history>>

\* The function is called once to warm up and once for the result.
CallFunction ==
  \/ FirstReading("warm1", "warm2") \/ SecondReading("warm2", "first")
  \/ FirstReading("first", "timed") \/ SecondReading("timed", "enable")

EnableMissing ==                    \* mutant: enable_interrupts left out
  /\ Step("enable", "draw")
  /\ UNCHANGED <<ie, hw, statics, waiting, timing, locals, history>>

Enable ==
  /\ Step("enable", "draw")
  /\ ie' = TRUE
  /\ UNCHANGED <<hw, statics, waiting, timing, locals, history>>

\* The display takes any time.
Draw ==
  /\ Step("draw", "draw") \/ Step("draw", "cnt1")
  /\ since' = 0
  /\ UNCHANGED <<ie, hw, statics, waiting, timing, locals, frames, passed>>

(***************************************************************************)
(* wait_vblank                                                             *)
(***************************************************************************)
FirstHalf == IF lowFirst THEN Low(vblank_count) ELSE High(vblank_count)
Joined    == IF lowFirst THEN H * High(vblank_count) + half
                         ELSE H * half + Low(vblank_count)

ReadFirst(from, to) ==
  /\ Step(from, to)
  /\ half' = FirstHalf
  /\ UNCHANGED <<ie, hw, statics, cnt, timing, locals, history>>

Cnt1 == ReadFirst("cnt1", "cnt2")

Cnt2 ==                             \* cnt = vblank_count
  /\ Step("cnt2", "while1")
  /\ cnt' = Joined /\ half' = 0
  /\ UNCHANGED <<ie, hw, statics, timing, locals, history>>

While1 == ReadFirst("while1", "while2")

HighChanged ==                      \* mutant: one half compared
  /\ \/ Step("while2", "while1") /\ High(Joined) = High(cnt) /\ UNCHANGED cnt
     \/ Step("while2", "flip") /\ High(Joined) # High(cnt) /\ cnt' = 0
  /\ half' = 0
  /\ UNCHANGED <<ie, hw, statics, timing, locals, history>>

ConditionInverted ==                \* mutant: waits while the count changes
  /\ \/ Step("while2", "while1") /\ Joined # cnt /\ UNCHANGED cnt
     \/ Step("while2", "flip") /\ Joined = cnt /\ cnt' = 0
  /\ half' = 0
  /\ UNCHANGED <<ie, hw, statics, timing, locals, history>>

While2 ==                           \* while (cnt == vblank_count)
  /\ \/ Step("while2", "while1") /\ Joined = cnt /\ UNCHANGED cnt
     \/ Step("while2", "flip") /\ Joined # cnt /\ cnt' = 0
  /\ half' = 0
  /\ UNCHANGED <<ie, hw, statics, timing, locals, history>>

\* A new page clears the screen, which takes more than a frame.
Flip ==
  /\ \/ Step("flip", "flip") /\ flipped' = TRUE
     \/ Step("flip", "test1") /\ UNCHANGED flipped
  /\ UNCHANGED <<ie, hw, statics, waiting, timing, frame_ticks, history>>

(***************************************************************************)
(* frame_ticks: the four reads; the comparison chooses a form of the       *)
(* difference, and the byte it is assigned to makes both the same.         *)
(***************************************************************************)
Test1 ==
  /\ Step("test1", "test2")
  /\ half' = prev_vblank_tick
  /\ UNCHANGED <<ie, hw, statics, cnt, timing, locals, history>>

Test2 ==
  /\ Step("test2", "sub1")
  /\ cnt' = IF half > vblank_tick THEN B ELSE 0
  /\ UNCHANGED <<ie, hw, statics, half, timing, locals, history>>

Sub1 ==
  /\ Step("sub1", "sub2")
  /\ half' = vblank_tick
  /\ UNCHANGED <<ie, hw, statics, cnt, timing, locals, history>>

Sub2 ==
  /\ Step("sub2", "done")
  /\ frame_ticks' = (half + cnt - prev_vblank_tick) % B
  /\ half' = 0 /\ cnt' = 0
  /\ UNCHANGED <<ie, hw, statics, timing, flipped, history>>

Again ==
  /\ Step("done", "comms")
  /\ flipped' = FALSE /\ frame_ticks' = 0 /\ ticks' = 0
  /\ UNCHANGED <<ie, hw, statics, waiting, elapsed, cost, history>>

Program ==
  \/ Cli \/ Bss \/ Icw1 \/ Icw2 \/ Icw4 \/ Mask \/ Setup \/ EnableInterrupts
  \/ Comms \/ Disable \/ CallFunction \/ Enable \/ Draw
  \/ Cnt1 \/ Cnt2 \/ While1 \/ While2 \/ Flip
  \/ Test1 \/ Test2 \/ Sub1 \/ Sub2 \/ Again

TakeInterrupt == \E i \in Lines : Interrupt(i)

Next == Program \/ TakeInterrupt \/ NewFrame \/ RasterHint

Spec == Init /\ [][Next]_vars

\* The CPU runs and takes interrupts, and the display goes on.
FairSpec == Spec /\ WF_vars(Program) /\ WF_vars(TakeInterrupt) /\ WF_vars(NewFrame)

-----------------------------------------------------------------------------
(***************************************************************************)
(* Properties                                                              *)
(***************************************************************************)
Boot == {"cli", "bss", "icw1", "icw2", "icw4", "mask", "setup", "sti"}
Waiting == {"cnt1", "cnt2", "while1", "while2"}

TypeOK ==
  /\ pc \in Boot \cup Waiting \cup
       {"comms", "disable", "warm1", "warm2", "first", "timed", "enable", "draw", "flip",
        "test1", "test2", "sub1", "sub2", "done"}
  /\ ie \in BOOLEAN /\ hinted \in BOOLEAN /\ lowFirst \in BOOLEAN /\ flipped \in BOOLEAN
  /\ pic \in [expect : {"icw2", "icw4", "ocw1"}, base : Nat, aeoi : BOOLEAN,
              imr : SUBSET Lines, isr : SUBSET Lines]
  /\ irr \subseteq Lines /\ age \in 0 .. FramePace
  /\ vblank_count \in Counts /\ frames \in Counts
  /\ prev_vblank_tick \in 0 .. B - 1 /\ vblank_tick \in 0 .. B - 1 /\ passed \in 0 .. B - 1
  /\ cost \in Nat /\ ticks \in 0 .. B - 1 /\ frame_ticks \in 0 .. B - 1
  /\ elapsed \in Nat /\ cnt \in Nat /\ half \in Nat /\ since \in 0 .. 4

\* No vertical blank is lost, although timing tests hold them up: the count
\* is that of the frames, but for one that is waiting to be delivered.
FramesCounted ==
  pc \notin Boot => (vblank_count + Held) % (H * H) = frames

\* run_timing_test: the result is the time of the instruction alone, modulo a
\* byte, never with that of an interrupt.
MeasuredAlone == pc = "enable" => ticks = cost % B

\* wait_vblank: it returns only after a vertical blank since it was called,
\* also when one comes between the two halves of a read ...
WaitedForFrame == pc = "flip" => since >= 1

\* ... and at the latest with the second, whatever carry it comes with.
WaitIsPrompt == pc \in Waiting => since <= 2

WaitReturns == pc \in Waiting ~> pc \notin Waiting

\* main: prev_vblank_tick and vblank_tick are read as a pair, and frame_ticks
\* is the ticks of the frame just ended, unless clearing the screen for a new
\* page delays the reads.
FrameTicksExact == pc = "done" /\ ~flipped => frame_ticks = passed
=============================================================================
