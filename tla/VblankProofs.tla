---------------------------- MODULE VblankProofs -----------------------------
(***************************************************************************)
(* No vertical blank is lost, a timing test measures its instruction       *)
(* alone, wait_vblank returns after a vertical blank and with the second   *)
(* at the latest, and frame_ticks is exact unless the screen is cleared:   *)
(* for every size of the counter and of a byte, and for every pace that    *)
(* VblankAssumption allows.                                                *)
(***************************************************************************)
EXTENDS Vblank, TLAPS

Section == {"warm1", "warm2", "first", "timed", "enable"}

\* The controller, stage by stage of start-up; then it stays as it is.
Configured ==
  /\ pc = "icw2" => pic.expect = "icw2" /\ pic.isr = {}
  /\ pc = "icw4" => pic.expect = "icw4" /\ pic.isr = {} /\ pic.base = 8
  /\ pc = "mask" => pic.expect = "ocw1" /\ pic.isr = {} /\ pic.base = 8 /\ pic.aeoi
  /\ pc \notin Boot \ {"setup", "sti"} =>
       pic.isr = {} /\ pic.base = 8 /\ pic.aeoi /\ pic.imr = {DmaDone}

\* Interrupts are off during start-up and a timing test, only there.
Enabled == ie <=> pc \notin Boot \cup Section

\* A vertical blank that waits for the end of a timing test came in it.
Position == CASE pc = "warm1" -> 0 [] pc = "warm2" -> 1 [] pc = "first" -> 2
              [] pc = "timed" -> 3 [] OTHER -> 4
Latched == pc \in Section /\ Vblank \in irr => age <= Position

Measuring ==
  /\ pc \in {"warm2", "timed"} => elapsed = cost
  /\ pc \in Section => cost \in Costs
  /\ pc = "enable" => ticks = cost % B

\* Without a vertical blank the counter is what wait_vblank has read of it.
Watching ==
  since = 0 =>
    /\ pc \in {"cnt2", "while2"} => half = FirstHalf
    /\ pc \in {"while1", "while2"} => cnt = vblank_count
    /\ pc # "flip"

\* The count starts from zero.
Cleared == pc \in Boot \ {"cli", "bss"} => vblank_count = 0

Control == Configured /\ Enabled /\ Cleared
Inv == TypeOK /\ Control /\ Latched /\ FramesCounted /\ Measuring /\ Watching

\* With interrupts on, one that waits is taken before the next step.
LEMMA NoneWaits ==
  ASSUME TypeOK, Control, ie, ~InterruptTaken
  PROVE  Vblank \notin irr
<1>1. pic.isr = {} /\ pic.imr = {DmaDone}
  BY DEF Control, Configured, Enabled, Boot, Section
<1>2. Vblank \in irr => Requested(Vblank)
  BY <1>1 DEF Requested, TypeOK, Lines, Vblank, DmaDone, Hint
<1> QED BY <1>2 DEF InterruptTaken, Lines

LEMMA ControlStep ==
  ASSUME TypeOK, Control, Next
  PROVE  Control'
<1> USE VblankAssumption DEF hw, statics, waiting, timing, locals, history, TypeOK, Boot, Waiting, Section, Lines, Vblank, DmaDone, Hint, Control, Configured, Enabled, Cleared
<1>1. CASE Cli
  BY <1>1 DEF Step, Cli
<1>2. CASE Bss
  BY <1>2 DEF Step, Bss
<1>3. CASE Icw1
  BY <1>3 DEF Step, Icw1, OutB, PicWrite
<1>4. CASE Icw2
  BY <1>4 DEF Step, Icw2, OutB, PicWrite
<1>5. CASE Icw4
  <2>1. Bit(15, 1) = 1
    BY DEF Bit
  <2>2. /\ pc = "icw4" /\ pc' = "mask" /\ ie' = ie
        /\ pic' = [pic EXCEPT !.expect = "ocw1", !.aeoi = (Bit(15, 1) = 1)]
    BY <1>5 DEF Icw4, Step, OutB, PicWrite
  <2>3. pic'.aeoi
    BY <2>1, <2>2, Zenon
  <2>4. pic.isr = {} /\ pic.base = 8 /\ vblank_count' = vblank_count
    BY <1>5 DEF Icw4, Step, OutB
  <2>5. pic'.expect = "ocw1" /\ pic'.isr = pic.isr /\ pic'.base = pic.base
    BY <2>2
  <2> QED BY <2>2, <2>3, <2>4, <2>5
<1>6. CASE Mask
  BY <1>6 DEF Step, Mask, OutB, PicWrite, Bit
<1>7. CASE Setup
  BY <1>7 DEF Step, Setup
<1>8. CASE EnableInterrupts
  BY <1>8 DEF Step, EnableInterrupts
<1>9. CASE Comms
  BY <1>9 DEF Step, Comms
<1>10. CASE Disable
  BY <1>10 DEF Step, Disable
<1>11. CASE CallFunction
  BY <1>11 DEF Step, CallFunction, FirstReading, SecondReading
<1>12. CASE Enable
  BY <1>12 DEF Step, Enable
<1>13. CASE Draw
  BY <1>13 DEF Step, Draw
<1>14. CASE Cnt1
  BY <1>14 DEF Step, Cnt1, ReadFirst
<1>15. CASE Cnt2
  BY <1>15 DEF Step, Cnt2
<1>16. CASE While1
  BY <1>16 DEF Step, While1, ReadFirst
<1>17. CASE While2
  BY <1>17 DEF Step, While2
<1>18. CASE Flip
  BY <1>18 DEF Step, Flip
<1>19. CASE Test1
  BY <1>19 DEF Step, Test1
<1>20. CASE Test2
  BY <1>20 DEF Step, Test2
<1>21. CASE Sub1
  BY <1>21 DEF Step, Sub1
<1>22. CASE Sub2
  BY <1>22 DEF Step, Sub2
<1>23. CASE Again
  BY <1>23 DEF Step, Again
<1>24. CASE TakeInterrupt
  BY <1>24 DEF TakeInterrupt, Interrupt, Requested, ExceptionVector, vblank_handler
<1>25. CASE NewFrame
  BY <1>25 DEF NewFrame, InterruptTaken, Requested
<1>26. CASE RasterHint
  BY <1>26 DEF RasterHint
<1> QED BY <1>1, <1>2, <1>3, <1>4, <1>5, <1>6, <1>7, <1>8, <1>9, <1>10, <1>11, <1>12, <1>13, <1>14, <1>15, <1>16, <1>17, <1>18, <1>19, <1>20, <1>21, <1>22, <1>23, <1>24, <1>25, <1>26 DEF Next, Program

LEMMA LatchedStep ==
  ASSUME TypeOK, Control, Latched, Next
  PROVE  Latched'
<1> USE VblankAssumption DEF hw, statics, waiting, timing, locals, history, TypeOK, Boot, Waiting, Section, Lines, Vblank, DmaDone, Hint, Control, Configured, Enabled, Cleared, Latched, Position
<1>1. CASE Cli
  BY <1>1 DEF Step, Cli
<1>2. CASE Bss
  BY <1>2 DEF Step, Bss
<1>3. CASE Icw1
  BY <1>3 DEF Step, Icw1, OutB, PicWrite
<1>4. CASE Icw2
  BY <1>4 DEF Step, Icw2, OutB, PicWrite
<1>5. CASE Icw4
  BY <1>5 DEF Step, Icw4, OutB, PicWrite, Bit
<1>6. CASE Mask
  BY <1>6 DEF Step, Mask, OutB, PicWrite, Bit
<1>7. CASE Setup
  BY <1>7 DEF Step, Setup
<1>8. CASE EnableInterrupts
  BY <1>8 DEF Step, EnableInterrupts
<1>9. CASE Comms
  BY <1>9 DEF Step, Comms
<1>10. CASE Disable
  <2>1. Vblank \notin irr
    BY <1>10, NoneWaits DEF Disable, Step
  <2> QED BY <1>10, <2>1 DEF Step, Disable
<1>11. CASE CallFunction
  BY <1>11 DEF Step, CallFunction, FirstReading, SecondReading
<1>12. CASE Enable
  BY <1>12 DEF Step, Enable
<1>13. CASE Draw
  BY <1>13 DEF Step, Draw
<1>14. CASE Cnt1
  BY <1>14 DEF Step, Cnt1, ReadFirst
<1>15. CASE Cnt2
  BY <1>15 DEF Step, Cnt2
<1>16. CASE While1
  BY <1>16 DEF Step, While1, ReadFirst
<1>17. CASE While2
  BY <1>17 DEF Step, While2
<1>18. CASE Flip
  BY <1>18 DEF Step, Flip
<1>19. CASE Test1
  BY <1>19 DEF Step, Test1
<1>20. CASE Test2
  BY <1>20 DEF Step, Test2
<1>21. CASE Sub1
  BY <1>21 DEF Step, Sub1
<1>22. CASE Sub2
  BY <1>22 DEF Step, Sub2
<1>23. CASE Again
  BY <1>23 DEF Step, Again
<1>24. CASE TakeInterrupt
  BY <1>24 DEF TakeInterrupt, Interrupt, Requested, ExceptionVector, vblank_handler
<1>25. CASE NewFrame
  BY <1>25 DEF NewFrame, InterruptTaken, Requested
<1>26. CASE RasterHint
  BY <1>26 DEF RasterHint
<1> QED BY <1>1, <1>2, <1>3, <1>4, <1>5, <1>6, <1>7, <1>8, <1>9, <1>10, <1>11, <1>12, <1>13, <1>14, <1>15, <1>16, <1>17, <1>18, <1>19, <1>20, <1>21, <1>22, <1>23, <1>24, <1>25, <1>26 DEF Next, Program

LEMMA MeasuringStep ==
  ASSUME TypeOK, Control, Measuring, Next
  PROVE  Measuring'
<1> USE VblankAssumption DEF hw, statics, waiting, timing, locals, history, TypeOK, Boot, Waiting, Section, Lines, Vblank, DmaDone, Hint, Control, Configured, Enabled, Cleared, Measuring
<1>1. CASE Cli
  BY <1>1 DEF Step, Cli
<1>2. CASE Bss
  BY <1>2 DEF Step, Bss
<1>3. CASE Icw1
  BY <1>3 DEF Step, Icw1, OutB, PicWrite
<1>4. CASE Icw2
  BY <1>4 DEF Step, Icw2, OutB, PicWrite
<1>5. CASE Icw4
  BY <1>5 DEF Step, Icw4, OutB, PicWrite, Bit
<1>6. CASE Mask
  BY <1>6 DEF Step, Mask, OutB, PicWrite, Bit
<1>7. CASE Setup
  BY <1>7 DEF Step, Setup
<1>8. CASE EnableInterrupts
  BY <1>8 DEF Step, EnableInterrupts
<1>9. CASE Comms
  BY <1>9 DEF Step, Comms
<1>10. CASE Disable
  BY <1>10 DEF Step, Disable
<1>11. CASE CallFunction
  BY <1>11 DEF Step, CallFunction, FirstReading, SecondReading
<1>12. CASE Enable
  BY <1>12 DEF Step, Enable
<1>13. CASE Draw
  BY <1>13 DEF Step, Draw
<1>14. CASE Cnt1
  BY <1>14 DEF Step, Cnt1, ReadFirst
<1>15. CASE Cnt2
  BY <1>15 DEF Step, Cnt2
<1>16. CASE While1
  BY <1>16 DEF Step, While1, ReadFirst
<1>17. CASE While2
  BY <1>17 DEF Step, While2
<1>18. CASE Flip
  BY <1>18 DEF Step, Flip
<1>19. CASE Test1
  BY <1>19 DEF Step, Test1
<1>20. CASE Test2
  BY <1>20 DEF Step, Test2
<1>21. CASE Sub1
  BY <1>21 DEF Step, Sub1
<1>22. CASE Sub2
  BY <1>22 DEF Step, Sub2
<1>23. CASE Again
  BY <1>23 DEF Step, Again
<1>24. CASE TakeInterrupt
  BY <1>24 DEF TakeInterrupt, Interrupt, Requested, ExceptionVector, vblank_handler
<1>25. CASE NewFrame
  BY <1>25 DEF NewFrame, InterruptTaken, Requested
<1>26. CASE RasterHint
  BY <1>26 DEF RasterHint
<1> QED BY <1>1, <1>2, <1>3, <1>4, <1>5, <1>6, <1>7, <1>8, <1>9, <1>10, <1>11, <1>12, <1>13, <1>14, <1>15, <1>16, <1>17, <1>18, <1>19, <1>20, <1>21, <1>22, <1>23, <1>24, <1>25, <1>26 DEF Next, Program

LEMMA WatchingStep ==
  ASSUME TypeOK, Control, Watching, Next
  PROVE  Watching'
<1> USE VblankAssumption DEF hw, statics, waiting, timing, locals, history, TypeOK, Boot, Waiting, Section, Lines, Vblank, DmaDone, Hint, Control, Configured, Enabled, Cleared, Watching, FirstHalf, Joined, Low, High, Counts
<1>1. CASE Cli
  BY <1>1 DEF Step, Cli
<1>2. CASE Bss
  BY <1>2 DEF Step, Bss
<1>3. CASE Icw1
  BY <1>3 DEF Step, Icw1, OutB, PicWrite
<1>4. CASE Icw2
  BY <1>4 DEF Step, Icw2, OutB, PicWrite
<1>5. CASE Icw4
  BY <1>5 DEF Step, Icw4, OutB, PicWrite, Bit
<1>6. CASE Mask
  BY <1>6 DEF Step, Mask, OutB, PicWrite, Bit
<1>7. CASE Setup
  BY <1>7 DEF Step, Setup
<1>8. CASE EnableInterrupts
  BY <1>8 DEF Step, EnableInterrupts
<1>9. CASE Comms
  BY <1>9 DEF Step, Comms
<1>10. CASE Disable
  BY <1>10 DEF Step, Disable
<1>11. CASE CallFunction
  BY <1>11 DEF Step, CallFunction, FirstReading, SecondReading
<1>12. CASE Enable
  BY <1>12 DEF Step, Enable
<1>13. CASE Draw
  BY <1>13 DEF Step, Draw
<1>14. CASE Cnt1
  BY <1>14 DEF Step, Cnt1, ReadFirst
<1>15. CASE Cnt2
  BY <1>15 DEF Step, Cnt2
<1>16. CASE While1
  BY <1>16 DEF Step, While1, ReadFirst
<1>17. CASE While2
  BY <1>17 DEF Step, While2
<1>18. CASE Flip
  BY <1>18 DEF Step, Flip
<1>19. CASE Test1
  BY <1>19 DEF Step, Test1
<1>20. CASE Test2
  BY <1>20 DEF Step, Test2
<1>21. CASE Sub1
  BY <1>21 DEF Step, Sub1
<1>22. CASE Sub2
  BY <1>22 DEF Step, Sub2
<1>23. CASE Again
  BY <1>23 DEF Step, Again
<1>24. CASE TakeInterrupt
  BY <1>24 DEF TakeInterrupt, Interrupt, Requested, ExceptionVector, vblank_handler
<1>25. CASE NewFrame
  BY <1>25 DEF NewFrame, InterruptTaken, Requested
<1>26. CASE RasterHint
  BY <1>26 DEF RasterHint
<1> QED BY <1>1, <1>2, <1>3, <1>4, <1>5, <1>6, <1>7, <1>8, <1>9, <1>10, <1>11, <1>12, <1>13, <1>14, <1>15, <1>16, <1>17, <1>18, <1>19, <1>20, <1>21, <1>22, <1>23, <1>24, <1>25, <1>26 DEF Next, Program

LEMMA BitIsBit == \A v \in Nat, i \in Lines : Bit(v, i) \in Nat
BY DEF Bit, Lines, Vblank, DmaDone, Hint

LEMMA Modulo ==
  ASSUME NEW c \in Counts
  PROVE  /\ H * H \in Nat \ {0}
         /\ (c + 0) % (H * H) = c
         /\ (c + 1) % (H * H) \in Counts
         /\ (((c + 1) % (H * H)) + 0) % (H * H) = (c + 1) % (H * H)
<1>1. H * H \in Nat \ {0}
  BY VblankAssumption
<1>2. \A N \in Nat \ {0} : \A d \in 0 .. N - 1 :
        /\ (d + 0) % N = d
        /\ (d + 1) % N \in 0 .. N - 1
        /\ (((d + 1) % N) + 0) % N = (d + 1) % N
  OBVIOUS
<1>3. c \in 0 .. H * H - 1
  BY DEF Counts
<1>4. /\ (c + 0) % (H * H) = c
      /\ (c + 1) % (H * H) \in 0 .. H * H - 1
      /\ (((c + 1) % (H * H)) + 0) % (H * H) = (c + 1) % (H * H)
  BY <1>1, <1>2, <1>3, Zenon
<1> QED BY <1>1, <1>4 DEF Counts

LEMMA PicTypeStep ==
  ASSUME TypeOK, Control, Next
  PROVE  (pic \in [expect : {"icw2", "icw4", "ocw1"}, base : Nat, aeoi : BOOLEAN,
                    imr : SUBSET Lines, isr : SUBSET Lines])'
<1> USE VblankAssumption DEF hw, statics, waiting, timing, locals, history, TypeOK, Boot, Waiting, Section, Lines, Vblank, DmaDone, Hint
<1>1. CASE Cli
  BY <1>1 DEF Step, Cli
<1>2. CASE Bss
  BY <1>2 DEF Step, Bss
<1>3. CASE Icw1
  BY <1>3 DEF Step, Icw1, OutB, PicWrite
<1>4. CASE Icw2
  <2>1. pic.expect = "icw2"
    BY <1>4 DEF Icw2, Step, Control, Configured
  <2>2. pic' = [pic EXCEPT !.expect = "icw4", !.base = 8]
    BY <1>4, <2>1 DEF Icw2, OutB, PicWrite
  <2> QED BY <2>2
<1>5. CASE Icw4
  <2>1. pic.expect = "icw4"
    BY <1>5 DEF Icw4, Step, Control, Configured
  <2>2. pic' = [pic EXCEPT !.expect = "ocw1", !.aeoi = (Bit(15, 1) = 1)]
    BY <1>5, <2>1 DEF Icw4, OutB, PicWrite
  <2>3. (Bit(15, 1) = 1) \in BOOLEAN
    OBVIOUS
  <2> QED BY <2>2, <2>3
<1>6. CASE Mask
  <2>1. pic.expect = "ocw1"
    BY <1>6 DEF Mask, Step, Control, Configured
  <2>2. pic' = [pic EXCEPT !.imr = {i \in Lines : Bit(250, i) = 1}]
    BY <1>6, <2>1 DEF Mask, OutB, PicWrite
  <2> QED BY <2>2
<1>7. CASE Setup
  BY <1>7 DEF Step, Setup
<1>8. CASE EnableInterrupts
  BY <1>8 DEF Step, EnableInterrupts
<1>9. CASE Comms
  BY <1>9 DEF Step, Comms
<1>10. CASE Disable
  BY <1>10 DEF Step, Disable
<1>11. CASE CallFunction
  BY <1>11 DEF Step, CallFunction, FirstReading, SecondReading
<1>12. CASE Enable
  BY <1>12 DEF Step, Enable
<1>13. CASE Draw
  BY <1>13 DEF Step, Draw
<1>14. CASE Cnt1
  BY <1>14 DEF Step, Cnt1, ReadFirst
<1>15. CASE Cnt2
  BY <1>15 DEF Step, Cnt2
<1>16. CASE While1
  BY <1>16 DEF Step, While1, ReadFirst
<1>17. CASE While2
  BY <1>17 DEF Step, While2
<1>18. CASE Flip
  BY <1>18 DEF Step, Flip
<1>19. CASE Test1
  BY <1>19 DEF Step, Test1
<1>20. CASE Test2
  BY <1>20 DEF Step, Test2
<1>21. CASE Sub1
  BY <1>21 DEF Step, Sub1
<1>22. CASE Sub2
  BY <1>22 DEF Step, Sub2
<1>23. CASE Again
  BY <1>23 DEF Step, Again
<1>24. CASE TakeInterrupt
  BY <1>24 DEF TakeInterrupt, Interrupt, Requested, ExceptionVector, vblank_handler
<1>25. CASE NewFrame
  BY <1>25 DEF NewFrame, InterruptTaken, Requested
<1>26. CASE RasterHint
  BY <1>26 DEF RasterHint
<1> QED BY <1>1, <1>2, <1>3, <1>4, <1>5, <1>6, <1>7, <1>8, <1>9, <1>10, <1>11, <1>12, <1>13, <1>14, <1>15, <1>16, <1>17, <1>18, <1>19, <1>20, <1>21, <1>22, <1>23, <1>24, <1>25, <1>26 DEF Next, Program

LEMMA NumbersStep ==
  ASSUME TypeOK, Control, Next
  PROVE  (
             /\ prev_vblank_tick \in 0 .. B - 1 /\ vblank_tick \in 0 .. B - 1
             /\ passed \in 0 .. B - 1 /\ cost \in Nat /\ ticks \in 0 .. B - 1
             /\ frame_ticks \in 0 .. B - 1 /\ elapsed \in Nat)'
<1> USE VblankAssumption DEF hw, statics, waiting, timing, locals, history, TypeOK
<1>1. CASE Cli
  BY <1>1 DEF Step, Cli
<1>2. CASE Bss
  BY <1>2 DEF Step, Bss
<1>3. CASE Icw1
  BY <1>3 DEF Step, Icw1, OutB, PicWrite
<1>4. CASE Icw2
  BY <1>4 DEF Step, Icw2, OutB, PicWrite
<1>5. CASE Icw4
  BY <1>5 DEF Step, Icw4, OutB, PicWrite, Bit
<1>6. CASE Mask
  BY <1>6 DEF Step, Mask, OutB, PicWrite, Bit
<1>7. CASE Setup
  BY <1>7 DEF Step, Setup
<1>8. CASE EnableInterrupts
  BY <1>8 DEF Step, EnableInterrupts
<1>9. CASE Comms
  BY <1>9 DEF Step, Comms
<1>10. CASE Disable
  BY <1>10 DEF Step, Disable
<1>11. CASE CallFunction
  BY <1>11 DEF Step, CallFunction, FirstReading, SecondReading
<1>12. CASE Enable
  BY <1>12 DEF Step, Enable
<1>13. CASE Draw
  BY <1>13 DEF Step, Draw
<1>14. CASE Cnt1
  BY <1>14 DEF Step, Cnt1, ReadFirst
<1>15. CASE Cnt2
  BY <1>15 DEF Step, Cnt2
<1>16. CASE While1
  BY <1>16 DEF Step, While1, ReadFirst
<1>17. CASE While2
  BY <1>17 DEF Step, While2
<1>18. CASE Flip
  BY <1>18 DEF Step, Flip
<1>19. CASE Test1
  BY <1>19 DEF Step, Test1
<1>20. CASE Test2
  BY <1>20 DEF Step, Test2
<1>21. CASE Sub1
  BY <1>21 DEF Step, Sub1
<1>22. CASE Sub2
  BY <1>22 DEF Step, Sub2
<1>23. CASE Again
  BY <1>23 DEF Step, Again
<1>24. CASE TakeInterrupt
  BY <1>24 DEF TakeInterrupt, Interrupt, Requested, ExceptionVector, vblank_handler
<1>25. CASE NewFrame
  BY <1>25 DEF NewFrame, InterruptTaken, Requested
<1>26. CASE RasterHint
  BY <1>26 DEF RasterHint
<1> QED BY <1>1, <1>2, <1>3, <1>4, <1>5, <1>6, <1>7, <1>8, <1>9, <1>10, <1>11, <1>12, <1>13, <1>14, <1>15, <1>16, <1>17, <1>18, <1>19, <1>20, <1>21, <1>22, <1>23, <1>24, <1>25, <1>26 DEF Next, Program

LEMMA ReadsStep ==
  ASSUME TypeOK, Control, Next
  PROVE  (cnt \in Nat /\ half \in Nat)'
<1> USE VblankAssumption DEF hw, statics, waiting, timing, locals, history, TypeOK, Counts
<1>1. CASE Cli
  BY <1>1 DEF Step, Cli
<1>2. CASE Bss
  BY <1>2 DEF Step, Bss
<1>3. CASE Icw1
  BY <1>3 DEF Step, Icw1, OutB, PicWrite
<1>4. CASE Icw2
  BY <1>4 DEF Step, Icw2, OutB, PicWrite
<1>5. CASE Icw4
  BY <1>5 DEF Step, Icw4, OutB, PicWrite, Bit
<1>6. CASE Mask
  BY <1>6 DEF Step, Mask, OutB, PicWrite, Bit
<1>7. CASE Setup
  BY <1>7 DEF Step, Setup
<1>8. CASE EnableInterrupts
  BY <1>8 DEF Step, EnableInterrupts
<1>9. CASE Comms
  BY <1>9 DEF Step, Comms
<1>10. CASE Disable
  BY <1>10 DEF Step, Disable
<1>11. CASE CallFunction
  BY <1>11 DEF Step, CallFunction, FirstReading, SecondReading
<1>12. CASE Enable
  BY <1>12 DEF Step, Enable
<1>13. CASE Draw
  BY <1>13 DEF Step, Draw
<1>14. CASE Cnt1
  BY <1>14 DEF Step, Cnt1, ReadFirst, FirstHalf, Joined, Low, High
<1>15. CASE Cnt2
  BY <1>15 DEF Step, Cnt2, FirstHalf, Joined, Low, High
<1>16. CASE While1
  BY <1>16 DEF Step, While1, ReadFirst, FirstHalf, Joined, Low, High
<1>17. CASE While2
  BY <1>17 DEF Step, While2, FirstHalf, Joined, Low, High
<1>18. CASE Flip
  BY <1>18 DEF Step, Flip
<1>19. CASE Test1
  BY <1>19 DEF Step, Test1
<1>20. CASE Test2
  BY <1>20 DEF Step, Test2
<1>21. CASE Sub1
  BY <1>21 DEF Step, Sub1
<1>22. CASE Sub2
  BY <1>22 DEF Step, Sub2
<1>23. CASE Again
  BY <1>23 DEF Step, Again
<1>24. CASE TakeInterrupt
  BY <1>24 DEF TakeInterrupt, Interrupt, Requested, ExceptionVector, vblank_handler
<1>25. CASE NewFrame
  BY <1>25 DEF NewFrame, InterruptTaken, Requested
<1>26. CASE RasterHint
  BY <1>26 DEF RasterHint
<1> QED BY <1>1, <1>2, <1>3, <1>4, <1>5, <1>6, <1>7, <1>8, <1>9, <1>10, <1>11, <1>12, <1>13, <1>14, <1>15, <1>16, <1>17, <1>18, <1>19, <1>20, <1>21, <1>22, <1>23, <1>24, <1>25, <1>26 DEF Next, Program

LEMMA BooleansStep ==
  ASSUME TypeOK, Control, Next
  PROVE  (ie \in BOOLEAN /\ hinted \in BOOLEAN /\ lowFirst \in BOOLEAN /\ flipped \in BOOLEAN)'
<1> USE VblankAssumption DEF hw, statics, waiting, timing, locals, history, TypeOK
<1>1. CASE Cli
  BY <1>1, Zenon DEF Step, Cli
<1>2. CASE Bss
  BY <1>2, Zenon DEF Step, Bss
<1>3. CASE Icw1
  BY <1>3, Zenon DEF Step, Icw1, OutB, PicWrite
<1>4. CASE Icw2
  BY <1>4, Zenon DEF Step, Icw2, OutB, PicWrite
<1>5. CASE Icw4
  BY <1>5, Zenon DEF Step, Icw4, OutB, PicWrite, Bit
<1>6. CASE Mask
  BY <1>6, Zenon DEF Step, Mask, OutB, PicWrite, Bit
<1>7. CASE Setup
  BY <1>7, Zenon DEF Step, Setup
<1>8. CASE EnableInterrupts
  BY <1>8, Zenon DEF Step, EnableInterrupts
<1>9. CASE Comms
  BY <1>9, Zenon DEF Step, Comms
<1>10. CASE Disable
  BY <1>10, Zenon DEF Step, Disable
<1>11. CASE CallFunction
  BY <1>11, Zenon DEF Step, CallFunction, FirstReading, SecondReading
<1>12. CASE Enable
  BY <1>12, Zenon DEF Step, Enable
<1>13. CASE Draw
  BY <1>13, Zenon DEF Step, Draw
<1>14. CASE Cnt1
  BY <1>14, Zenon DEF Step, Cnt1, ReadFirst
<1>15. CASE Cnt2
  BY <1>15, Zenon DEF Step, Cnt2
<1>16. CASE While1
  BY <1>16, Zenon DEF Step, While1, ReadFirst
<1>17. CASE While2
  BY <1>17, Zenon DEF Step, While2
<1>18. CASE Flip
  BY <1>18, Zenon DEF Step, Flip
<1>19. CASE Test1
  BY <1>19, Zenon DEF Step, Test1
<1>20. CASE Test2
  BY <1>20, Zenon DEF Step, Test2
<1>21. CASE Sub1
  BY <1>21, Zenon DEF Step, Sub1
<1>22. CASE Sub2
  BY <1>22, Zenon DEF Step, Sub2
<1>23. CASE Again
  BY <1>23, Zenon DEF Step, Again
<1>24. CASE TakeInterrupt
  BY <1>24, Zenon DEF TakeInterrupt, Interrupt, Requested, ExceptionVector, vblank_handler
<1>25. CASE NewFrame
  BY <1>25, Zenon DEF NewFrame, InterruptTaken, Requested
<1>26. CASE RasterHint
  BY <1>26, Zenon DEF RasterHint
<1> QED BY <1>1, <1>2, <1>3, <1>4, <1>5, <1>6, <1>7, <1>8, <1>9, <1>10, <1>11, <1>12, <1>13, <1>14, <1>15, <1>16, <1>17, <1>18, <1>19, <1>20, <1>21, <1>22, <1>23, <1>24, <1>25, <1>26 DEF Next, Program

LEMMA LatchStep ==
  ASSUME TypeOK, Control, Next
  PROVE  (irr \subseteq Lines /\ age \in 0 .. FramePace /\ since \in 0 .. 4)'
<1> USE VblankAssumption DEF hw, statics, waiting, timing, locals, history, TypeOK, Lines, Vblank, Hint, DmaDone
<1>1. CASE Cli
  BY <1>1 DEF Step, Cli
<1>2. CASE Bss
  BY <1>2 DEF Step, Bss
<1>3. CASE Icw1
  BY <1>3 DEF Step, Icw1, OutB, PicWrite
<1>4. CASE Icw2
  BY <1>4 DEF Step, Icw2, OutB, PicWrite
<1>5. CASE Icw4
  BY <1>5 DEF Step, Icw4, OutB, PicWrite, Bit
<1>6. CASE Mask
  BY <1>6 DEF Step, Mask, OutB, PicWrite, Bit
<1>7. CASE Setup
  BY <1>7 DEF Step, Setup
<1>8. CASE EnableInterrupts
  BY <1>8 DEF Step, EnableInterrupts
<1>9. CASE Comms
  BY <1>9 DEF Step, Comms
<1>10. CASE Disable
  BY <1>10 DEF Step, Disable
<1>11. CASE CallFunction
  <2>1. irr' = irr /\ since' = since /\ age' = IF age < FramePace THEN age + 1 ELSE age
    BY <1>11, Zenon DEF Step, CallFunction, FirstReading, SecondReading
  <2> QED BY <2>1
<1>12. CASE Enable
  BY <1>12 DEF Step, Enable
<1>13. CASE Draw
  BY <1>13 DEF Step, Draw
<1>14. CASE Cnt1
  BY <1>14 DEF Step, Cnt1, ReadFirst
<1>15. CASE Cnt2
  BY <1>15 DEF Step, Cnt2
<1>16. CASE While1
  BY <1>16 DEF Step, While1, ReadFirst
<1>17. CASE While2
  BY <1>17 DEF Step, While2
<1>18. CASE Flip
  BY <1>18 DEF Step, Flip
<1>19. CASE Test1
  BY <1>19 DEF Step, Test1
<1>20. CASE Test2
  BY <1>20 DEF Step, Test2
<1>21. CASE Sub1
  BY <1>21 DEF Step, Sub1
<1>22. CASE Sub2
  BY <1>22 DEF Step, Sub2
<1>23. CASE Again
  BY <1>23 DEF Step, Again
<1>24. CASE TakeInterrupt
  BY <1>24 DEF TakeInterrupt, Interrupt, Requested, ExceptionVector, vblank_handler
<1>25. CASE NewFrame
  BY <1>25 DEF NewFrame, InterruptTaken, Requested
<1>26. CASE RasterHint
  BY <1>26 DEF RasterHint
<1> QED BY <1>1, <1>2, <1>3, <1>4, <1>5, <1>6, <1>7, <1>8, <1>9, <1>10, <1>11, <1>12, <1>13, <1>14, <1>15, <1>16, <1>17, <1>18, <1>19, <1>20, <1>21, <1>22, <1>23, <1>24, <1>25, <1>26 DEF Next, Program

LEMMA CountsStep ==
  ASSUME TypeOK, Control, Next
  PROVE  (vblank_count \in Counts /\ frames \in Counts)'
<1> USE VblankAssumption DEF hw, statics, waiting, timing, locals, history, TypeOK, Counts, Vblank, Held
<1>1. CASE Cli
  BY <1>1 DEF Step, Cli
<1>2. CASE Bss
  BY <1>2 DEF Step, Bss
<1>3. CASE Icw1
  BY <1>3 DEF Step, Icw1, OutB, PicWrite
<1>4. CASE Icw2
  BY <1>4 DEF Step, Icw2, OutB, PicWrite
<1>5. CASE Icw4
  BY <1>5 DEF Step, Icw4, OutB, PicWrite, Bit
<1>6. CASE Mask
  BY <1>6 DEF Step, Mask, OutB, PicWrite, Bit
<1>7. CASE Setup
  BY <1>7 DEF Step, Setup
<1>8. CASE EnableInterrupts
  BY <1>8, Modulo DEF Step, EnableInterrupts
<1>9. CASE Comms
  BY <1>9 DEF Step, Comms
<1>10. CASE Disable
  BY <1>10 DEF Step, Disable
<1>11. CASE CallFunction
  BY <1>11 DEF Step, CallFunction, FirstReading, SecondReading
<1>12. CASE Enable
  BY <1>12 DEF Step, Enable
<1>13. CASE Draw
  BY <1>13 DEF Step, Draw
<1>14. CASE Cnt1
  BY <1>14 DEF Step, Cnt1, ReadFirst
<1>15. CASE Cnt2
  BY <1>15 DEF Step, Cnt2
<1>16. CASE While1
  BY <1>16 DEF Step, While1, ReadFirst
<1>17. CASE While2
  BY <1>17 DEF Step, While2
<1>18. CASE Flip
  BY <1>18 DEF Step, Flip
<1>19. CASE Test1
  BY <1>19 DEF Step, Test1
<1>20. CASE Test2
  BY <1>20 DEF Step, Test2
<1>21. CASE Sub1
  BY <1>21 DEF Step, Sub1
<1>22. CASE Sub2
  BY <1>22 DEF Step, Sub2
<1>23. CASE Again
  BY <1>23 DEF Step, Again
<1>24. CASE TakeInterrupt
  BY <1>24 DEF TakeInterrupt, Interrupt, Requested, ExceptionVector, vblank_handler
<1>25. CASE NewFrame
  BY <1>25 DEF NewFrame, InterruptTaken, Requested
<1>26. CASE RasterHint
  BY <1>26 DEF RasterHint
<1> QED BY <1>1, <1>2, <1>3, <1>4, <1>5, <1>6, <1>7, <1>8, <1>9, <1>10, <1>11, <1>12, <1>13, <1>14, <1>15, <1>16, <1>17, <1>18, <1>19, <1>20, <1>21, <1>22, <1>23, <1>24, <1>25, <1>26 DEF Next, Program

LEMMA FramesStep ==
  ASSUME TypeOK, Control, Latched, FramesCounted, Next
  PROVE  FramesCounted'
<1> USE VblankAssumption DEF hw, statics, waiting, timing, locals, history, TypeOK, Boot, Waiting, Section, Lines, Vblank, DmaDone, Hint, Control, Configured, Enabled, Cleared, Latched, Position, FramesCounted, Counts, Held
<1>1. CASE Cli
  BY <1>1 DEF Step, Cli
<1>2. CASE Bss
  BY <1>2 DEF Step, Bss
<1>3. CASE Icw1
  BY <1>3 DEF Step, Icw1, OutB, PicWrite
<1>4. CASE Icw2
  BY <1>4 DEF Step, Icw2, OutB, PicWrite
<1>5. CASE Icw4
  BY <1>5 DEF Step, Icw4, OutB, PicWrite, Bit
<1>6. CASE Mask
  BY <1>6 DEF Step, Mask, OutB, PicWrite, Bit
<1>7. CASE Setup
  BY <1>7 DEF Step, Setup
<1>8. CASE EnableInterrupts
  <2>1. H * H \in Nat /\ H * H > 2
    OBVIOUS
  <2>2. vblank_count = 0
    BY <1>8 DEF Step, EnableInterrupts
  <2> QED BY <1>8, <2>1, <2>2 DEF Step, EnableInterrupts
<1>9. CASE Comms
  BY <1>9 DEF Step, Comms
<1>10. CASE Disable
  BY <1>10 DEF Step, Disable
<1>11. CASE CallFunction
  BY <1>11 DEF Step, CallFunction, FirstReading, SecondReading
<1>12. CASE Enable
  BY <1>12 DEF Step, Enable
<1>13. CASE Draw
  BY <1>13 DEF Step, Draw
<1>14. CASE Cnt1
  BY <1>14 DEF Step, Cnt1, ReadFirst
<1>15. CASE Cnt2
  BY <1>15 DEF Step, Cnt2
<1>16. CASE While1
  BY <1>16 DEF Step, While1, ReadFirst
<1>17. CASE While2
  BY <1>17 DEF Step, While2
<1>18. CASE Flip
  BY <1>18 DEF Step, Flip
<1>19. CASE Test1
  BY <1>19 DEF Step, Test1
<1>20. CASE Test2
  BY <1>20 DEF Step, Test2
<1>21. CASE Sub1
  BY <1>21 DEF Step, Sub1
<1>22. CASE Sub2
  BY <1>22 DEF Step, Sub2
<1>23. CASE Again
  BY <1>23 DEF Step, Again
<1>24. CASE TakeInterrupt
  <2>1. PICK i \in Lines : Interrupt(i)
    BY <1>24 DEF TakeInterrupt
  <2>2. CASE i = Vblank
    <3>1. vblank_count' = (vblank_count + 1) % (H * H)
      BY <2>1, <2>2 DEF Interrupt, ExceptionVector, vblank_handler
    <3>2. Held = 1 /\ Held' = 0
      BY <2>1, <2>2 DEF Interrupt, Requested
    <3>3. frames' = frames /\ pc' = pc
      BY <2>1, <2>2 DEF Interrupt, ExceptionVector
    <3> QED BY <3>1, <3>2, <3>3, Modulo
  <2>3. CASE i # Vblank
    <3>1. vblank_count' = vblank_count /\ frames' = frames /\ Held' = Held /\ pc' = pc
      BY <2>1, <2>3 DEF Interrupt, ExceptionVector, Requested
    <3> QED BY <3>1
  <2> QED BY <2>2, <2>3
<1>25. CASE NewFrame
  <2>1. pc \notin Boot => Vblank \notin irr
    BY <1>25, NoneWaits DEF NewFrame
  <2>2. vblank_count' = vblank_count /\ frames' = (frames + 1) % (H * H) /\ Held' = 1
        /\ pc' = pc
    BY <1>25 DEF NewFrame
  <2> QED BY <2>1, <2>2, Modulo
<1>26. CASE RasterHint
  BY <1>26 DEF RasterHint
<1> QED BY <1>1, <1>2, <1>3, <1>4, <1>5, <1>6, <1>7, <1>8, <1>9, <1>10, <1>11, <1>12, <1>13, <1>14, <1>15, <1>16, <1>17, <1>18, <1>19, <1>20, <1>21, <1>22, <1>23, <1>24, <1>25, <1>26 DEF Next, Program

LEMMA InitInv == Init => Inv
<1> SUFFICES ASSUME Init PROVE Inv
  OBVIOUS
<1>1. H + 1 \in Counts /\ 0 \in Counts
  <2>1. H * H >= 3 * H
    BY VblankAssumption
  <2> QED BY <2>1, VblankAssumption DEF Counts
<1>2. TypeOK
  <2>1. pic \in [expect : {"icw2", "icw4", "ocw1"}, base : Nat, aeoi : BOOLEAN,
                 imr : SUBSET Lines, isr : SUBSET Lines]
    <3>1. PICK e \in {"icw2", "ocw1"}, b \in {0, 16}, f \in {FALSE}, m \in {{}, Lines}, i \in {{}} :
             pic = [expect |-> e, base |-> b, aeoi |-> f, imr |-> m, isr |-> i]
      BY Zenon DEF Init
    <3>2. /\ m \in SUBSET Lines /\ i \in SUBSET Lines /\ f \in BOOLEAN /\ b \in Nat
          /\ e \in {"icw2", "icw4", "ocw1"}
      OBVIOUS
    <3> HIDE <3>1
    <3>3. [expect |-> e, base |-> b, aeoi |-> f, imr |-> m, isr |-> i]
            \in [expect : {"icw2", "icw4", "ocw1"}, base : Nat, aeoi : BOOLEAN,
                 imr : SUBSET Lines, isr : SUBSET Lines]
      BY <3>2, Zenon
    <3> QED BY <3>1, <3>3
  <2>2. ie \in BOOLEAN /\ hinted \in BOOLEAN /\ lowFirst \in BOOLEAN /\ flipped \in BOOLEAN
    BY Zenon DEF Init
  <2>3. /\ pc \in Boot /\ irr \subseteq Lines /\ age \in 0 .. FramePace
        /\ prev_vblank_tick \in 0 .. B - 1 /\ vblank_tick \in 0 .. B - 1
        /\ vblank_count \in Counts /\ frames \in Counts
    BY <1>1, VblankAssumption DEF Init, Boot
  <2>4. /\ passed \in 0 .. B - 1 /\ cost \in Nat /\ ticks \in 0 .. B - 1
        /\ frame_ticks \in 0 .. B - 1
        /\ elapsed \in Nat /\ cnt \in Nat /\ half \in Nat /\ since \in 0 .. 4
    BY VblankAssumption DEF Init
  <2> QED BY <2>1, <2>2, <2>3, <2>4, Zenon DEF TypeOK
<1>3. Control /\ Latched /\ FramesCounted /\ Measuring /\ Watching
  BY DEF Init, Control, Configured, Enabled, Cleared, Latched, FramesCounted, Measuring,
         Watching, Boot, Section
<1> QED BY <1>2, <1>3 DEF Inv

\* Every step of the program goes to a place of it, and no vector is empty.
LEMMA PlaceStep ==
  ASSUME TypeOK, Control, Next
  PROVE  (pc \in Boot \cup Waiting \cup
            {"comms", "disable", "warm1", "warm2", "first", "timed", "enable", "draw", "flip",
             "test1", "test2", "sub1", "sub2", "done"})'
<1>1. CASE Program
  BY <1>1 DEF Program, Step, Boot, Waiting, Cli, Bss, Icw1, Icw2, Icw4, Mask, Setup,
     EnableInterrupts, Comms, Disable, CallFunction, FirstReading, SecondReading, Enable, Draw,
     Cnt1, Cnt2, While1, ReadFirst, While2, Flip, Test1, Test2, Sub1, Sub2, Again
<1>2. CASE TakeInterrupt
  <2>1. PICK i \in Lines : Interrupt(i)
    BY <1>2 DEF TakeInterrupt
  <2>2. pic.base = 8
    BY <2>1 DEF Interrupt, Control, Configured, Enabled, Boot
  <2> QED BY <2>1, <2>2 DEF Interrupt, ExceptionVector, Lines, Vblank, DmaDone, Hint, TypeOK
<1>3. CASE NewFrame \/ RasterHint
  BY <1>3 DEF NewFrame, RasterHint, TypeOK
<1> QED BY <1>1, <1>2, <1>3 DEF Next

LEMMA TypeStep == TypeOK /\ Control /\ Next => TypeOK'
BY PicTypeStep, NumbersStep, ReadsStep, BooleansStep, LatchStep, CountsStep, PlaceStep DEF TypeOK

LEMMA NextInv == Inv /\ [Next]_vars => Inv'
<1>1. Inv /\ Next => Inv'
  BY TypeStep, ControlStep, LatchedStep, MeasuringStep, WatchingStep, FramesStep DEF Inv
<1>2. Inv /\ UNCHANGED vars => Inv'
  BY DEF Inv, TypeOK, Control, Configured, Enabled, Cleared, Latched, Position, FramesCounted,
     Held, Measuring, Watching, FirstHalf, vars, hw, statics, waiting, timing, locals, history
<1> QED BY <1>1, <1>2

LEMMA SpecInv == Spec => []Inv
BY InitInv, NextInv, PTL DEF Spec

\* Types; in particular the program never goes astray through an empty entry
\* of exception_vectors (init.c).
THEOREM Types == Spec => []TypeOK
<1>1. Inv => TypeOK
  BY DEF Inv
<1> QED BY <1>1, SpecInv, PTL

\* vblank_handler is run once for each vertical blank, however the tests that
\* switch interrupts off fall.
THEOREM NoFrameLost == Spec => []FramesCounted
<1>1. Inv => FramesCounted
  BY DEF Inv
<1> QED BY <1>1, SpecInv, PTL

\* run_timing_test returns the time of the instruction, without interrupts.
THEOREM TimesAlone == Spec => []MeasuredAlone
<1>1. Inv => MeasuredAlone
  BY DEF Inv, Measuring, MeasuredAlone
<1> QED BY <1>1, SpecInv, PTL

\* wait_vblank returns only after a vertical blank, although the interrupt
\* may fall between its reads of the halves of vblank_count.
THEOREM WaitsForFrame == Spec => []WaitedForFrame
<1>1. Inv => WaitedForFrame
  BY DEF Inv, TypeOK, Watching, WaitedForFrame
<1> QED BY <1>1, SpecInv, PTL

-----------------------------------------------------------------------------
(***************************************************************************)
(* Promptness and the ticks of a frame.  Both rest on the pace of frames:  *)
(* a frame is longer than what follows a vertical blank in the program, so *)
(* for as many steps as Recent says no second one comes.                   *)
(***************************************************************************)
Recent(n) == age <= n /\ Vblank \notin irr

\* wait_vblank: what is left of a first vertical blank in cnt and half, and
\* how long ago a second one was.
Prompt ==
  /\ (pc \in Waiting /\ Vblank \in irr) => age = 0
  /\ pc = "cnt1" => \/ since = 0
                    \/ since = 1 /\ Recent(0)
  /\ pc = "cnt2" => \/ half = FirstHalf /\ since = 0
                    \/ half = FirstHalf /\ since = 1 /\ Recent(1)
                    \/ since = 1 /\ Recent(0)
  /\ pc = "while1" => \/ cnt = vblank_count /\ since <= 1
                      \/ cnt # vblank_count /\ since <= 2 /\ Recent(1)
  /\ pc = "while2" => \/ half = FirstHalf /\ cnt = vblank_count /\ since <= 1
                      \/ half = FirstHalf /\ cnt # vblank_count /\ since <= 2 /\ Recent(2)
                      \/ cnt # vblank_count /\ since <= 2 /\ Recent(0)

\* main: from the end of wait_vblank to the last read of a tick, unless the
\* screen is cleared, the vertical blank is recent and the ticks stay.
Ticking ==
  ~flipped =>
    /\ pc = "flip" => Recent(3)
    /\ pc = "test1" => Recent(4)
    /\ pc = "test2" => Recent(5) /\ half = prev_vblank_tick
    /\ pc = "sub1" => Recent(6) /\ cnt \in {0, B}
    /\ pc = "sub2" => Recent(7) /\ cnt \in {0, B} /\ half = vblank_tick
    /\ pc = "done" => Recent(8) /\ frame_ticks = passed

\* The two ticks of the handler are those around the last frame; none has
\* been read before interrupts are on.
Difference ==
  /\ pc \in Boot => passed = 0
  /\ pc \in Boot \ {"cli", "bss"} => vblank_tick = 0 /\ prev_vblank_tick = 0
  /\ pc \notin Boot => passed = (vblank_tick - prev_vblank_tick) % B

\* The halves of one count give the count.
LEMMA JoinedHalves ==
  ASSUME TypeOK, half = FirstHalf
  PROVE  Joined = vblank_count
<1>1. vblank_count \in Nat
  BY VblankAssumption DEF TypeOK, Counts
<1>2. \A n \in Nat : H * (n \div H) + (n % H) = n
  BY VblankAssumption
<1>3. H * (vblank_count \div H) + (vblank_count % H) = vblank_count
  BY <1>1, <1>2
<1> QED BY <1>3 DEF Joined, FirstHalf, Low, High

\* A count is not the next one.
LEMMA CountMoves ==
  ASSUME NEW c \in Counts
  PROVE  c # (c + 1) % (H * H)
<1>1. H * H \in Nat /\ H * H >= 2
  <2>1. H * H >= 3 * H
    BY VblankAssumption
  <2> QED BY <2>1, VblankAssumption
<1>2. \A N \in Nat : N >= 2 => \A d \in 0 .. N - 1 : d # (d + 1) % N
  OBVIOUS
<1> QED BY <1>1, <1>2, Zenon DEF Counts

\* A form of the difference more or less by B is the same byte.
LEMMA SameByte ==
  ASSUME NEW t \in 0 .. B - 1, NEW p \in 0 .. B - 1, NEW c \in {0, B}
  PROVE  (t + c - p) % B = (t - p) % B
<1>1. (t + 0 - p) % B = (t - p) % B
  BY VblankAssumption
<1>2. (t + B - p) % B = (t - p) % B
  BY VblankAssumption
<1> QED BY <1>1, <1>2

\* What a vertical blank does when it is taken, and what another interrupt
\* leaves alone.
LEMMA Taken ==
  ASSUME TypeOK, Control, TakeInterrupt
  PROVE  /\ pc' = pc /\ age' = age /\ cnt' = cnt /\ half' = half
         /\ flipped' = flipped /\ frame_ticks' = frame_ticks /\ lowFirst' = lowFirst
         /\ \/ /\ Vblank \in irr /\ Vblank \notin irr'
               /\ vblank_count' = (vblank_count + 1) % (H * H)
               /\ prev_vblank_tick' = vblank_tick
               /\ passed' = (vblank_tick' - vblank_tick) % B
               /\ since' = IF since < 4 THEN since + 1 ELSE since
            \/ /\ Vblank \in irr' <=> Vblank \in irr
               /\ UNCHANGED <<statics, passed, since>>
<1>1. PICK i \in Lines : Interrupt(i)
  BY DEF TakeInterrupt
<1>2. pic.base = 8
  BY <1>1 DEF Interrupt, Control, Configured, Enabled, Boot
<1>3. UNCHANGED <<pc, age, cnt, half, flipped, frame_ticks, lowFirst>>
  BY <1>1, <1>2 DEF Interrupt, ExceptionVector, Lines, Vblank, DmaDone, Hint, waiting, locals
<1>4. CASE i = Vblank
  BY <1>1, <1>2, <1>3, <1>4 DEF Interrupt, Requested, ExceptionVector, vblank_handler, Vblank
<1>5. CASE i # Vblank
  BY <1>1, <1>2, <1>3, <1>5 DEF Interrupt, Requested, ExceptionVector, Lines, Vblank, DmaDone, Hint
<1> QED BY <1>4, <1>5

LEMMA PromptStep ==
  ASSUME TypeOK, Control, Prompt, Next
  PROVE  Prompt'
<1> USE DEF Recent
<1>1. CASE Program /\ pc' \notin Waiting
  BY <1>1 DEF Prompt, Waiting
<1>2. CASE Program /\ pc' \in Waiting
  <2>1. Draw \/ Cnt1 \/ Cnt2 \/ While1 \/ While2
    BY <1>2 DEF Program, Step, Waiting, Cli, Bss, Icw1, Icw2, Icw4, Mask, Setup,
       EnableInterrupts, Comms, Disable, CallFunction, FirstReading, SecondReading, Enable,
       Flip, Test1, Test2, Sub1, Sub2, Again
  <2>2. Vblank \notin irr /\ irr' = irr
    <3>1. ie /\ ~InterruptTaken
      BY <2>1 DEF Step, Draw, Cnt1, Cnt2, While1, ReadFirst, While2, Control, Enabled, Boot, Section
    <3> QED BY <2>1, <3>1, NoneWaits DEF Draw, Cnt1, Cnt2, While1, ReadFirst, While2, hw
  <2>3. age' <= age + 1 /\ age \in Nat /\ age' \in Nat
    BY <2>1 DEF TypeOK, Step, Draw, Cnt1, Cnt2, While1, ReadFirst, While2
  <2>4. CASE Draw
    BY <1>2, <2>2, <2>4 DEF Draw, Step, Prompt, Waiting
  <2>5. CASE Cnt1
    BY <2>2, <2>3, <2>5 DEF Cnt1, ReadFirst, Step, Prompt, Waiting, FirstHalf, hw, statics, history
  <2>6. CASE Cnt2
    BY <2>2, <2>3, <2>6, JoinedHalves DEF Cnt2, Step, Prompt, Waiting, statics, history
  <2>7. CASE While1
    BY <2>2, <2>3, <2>7 DEF While1, ReadFirst, Step, Prompt, Waiting, FirstHalf, hw, statics, history
  <2>8. CASE While2
    BY <1>2, <2>2, <2>3, <2>8, JoinedHalves DEF While2, Step, Prompt, Waiting, statics, history
  <2> QED BY <2>1, <2>4, <2>5, <2>6, <2>7, <2>8
<1>3. CASE TakeInterrupt
  BY <1>3, Taken, CountMoves DEF Prompt, TypeOK, Waiting, FirstHalf, statics
<1>4. CASE NewFrame
  BY <1>4, VblankAssumption DEF NewFrame, Prompt, TypeOK, FirstHalf, statics, waiting
<1>5. CASE RasterHint
  BY <1>5 DEF RasterHint, Prompt, FirstHalf, statics, waiting, history, Vblank, Hint
<1> QED BY <1>1, <1>2, <1>3, <1>4, <1>5 DEF Next

LEMMA DifferenceStep ==
  ASSUME TypeOK, Control, Difference, Next
  PROVE  Difference'
<1>1. CASE Cli \/ Bss \/ EnableInterrupts
  BY <1>1, VblankAssumption DEF Cli, Bss, EnableInterrupts, Step, Difference, Boot, statics, history
<1>2. CASE Program /\ ~(Cli \/ Bss \/ EnableInterrupts)
  <2>1. UNCHANGED <<statics, passed>>
    BY <1>2 DEF Program, Step, Icw1, Icw2, Icw4, Mask, OutB, Setup, Comms, Disable, CallFunction,
       FirstReading, SecondReading, Enable, Draw, Cnt1, Cnt2, While1, ReadFirst, While2, Flip,
       Test1, Test2, Sub1, Sub2, Again, history
  <2>2. pc \notin {"cli", "bss", "sti"} /\ (pc' \in Boot <=> pc \in Boot) /\ pc' \notin {"cli", "bss"}
    BY <1>2 DEF Program, Step, Icw1, Icw2, Icw4, Mask, Setup, Comms, Disable, CallFunction,
       FirstReading, SecondReading, Enable, Draw, Cnt1, Cnt2, While1, ReadFirst, While2, Flip,
       Test1, Test2, Sub1, Sub2, Again, Boot
  <2> QED BY <2>1, <2>2 DEF Difference, Boot, statics
<1>3. CASE TakeInterrupt
  <2>1. pc \notin Boot /\ pc' = pc
    BY <1>3, Taken DEF TakeInterrupt, Interrupt, Control, Enabled
  <2> QED BY <1>3, <2>1, Taken DEF Difference, statics
<1>4. CASE NewFrame \/ RasterHint
  BY <1>4 DEF NewFrame, RasterHint, Difference, statics, history
<1> QED BY <1>1, <1>2, <1>3, <1>4 DEF Next

LEMMA TickingStep ==
  ASSUME TypeOK, Control, Prompt, Difference, Ticking, Next
  PROVE  Ticking'
<1> USE DEF Recent
<1> DEFINE Reading == {"flip", "test1", "test2", "sub1", "sub2", "done"}
<1>1. CASE Program /\ pc' \notin Reading
  BY <1>1 DEF Ticking
<1>2. CASE Program /\ pc' \in Reading
  <2>1. While2 \/ Flip \/ Test1 \/ Test2 \/ Sub1 \/ Sub2
    BY <1>2 DEF Program, Step, Cli, Bss, Icw1, Icw2, Icw4, Mask, Setup,
       EnableInterrupts, Comms, Disable, CallFunction, FirstReading, SecondReading, Enable, Draw,
       Cnt1, Cnt2, While1, ReadFirst, Again
  <2>2. Vblank \notin irr /\ irr' = irr
    <3>1. ie /\ ~InterruptTaken
      BY <2>1 DEF Step, While2, Flip, Test1, Test2, Sub1, Sub2, Control, Enabled, Boot, Section
    <3> QED BY <2>1, <3>1, NoneWaits DEF While2, Flip, Test1, Test2, Sub1, Sub2, hw
  <2>3. age' <= age + 1 /\ age \in Nat /\ age' \in Nat
    BY <2>1 DEF TypeOK, Step, While2, Flip, Test1, Test2, Sub1, Sub2
  <2>4. CASE While2
    BY <1>2, <2>2, <2>3, <2>4, JoinedHalves DEF While2, Step, Prompt, Ticking
  <2>5. CASE Flip
    BY <2>2, <2>3, <2>5 DEF Flip, Step, Ticking
  <2>6. CASE Test1
    BY <2>2, <2>3, <2>6 DEF Test1, Step, Ticking, statics, locals
  <2>7. CASE Test2
    BY <2>2, <2>3, <2>7 DEF Test2, Step, Ticking, statics, locals
  <2>8. CASE Sub1
    BY <2>2, <2>3, <2>8 DEF Sub1, Step, Ticking, statics, locals
  <2>9. CASE Sub2
    <3>1. ~flipped => cnt \in {0, B} /\ half = vblank_tick
      BY <2>9 DEF Sub2, Step, Ticking
    <3>2. passed = (vblank_tick - prev_vblank_tick) % B
      BY <2>9 DEF Sub2, Step, Difference, Boot
    <3>3. ~flipped => (half + cnt - prev_vblank_tick) % B = passed
      BY <3>1, <3>2, SameByte DEF TypeOK
    <3>4. frame_ticks' = (half + cnt - prev_vblank_tick) % B /\ passed' = passed
      BY <2>9 DEF Sub2, history
    <3>5. ~flipped' => Recent(8)'
      BY <2>2, <2>3, <2>9 DEF Sub2, Step, Ticking
    <3>6. pc' = "done" /\ flipped' = flipped
      BY <2>9 DEF Sub2, Step
    <3> QED BY <3>3, <3>4, <3>5, <3>6 DEF Ticking
  <2> QED BY <2>1, <2>4, <2>5, <2>6, <2>7, <2>8, <2>9
<1>3. CASE TakeInterrupt
  <2>1. Vblank \notin irr => UNCHANGED <<statics, passed>> /\ Vblank \notin irr'
    BY <1>3, Taken
  <2>2. UNCHANGED <<pc, age, cnt, half, flipped, frame_ticks>>
    BY <1>3, Taken
  <2> QED BY <2>1, <2>2 DEF Ticking, statics
<1>4. CASE NewFrame
  BY <1>4, VblankAssumption DEF NewFrame, Ticking, TypeOK, statics, waiting, locals
<1>5. CASE RasterHint
  BY <1>5 DEF RasterHint, Ticking, statics, waiting, locals, history, Vblank, Hint
<1> QED BY <1>1, <1>2, <1>3, <1>4, <1>5 DEF Next

FrameInv == Prompt /\ Difference /\ Ticking

LEMMA SpecFrameInv == Spec => []FrameInv
<1>1. Init => FrameInv
  BY DEF Init, FrameInv, Prompt, Difference, Ticking, Waiting, Boot
<1>2. Inv /\ FrameInv /\ [Next]_vars => FrameInv'
  <2>1. Inv /\ FrameInv /\ Next => FrameInv'
    BY PromptStep, DifferenceStep, TickingStep DEF Inv, FrameInv
  <2>2. FrameInv /\ UNCHANGED vars => FrameInv'
    BY DEF FrameInv, Prompt, Difference, Ticking, Recent, FirstHalf, vars, hw, statics, waiting,
       timing, locals, history
  <2> QED BY <2>1, <2>2
<1> QED BY <1>1, <1>2, SpecInv, PTL DEF Spec

\* wait_vblank returns at the latest with the second vertical blank after it
\* is called, whatever carry between the halves of vblank_count it meets.
THEOREM WaitsPromptly == Spec => []WaitIsPrompt
<1>1. Inv /\ FrameInv => WaitIsPrompt
  <2> SUFFICES ASSUME TypeOK, Prompt, pc \in Waiting PROVE since <= 2
    BY DEF Inv, FrameInv, WaitIsPrompt
  <2> QED BY DEF Prompt, Waiting, TypeOK
<1> QED BY <1>1, SpecInv, SpecFrameInv, PTL

\* frame_ticks is the ticks of the frame just ended: the pace of frames keeps
\* the handler away from the four reads that make the difference.
THEOREM TicksAreExact == Spec => []FrameTicksExact
<1>1. FrameInv => FrameTicksExact
  BY DEF FrameInv, Ticking, FrameTicksExact
<1> QED BY <1>1, SpecFrameInv, PTL
=============================================================================
