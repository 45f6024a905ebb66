------------------------------ MODULE HwClock -------------------------------
(***************************************************************************)
(* The hardware clock: the two PIO programs of hwclock/counter.pio, set up *)
(* by hwclock/main.cpp.  Both state machines execute one instruction per   *)
(* cycle of the Pico, in lockstep (Cycle).  The clock of the board and the *)
(* output enable of its read strobe change between any two of these        *)
(* cycles, but keep each level for a while (external).                     *)
(***************************************************************************)
EXTENDS Integers

CONSTANTS
  W,             \* number of values on the 16 data pins
  MinLow,        \* least number of Pico cycles that the clock is low,
  MinHigh,       \* that it is high,
  MinOe,         \* and that the output enable keeps a level
  DriveTime,     \* Pico cycles the pins may take to be driven,
  ReleaseTime    \* and to be released

ASSUME HwClockAssumption ==
  /\ W \in Nat \ {0, 1}
  /\ MinLow \in Nat /\ MinLow >= 2
  /\ MinHigh \in Nat /\ MinHigh >= 3
  /\ MinOe \in Nat /\ MinOe >= 4
  /\ DriveTime \in Nat /\ DriveTime >= 3
  /\ ReleaseTime \in Nat /\ ReleaseTime >= 4

VARIABLES
  clk, clkFor,       \* GPIO_CLK and the cycles it has had this level
  oe, oeFor,         \* GPIO_OE (active low), likewise
  pc0, osr0,         \* state machine 0: oe_check
  pindirs, led,
  pc1, osr1, y,      \* state machine 1: counter; y modulo W, no more is shown
  pins,
  count              \* history: cycles of the clock begun, modulo W

clock   == <<clk, clkFor>>
enable  == <<oe, oeFor>>
sm0     == <<pc0, osr0, pindirs, led>>
sm1     == <<pc1, osr1, y, pins>>
vars    == <<clock, enable, sm0, sm1, count>>

Data == 0 .. W - 1
Negated(n) == W - n         \* mutant of Not: two's complement
Not(n) == W - 1 - n         \* ~n

\* main.cpp: the in base of each state machine; both inputs have a pull-up.
OePin    == oe
ClockPinSwapped == oe       \* mutant: set_in_pins with the other pin
ClockPin == clk

\* main.cpp enables the state machines; Y is whatever it was.  Cycles of the
\* clock and reads are considered that begin after the first two instructions
\* of each: the first number is on the pins, which are released.
Init ==
  /\ clk = 1 /\ clkFor \in 0 .. MinHigh - 2
  /\ oe = 1 /\ oeFor \in 0 .. MinOe - 2
  /\ pc0 = "release" /\ osr0 = 0 /\ pindirs = 0 /\ led = 0
  /\ pc1 = "mov" /\ osr1 = 0 /\ y \in Data /\ pins = 0
  /\ count = Not(y)

-----------------------------------------------------------------------------
(***************************************************************************)
(* One instruction of counter.                                             *)
(***************************************************************************)
Mov1 ==
  /\ pc1 = "mov" /\ pc1' = "out"
  /\ osr1' = Not(y)
  /\ UNCHANGED <<y, pins>>

Out1 ==
  /\ pc1 = "out" /\ pc1' = "wait0"
  /\ pins' = osr1
  /\ UNCHANGED <<osr1, y>>

WaitLow ==
  /\ pc1 = "wait0"
  /\ pc1' = IF ClockPin = 0 THEN "jmp" ELSE "wait0"
  /\ UNCHANGED <<osr1, y, pins>>

\* jmp Y-- to the next instruction: only the decrement counts, taken or not.
Decrement ==
  /\ pc1 = "jmp" /\ pc1' = "wait1"
  /\ y' = (y - 1) % W
  /\ UNCHANGED <<osr1, pins>>

WaitHighMissing ==           \* mutant: the second wait forgotten
  /\ pc1 = "wait1" /\ pc1' = "mov"
  /\ UNCHANGED <<osr1, y, pins>>

WaitHigh ==
  /\ pc1 = "wait1"
  /\ pc1' = IF ClockPin = 1 THEN "mov" ELSE "wait1"
  /\ UNCHANGED <<osr1, y, pins>>

counter == Mov1 \/ Out1 \/ WaitLow \/ Decrement \/ WaitHigh

(***************************************************************************)
(* One instruction of oe_check.                                            *)
(***************************************************************************)
Release ==                   \* mov OSR, NULL
  /\ pc0 = "release" /\ pc0' = "outIn"
  /\ osr0' = 0
  /\ UNCHANGED <<pindirs, led>>

OutIn ==                     \* out PINDIRS, 16
  /\ pc0 = "outIn" /\ pc0' = "waitLow"
  /\ pindirs' = osr0
  /\ UNCHANGED <<osr0, led>>

WaitEnabled ==               \* wait 0 PIN 0
  /\ pc0 = "waitLow"
  /\ pc0' = IF OePin = 0 THEN "drive" ELSE "waitLow"
  /\ UNCHANGED <<osr0, pindirs, led>>

Drive ==                     \* mov OSR, ~NULL
  /\ pc0 = "drive" /\ pc0' = "outOut"
  /\ osr0' = 1
  /\ UNCHANGED <<pindirs, led>>

OutOut ==                    \* out PINDIRS, 16
  /\ pc0 = "outOut" /\ pc0' = "ledOn"
  /\ pindirs' = osr0
  /\ UNCHANGED <<osr0, led>>

LedOnAfterWait ==            \* mutant: wait for the end of the read first
  /\ pc0 = "ledOn" /\ pc0' = IF OePin = 1 THEN "waitHigh" ELSE "ledOn"
  /\ led' = 1
  /\ UNCHANGED <<osr0, pindirs>>

LedOn ==                     \* set PINS, 1
  /\ pc0 = "ledOn" /\ pc0' = "waitHigh"
  /\ led' = 1
  /\ UNCHANGED <<osr0, pindirs>>

WaitDisabledMissing ==       \* mutant: the second wait forgotten
  /\ pc0 = "waitHigh" /\ pc0' = "ledOff"
  /\ UNCHANGED <<osr0, pindirs, led>>

WaitDisabled ==              \* wait 1 PIN 0
  /\ pc0 = "waitHigh"
  /\ pc0' = IF OePin = 1 THEN "ledOff" ELSE "waitHigh"
  /\ UNCHANGED <<osr0, pindirs, led>>

LedOff ==                    \* set PINS, 0
  /\ pc0 = "ledOff" /\ pc0' = "release"
  /\ led' = 0
  /\ UNCHANGED <<osr0, pindirs>>

oe_check ==
  \/ Release \/ OutIn \/ WaitEnabled \/ Drive \/ OutOut
  \/ LedOn \/ WaitDisabled \/ LedOff

-----------------------------------------------------------------------------
\* Durations are counted up to the longest that matters.
Longest == MinLow + MinHigh + MinOe + DriveTime + ReleaseTime
Longer(t) == IF t < Longest THEN t + 1 ELSE t

Cycle ==
  /\ counter /\ oe_check
  /\ clkFor' = Longer(clkFor) /\ oeFor' = Longer(oeFor)
  /\ UNCHANGED <<clk, oe, count>>

ClockFalls ==
  /\ clk = 1 /\ clkFor >= MinHigh
  /\ clk' = 0 /\ clkFor' = 0
  /\ count' = (count + 1) % W
  /\ UNCHANGED <<enable, sm0, sm1>>

ClockRises ==
  /\ clk = 0 /\ clkFor >= MinLow
  /\ clk' = 1 /\ clkFor' = 0
  /\ UNCHANGED <<enable, sm0, sm1, count>>

ReadStrobe ==
  /\ oeFor >= MinOe
  /\ oe' = 1 - oe /\ oeFor' = 0
  /\ UNCHANGED <<clock, sm0, sm1, count>>

Next == Cycle \/ ClockFalls \/ ClockRises \/ ReadStrobe

Spec == Init /\ [][Next]_vars

\* The Pico runs on its own crystal; the board may stop.
FairSpec == Spec /\ WF_vars(Cycle)

-----------------------------------------------------------------------------
(***************************************************************************)
(* Properties                                                              *)
(***************************************************************************)
PC0 == {"release", "outIn", "waitLow", "drive", "outOut", "ledOn", "waitHigh", "ledOff"}
PC1 == {"mov", "out", "wait0", "jmp", "wait1"}

TypeOK ==
  /\ clk \in {0, 1} /\ oe \in {0, 1}
  /\ clkFor \in Nat /\ oeFor \in Nat
  /\ pc0 \in PC0 /\ osr0 \in {0, 1} /\ pindirs \in {0, 1} /\ led \in {0, 1}
  /\ pc1 \in PC1 /\ osr1 \in Data /\ y \in Data /\ pins \in Data
  /\ count \in Data

\* counter.pio: each cycle of the clock is counted once, neither missed nor
\* counted twice, and is on the pins before the next one begins.
Counter == INSTANCE ClockCounter WITH shown <- pins
CounterSpec == Counter!Spec

\* The pins are given up soon after the read: the board's bus is not driven
\* from two sides.
ReleasedInTime == pindirs = 1 /\ oe = 1 => oeFor < ReleaseTime

\* They are driven soon after it begins, and stay driven until it ends: the
\* CPU reads the counter, never a floating bus.
DrivenInTime == oe = 0 /\ oeFor >= DriveTime => pindirs = 1

\* A clock that stops leaves its last count on the pins.
LastCountShown == <>[](clk = 1) => <>[](pins = count)

(***************************************************************************)
(* Why the programs keep up (the inductive invariant of HwClockProofs): how *)
(* far each has come since its input last changed.                         *)
(***************************************************************************)
Following ==
  /\ pc1 = "mov"   => clk = 1 /\ clkFor <= MinHigh - 2 /\ count = Not(y)
  /\ pc1 = "out"   => clk = 1 /\ clkFor <= MinHigh - 1 /\ count = Not(y) /\ osr1 = count
  /\ pc1 = "wait0" =>
       \/ clk = 1 /\ count = Not(y) /\ pins = count
       \/ clk = 0 /\ clkFor = 0 /\ count = (Not(y) + 1) % W
  /\ pc1 = "jmp"   => clk = 0 /\ clkFor = 1 /\ count = (Not(y) + 1) % W
  /\ pc1 = "wait1" => count = Not(y) /\ (clk = 1 => clkFor = 0)

Serving ==
  /\ pc0 = "release"  => oe = 1 /\ oeFor <= MinOe - 2 /\ (pindirs = 1 => oeFor = 2)
  /\ pc0 = "outIn"    => oe = 1 /\ oeFor <= MinOe - 1 /\ osr0 = 0 /\ (pindirs = 1 => oeFor = 3)
  /\ pc0 = "waitLow"  => pindirs = 0 /\ (oe = 0 => oeFor = 0)
  /\ pc0 = "drive"    => oe = 0 /\ oeFor = 1
  /\ pc0 = "outOut"   => oe = 0 /\ oeFor = 2 /\ osr0 = 1
  /\ pc0 = "ledOn"    => pindirs = 1 /\ oe = 0 /\ oeFor = 3
  /\ pc0 = "waitHigh" => pindirs = 1 /\ (oe = 1 => oeFor = 0)
  /\ pc0 = "ledOff"   => pindirs = 1 /\ oe = 1 /\ oeFor = 1

\* Neither program is ever more than its own instructions behind its input.
InStep == Following /\ Serving
=============================================================================
