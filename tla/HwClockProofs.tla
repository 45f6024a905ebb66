---------------------------- MODULE HwClockProofs ----------------------------
(***************************************************************************)
(* The two programs of the hardware clock keep up with their inputs, for   *)
(* every width of the counter and all durations that HwClockAssumption     *)
(* allows.  InStep, with the types, is inductive: it fixes how long each   *)
(* input has had its level at each instruction, which is why no cycle of   *)
(* the clock can begin before the last one has been shown.                 *)
(***************************************************************************)
EXTENDS HwClock, TLAPS

Inv == TypeOK /\ InStep

LEMMA InitInv == Init => Inv
BY HwClockAssumption
   DEF Init, Inv, TypeOK, InStep, Following, Serving, Data, Not, PC0, PC1

\* A duration that matters is counted exactly.
LEMMA LongerShort ==
  ASSUME NEW t \in Nat
  PROVE  /\ Longer(t) \in Nat
         /\ t <= MinHigh \/ t <= MinOe \/ t <= 3 => Longer(t) = t + 1
BY HwClockAssumption DEF Longer, Longest

\* The counter is one behind the cycles begun until it has decremented Y.
LEMMA DecrementCounts ==
  ASSUME NEW n \in Data
  PROVE  /\ Not(n) \in Data
         /\ (n - 1) % W \in Data
         /\ (n + 1) % W \in Data
         /\ Not((n - 1) % W) = (Not(n) + 1) % W
<1>1. Not(n) \in Data
  BY HwClockAssumption DEF Data, Not
<1>2. CASE n = 0
  <2>1. (n - 1) % W = W - 1
    BY <1>2, HwClockAssumption DEF Data
  <2>2. (Not(n) + 1) % W = 0
    BY <1>2, HwClockAssumption DEF Data, Not
  <2>3. (n + 1) % W \in Data
    BY HwClockAssumption DEF Data
  <2> QED BY <1>1, <2>1, <2>2, <2>3, HwClockAssumption DEF Data, Not
<1>3. CASE n > 0
  <2>1. (n - 1) % W = n - 1
    BY <1>3, HwClockAssumption DEF Data
  <2>2. (Not(n) + 1) % W = Not(n) + 1
    BY <1>3, HwClockAssumption DEF Data, Not
  <2>3. (n + 1) % W \in Data
    BY HwClockAssumption DEF Data
  <2> QED BY <1>1, <1>3, <2>1, <2>2, <2>3, HwClockAssumption DEF Data, Not
<1> QED BY <1>2, <1>3, HwClockAssumption DEF Data

LEMMA CounterStep ==
  ASSUME Inv, counter, clkFor' = Longer(clkFor), UNCHANGED <<clk, count>>
  PROVE  /\ pc1' \in PC1 /\ osr1' \in Data /\ y' \in Data /\ pins' \in Data
         /\ Following'
<1> USE HwClockAssumption DEF Inv, TypeOK, InStep
<1>0. clkFor' \in Nat /\ (clkFor <= MinHigh \/ clkFor <= 3 => clkFor' = clkFor + 1)
  BY LongerShort
<1>1. CASE Mov1
  BY <1>0, <1>1, DecrementCounts DEF Mov1, Following, PC1
<1>2. CASE Out1
  BY <1>0, <1>2 DEF Out1, Following, PC1
<1>3. CASE WaitLow
  BY <1>0, <1>3 DEF WaitLow, Following, PC1, ClockPin
<1>4. CASE Decrement
  BY <1>0, <1>4, DecrementCounts DEF Decrement, Following, PC1
<1>5. CASE WaitHigh
  BY <1>0, <1>5 DEF WaitHigh, Following, PC1, ClockPin
<1> QED BY <1>1, <1>2, <1>3, <1>4, <1>5 DEF counter

LEMMA OeCheckStep ==
  ASSUME Inv, oe_check, oeFor' = Longer(oeFor), UNCHANGED oe
  PROVE  /\ pc0' \in PC0 /\ osr0' \in {0, 1} /\ pindirs' \in {0, 1} /\ led' \in {0, 1}
         /\ Serving'
<1> USE HwClockAssumption DEF Inv, TypeOK, InStep
<1>0. oeFor' \in Nat /\ (oeFor <= MinOe \/ oeFor <= 3 => oeFor' = oeFor + 1)
  BY LongerShort
<1>1. CASE Release
  BY <1>0, <1>1 DEF Release, Serving, PC0
<1>2. CASE OutIn
  BY <1>0, <1>2 DEF OutIn, Serving, PC0
<1>3. CASE WaitEnabled
  BY <1>0, <1>3 DEF WaitEnabled, Serving, PC0, OePin
<1>4. CASE Drive
  BY <1>0, <1>4 DEF Drive, Serving, PC0
<1>5. CASE OutOut
  BY <1>0, <1>5 DEF OutOut, Serving, PC0
<1>6. CASE LedOn
  BY <1>0, <1>6 DEF LedOn, Serving, PC0
<1>7. CASE WaitDisabled
  BY <1>0, <1>7 DEF WaitDisabled, Serving, PC0, OePin
<1>8. CASE LedOff
  BY <1>0, <1>8 DEF LedOff, Serving, PC0
<1> QED BY <1>1, <1>2, <1>3, <1>4, <1>5, <1>6, <1>7, <1>8 DEF oe_check

LEMMA NextInv == Inv /\ [Next]_vars => Inv'
<1> SUFFICES ASSUME Inv, [Next]_vars PROVE Inv'
  OBVIOUS
<1> USE HwClockAssumption
<1>1. CASE Cycle
  <2>1. clkFor' \in Nat /\ oeFor' \in Nat
    BY <1>1, LongerShort DEF Cycle, Inv, TypeOK
  <2> QED BY <1>1, <2>1, CounterStep, OeCheckStep DEF Cycle, Inv, TypeOK, InStep
<1>2. CASE ClockFalls
  <2>1. (count + 1) % W \in Data
    BY DecrementCounts DEF Inv, TypeOK
  <2>2. TypeOK'
    BY <1>2, <2>1 DEF ClockFalls, enable, sm0, sm1, Inv, TypeOK
  <2>3. Serving'
    BY <1>2 DEF ClockFalls, enable, sm0, Inv, InStep, Serving
  <2>4. Following'
    BY <1>2 DEF ClockFalls, sm1, Inv, TypeOK, InStep, Following, PC1
  <2> QED BY <2>2, <2>3, <2>4 DEF Inv, InStep
<1>3. CASE ClockRises
  <2>1. TypeOK'
    BY <1>3 DEF ClockRises, enable, sm0, sm1, Inv, TypeOK
  <2>2. Serving'
    BY <1>3 DEF ClockRises, enable, sm0, Inv, InStep, Serving
  <2>3. Following'
    BY <1>3 DEF ClockRises, sm1, Inv, TypeOK, InStep, Following, PC1
  <2> QED BY <2>1, <2>2, <2>3 DEF Inv, InStep
<1>4. CASE ReadStrobe
  <2>1. TypeOK'
    BY <1>4 DEF ReadStrobe, clock, sm0, sm1, Inv, TypeOK
  <2>2. Serving'
    BY <1>4 DEF ReadStrobe, sm0, Inv, TypeOK, InStep, Serving, PC0
  <2>3. Following'
    BY <1>4 DEF ReadStrobe, clock, sm1, Inv, InStep, Following
  <2> QED BY <2>1, <2>2, <2>3 DEF Inv, InStep
<1>5. CASE UNCHANGED vars
  BY <1>5 DEF vars, clock, enable, sm0, sm1, Inv, TypeOK, InStep, Following, Serving
<1> QED BY <1>1, <1>2, <1>3, <1>4, <1>5 DEF Next

\* Both programs are in step with their inputs, and every variable has its
\* type, in every reachable state (hwclock/counter.pio).
THEOREM SpecInv == Spec => [](TypeOK /\ InStep)
<1>1. Spec => []Inv
  BY InitInv, NextInv, PTL DEF Spec
<1> QED BY <1>1, PTL DEF Inv

\* hwclock/main.cpp and counter.pio: every register of both state machines, the
\* pins and the counter keep their types.
THEOREM TypesKept == Spec => []TypeOK
BY SpecInv, PTL

\* counter.pio oe_check: the board's bus is given up within ReleaseTime
\* cycles of the end of a read ...
THEOREM Released == Spec => []ReleasedInTime
<1>1. TypeOK /\ InStep => ReleasedInTime
  BY HwClockAssumption DEF TypeOK, InStep, Serving, ReleasedInTime, PC0
<1> QED BY <1>1, SpecInv, PTL

\* ... and driven from DriveTime cycles after its start until its end.
THEOREM Driven == Spec => []DrivenInTime
<1>1. TypeOK /\ InStep => DrivenInTime
  BY HwClockAssumption DEF TypeOK, InStep, Serving, DrivenInTime, PC0
<1> QED BY <1>1, SpecInv, PTL

\* counter.pio counter: the numbers on the pins are those of a counter of
\* the clock's cycles that neither misses one nor counts one twice.
THEOREM CountsEveryCycle == Spec => CounterSpec
<1>1. Init => Counter!Init
  BY HwClockAssumption DEF Init, Counter!Init, Data, Not
<1>2. Inv /\ [Next]_vars => [Counter!Next]_Counter!vars
  <2> SUFFICES ASSUME Inv, [Next]_vars PROVE [Counter!Next]_Counter!vars
    OBVIOUS
  <2>1. CASE Cycle
    <3>1. CASE Out1
      BY <2>1, <3>1 DEF Cycle, Out1, Inv, InStep, Following, Counter!Next, Counter!Show
    <3>2. CASE ~Out1
      BY <2>1, <3>2 DEF Cycle, counter, Mov1, WaitLow, Decrement, WaitHigh, Counter!vars
    <3> QED BY <3>1, <3>2
  <2>2. CASE ClockFalls
    <3>1. pins = count
      BY <2>2, HwClockAssumption
      DEF ClockFalls, Inv, TypeOK, InStep, Following, PC1
    <3> QED BY <2>2, <3>1 DEF ClockFalls, sm1, Counter!Next, Counter!Fall
  <2>3. CASE ClockRises
    BY <2>3 DEF ClockRises, sm1, Counter!Next, Counter!Rise
  <2>4. CASE ReadStrobe
    BY <2>4 DEF ReadStrobe, clock, sm1, Counter!vars
  <2>5. CASE UNCHANGED vars
    BY <2>5 DEF vars, clock, sm1, Counter!vars
  <2> QED BY <2>1, <2>2, <2>3, <2>4, <2>5 DEF Next
<1>3. Spec => []Inv
  BY InitInv, NextInv, PTL DEF Spec
<1> QED BY <1>1, <1>2, <1>3, PTL DEF Spec, CounterSpec, Counter!Spec
=============================================================================
