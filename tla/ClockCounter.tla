---------------------------- MODULE ClockCounter ----------------------------
(***************************************************************************)
(* What the timing tests of src/timing.asm expect at the address 0xb0000:  *)
(* a number that counts the cycles of the CPU clock.  A cycle begins when  *)
(* the clock falls; it is shown before the next one begins, so that the    *)
(* difference of two readings is the number of cycles between them.        *)
(* HwClock implements this specification.                                  *)
(***************************************************************************)
EXTENDS Integers

CONSTANT W   \* number of values on the data pins (2^16)

VARIABLES
  clk,       \* the clock signal
  count,     \* cycles begun, modulo W
  shown      \* the number on the data pins

vars == <<clk, count, shown>>

Init == clk = 1 /\ count \in 0 .. W - 1 /\ shown \in 0 .. W - 1

Fall ==
  /\ clk = 1 /\ shown = count
  /\ clk' = 0
  /\ count' = (count + 1) % W
  /\ UNCHANGED shown

Rise == clk = 0 /\ clk' = 1 /\ UNCHANGED <<count, shown>>

Show == shown' = count /\ UNCHANGED <<clk, count>>

Next == Fall \/ Rise \/ Show

Spec == Init /\ [][Next]_vars
=============================================================================
