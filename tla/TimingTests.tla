---------------------------- MODULE TimingTests -----------------------------
(***************************************************************************)
(* The table of timing tests, timing_tests.c and timing_tests_desc.h: the  *)
(* name shown, the page of the display and the ticks measured on the       *)
(* original board.  The functions are those of timing.asm, see Vblank.     *)
(***************************************************************************)
EXTENDS Sequences

TEST(desc, page, ticks) == [name |-> desc, page |-> page, hw_ticks |-> ticks]

\* timing_tests[i], from 1.
timing_tests == <<
  TEST("NOP", 0, 8), TEST("DEC AX", 0, 7), TEST("DEC AL", 0, 7),
  TEST("DEC [DI]", 0, 13), TEST("DEC [DI+4]", 0, 13), TEST("DEC [DI+256]", 0, 13),
  TEST("DEC SS:[DI+256]", 0, 13), TEST("LOCK DEC SS:[DI+256]", 0, 15),
  TEST("MOV AX, DX", 1, 7), TEST("MOV AX, [DI]", 1, 10), TEST("MOV [DI], AX", 1, 9),
  TEST("MOV AX, SS:[DI+4]", 1, 10), TEST("MOV SS:[DI+4], AX", 1, 9),
  TEST("MOV AX, [DI+4]", 1, 10), TEST("MOV [DI+4], AX", 1, 9),
  TEST("ADD [DI], AX", 2, 13), TEST("ADD SS:[DI], AX", 2, 13),
  TEST("ROR DX,  0", 3, 9), TEST("ROR DX,  1", 3, 7), TEST("ROR DX,  2", 3, 11),
  TEST("ROR DX,  3", 3, 12), TEST("ROR DX,  4", 3, 13), TEST("ROR DX,  5", 3, 14),
  TEST("ROR DX,  6", 3, 15), TEST("ROR DX,  7", 3, 16), TEST("ROR DX,  8", 3, 17),
  TEST("ROR DX,  9", 3, 18), TEST("ROR DX, 10", 3, 19), TEST("ROR DX, 11", 3, 20),
  TEST("ROR DX, 12", 3, 21), TEST("ROR DX, 13", 3, 22), TEST("ROR DX, 14", 3, 23),
  TEST("ROR DX, 15", 3, 24), TEST("ROR DX, 16", 3, 25) >>

NUM_TIMING_TESTS == Len(timing_tests)
=============================================================================
