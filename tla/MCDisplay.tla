----------------------------- MODULE MCDisplay ------------------------------
(* Instances of Display for TLC: a small table of tests, and the real one.  *)
EXTENDS Display

RealTable == INSTANCE TimingTests

SmallTests == << [name |-> "a", page |-> 0, hw_ticks |-> 7],
                 [name |-> "b", page |-> 1, hw_ticks |-> 13],
                 [name |-> "c", page |-> 0, hw_ticks |-> 13] >>

NoForcePage == -1     \* the default of main.c

RealTests == RealTable!timing_tests
=============================================================================
