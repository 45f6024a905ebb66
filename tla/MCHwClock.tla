----------------------------- MODULE MCHwClock ------------------------------
(* Instances of HwClock for TLC: the constants are given in the .cfg file.  *)
EXTENDS HwClock
=============================================================================
