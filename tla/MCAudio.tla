------------------------------ MODULE MCAudio -------------------------------
(* Instances of Audio for TLC: the constants are given in the .cfg files.   *)
EXTENDS Audio
=============================================================================
