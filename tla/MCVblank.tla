------------------------------ MODULE MCVblank ------------------------------
(* Instances of Vblank for TLC: the constants are given in the .cfg files.  *)
EXTENDS Vblank
=============================================================================
