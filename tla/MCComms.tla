------------------------------ MODULE MCComms -------------------------------
(* Instances of Comms for TLC: the constants are given in the .cfg files.   *)
EXTENDS Comms
=============================================================================
