------------------------------- MODULE MCCanRx -------------------------------
(* Instances of CanRx for TLC: the constants are given in the .cfg files.   *)
EXTENDS CanRxRefines
=============================================================================
