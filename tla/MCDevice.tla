------------------------------- MODULE MCDevice -------------------------------
(* Instances of Device for TLC: the constants are given in the .cfg files.   *)
EXTENDS Device
=============================================================================
