----------------------------- MODULE MCRedelivery -----------------------------
(* Instance of Redelivery for TLC: the constants are given in the .cfg file. *)
EXTENDS Redelivery
=============================================================================
