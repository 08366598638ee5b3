------------------------------- MODULE MCButton -------------------------------
(* Instance of Button for TLC: the constants are given in the .cfg file.     *)
EXTENDS Button
=============================================================================
