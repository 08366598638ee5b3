----------------------------- MODULE MCFlexButton -----------------------------
(* Instance of FlexButton for TLC: the constants are given in the .cfg file. *)
EXTENDS FlexButton
=============================================================================
