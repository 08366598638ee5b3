------------------------------- MODULE MCCanTx -------------------------------
(* Instances of CanTx for TLC: the "can" thread and two "btn" threads.       *)
EXTENDS CanTxRefines
CONSTANTS can, btn1, btn2

MCPrio == [t \in Writer |-> IF t = can THEN 5 ELSE 6]
=============================================================================
