----------------------------- MODULE CanTxRefines -----------------------------
(***************************************************************************)
(* The transmit path of CanTx implements SerialChannel.  While a frame is   *)
(* in its mailbox it is being sent; from then on the fate of the write is   *)
(* what the controller made of it, until the writer has noted a result,     *)
(* which then counts.                                                       *)
(***************************************************************************)
EXTENDS CanTx

Write(t) ==
    CASE pc[t] = "idle"                            -> "idle"
      [] pc[t] \in {"mutex", "sem", "pop", "send"} -> "asked"
      [] pc[t] = "wait" /\ txrq[box[t]]            -> "sending"
      [] pc[t] = "wait" /\ ~txrq[box[t]]           -> outcome[box[t]]
      [] pc[t] = "giveback"                        -> outcome[box[t]]
      [] OTHER                                     -> ret[t]

Channel == INSTANCE SerialChannel WITH
    Writer <- Writer,
    write  <- [t \in Writer |-> Write(t)]

\* Mutex, send boxes, mailboxes and interrupts together send one frame at a
\* time and tell each writer what became of its own.
ImplementsChannel == Channel!Spec

=============================================================================
