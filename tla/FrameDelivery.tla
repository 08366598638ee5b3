----------------------------- MODULE FrameDelivery -----------------------------
(***************************************************************************)
(* What the receive path promises to main: frames come one after the other  *)
(* to the callback, in the order of their arrival.  A frame may be lost     *)
(* while it waits, and for each lost frame the callback may once be run     *)
(* again on the latest frame.  Until the callback is bound, the frames      *)
(* whose turn it is are thrown away.                                        *)
(***************************************************************************)
EXTENDS Integers, Sequences, FiniteSets

VARIABLES ready,                    \* the callback is bound
          arrived,                  \* frames that have arrived: 1..arrived
          handled, ignored, lost,   \* what became of them
          repeats                   \* how often a frame was delivered again

vars == <<ready, arrived, handled, ignored, lost, repeats>>

Consumed == {handled[i] : i \in DOMAIN handled} \cup ignored
Waiting  == (1..arrived) \ (Consumed \cup lost)

Init ==
    /\ ready = FALSE /\ arrived = 0
    /\ handled = <<>> /\ ignored = {} /\ lost = {} /\ repeats = 0

Bind ==
    /\ ~ready /\ ready' = TRUE
    /\ UNCHANGED <<arrived, handled, ignored, lost, repeats>>

\* A frame arrives; it may push out one that waits.
Arrive ==
    /\ arrived' = arrived + 1
    /\ lost' = lost \/ \E f \in Waiting : lost' = lost \cup {f}
    /\ UNCHANGED <<ready, handled, ignored, repeats>>

Lose ==
    /\ \E f \in Waiting : lost' = lost \cup {f}
    /\ UNCHANGED <<ready, arrived, handled, ignored, repeats>>

Deliver(f) ==
    IF ready THEN handled' = Append(handled, f) /\ UNCHANGED ignored
    ELSE ignored' = ignored \cup {f} /\ UNCHANGED handled

\* The oldest frame that waits is delivered.
Handle ==
    /\ \E f \in Waiting : (\A g \in Waiting : f <= g) /\ Deliver(f)
    /\ UNCHANGED <<ready, arrived, lost, repeats>>

\* The latest frame is delivered again, which a lost frame pays for.
Repeat ==
    /\ repeats < Cardinality(lost)
    /\ repeats' = repeats + 1
    /\ \E f \in Consumed : (\A g \in Consumed : g <= f) /\ Deliver(f)
    /\ UNCHANGED <<ready, arrived, lost>>

Next == Bind \/ Arrive \/ Lose \/ Handle \/ Repeat

Spec == Init /\ [][Next]_vars
=============================================================================
