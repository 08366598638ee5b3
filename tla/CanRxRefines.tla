----------------------------- MODULE CanRxRefines -----------------------------
(***************************************************************************)
(* The receive path of CanRx implements FrameDelivery.  What the callback   *)
(* is run on is decided when the thread looks for a box, the abstract step  *)
(* is taken when the callback runs: a wakeup without a frame that has not   *)
(* got there yet is no repetition yet.                                      *)
(***************************************************************************)
EXTENDS CanRx

\* The callback that comes next is for a frame that has had one.
AgainInHand ==
    pc = "callback" /\ msg_buff \in (Elems(handled) \cup ignored)

Delivery == INSTANCE FrameDelivery WITH
    ready   <- boot = "bound",
    repeats <- stale - (IF AgainInHand THEN 1 ELSE 0)

\* Boxes, interrupts, semaphore and thread together deliver frames in order,
\* once each unless a frame was lost, and skip none silently.
ImplementsDelivery == Delivery!Spec

=============================================================================
