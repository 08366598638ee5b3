----------------------------- MODULE SerialChannel -----------------------------
(***************************************************************************)
(* What the transmit path promises to its writers: frames go out one at a   *)
(* time, and each write returns with the fate of its own frame.             *)
(***************************************************************************)
CONSTANT Writer

VARIABLE write      \* per writer: "idle", "asked", "sending", "sent", "failed"

Init == write = [t \in Writer |-> "idle"]

Ask(t) ==
    /\ write[t] = "idle"
    /\ write' = [write EXCEPT ![t] = "asked"]

\* A frame goes out when no other is under way.
Start(t) ==
    /\ write[t] = "asked"
    /\ \A u \in Writer : write[u] # "sending"
    /\ write' = [write EXCEPT ![t] = "sending"]

End(t) ==
    /\ write[t] = "sending"
    /\ \E fate \in {"sent", "failed"} : write' = [write EXCEPT ![t] = fate]

Return(t) ==
    /\ write[t] \in {"sent", "failed"}
    /\ write' = [write EXCEPT ![t] = "idle"]

Next == \E t \in Writer : Ask(t) \/ Start(t) \/ End(t) \/ Return(t)

Spec == Init /\ [][Next]_write
=============================================================================
