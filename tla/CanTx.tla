-------------------------------- MODULE CanTx --------------------------------
(***************************************************************************)
(* The transmit path of the CAN channel: can_channel_write under the       *)
(* "can tx" mutex, the driver's send boxes with their semaphore and         *)
(* completions, the three transmit mailboxes of the controller and the TX   *)
(* and error interrupts that tell a waiting writer how its frame ended.     *)
(*                                                                         *)
(* The writers are the "can" thread, which replies to commands, and the     *)
(* "btn" threads, which report button presses.  Both interrupts have the    *)
(* same priority: they do not nest, TX (IRQ 19) is served before SCE (IRQ   *)
(* 22), and threads run only when neither is pending.  The controller goes  *)
(* on while a handler runs, so a handler takes several steps.               *)
(***************************************************************************)
EXTENDS Integers, Sequences, FiniteSets

CONSTANTS Writer,           \* threads that call can_channel_write
          Prio,             \* their priorities, smaller is more urgent
          SndBoxNumber,     \* config.sndboxnumber: 1 in the build, at most 3
          None              \* no thread

ASSUME TxAssumption ==
    /\ IsFiniteSet(Writer)
    /\ Prio \in [Writer -> Nat]
    /\ SndBoxNumber \in 1..3
    /\ None \notin Writer

VARIABLES
    pc, box, ret,           \* per writer: place, box in hand, how its frame ended
    owner, waiters,         \* the "can tx" mutex and its priority-ordered queue
    sem, freelist,          \* struct rt_can_tx_fifo: counting semaphore, free boxes
    result, completed,      \* per send box: result and completion flag
    txrq, rqcp, txok,       \* per mailbox: TXRQ (TME is its negation), RQCP, TXOK
    lec, erri,              \* ESR.LEC and the pending error interrupt
    isr,                    \* the interrupt handler in progress
    outcome                 \* history: how the last frame of a mailbox ended

thrVars  == <<pc, box, ret>>
mtxVars  == <<owner, waiters>>
poolVars == <<sem, freelist>>
boxVars  == <<result, completed>>
tsrVars  == <<txrq, rqcp, txok>>
errVars  == <<lec, erri>>
vars == <<thrVars, mtxVars, poolVars, boxVars, tsrVars, errVars, isr, outcome>>

SndBox == 0..(SndBoxNumber - 1)
NoBox  == -1
Idle   == [irq |-> "none", box |-> NoBox]

\* Places of a writer; from "sem" on it holds the mutex.
Inside == {"sem", "pop", "send", "wait", "giveback", "post", "unlock"}

Init ==
    /\ pc = [t \in Writer |-> "idle"]
    /\ box = [t \in Writer |-> NoBox]
    /\ ret = [t \in Writer |-> "none"]
    /\ owner = None /\ waiters = <<>>
    /\ sem = SndBoxNumber
    /\ freelist = [i \in 1..SndBoxNumber |-> i - 1]
    /\ result = [b \in SndBox |-> "OK"]
    /\ completed = [b \in SndBox |-> FALSE]
    /\ txrq = [b \in SndBox |-> FALSE]
    /\ rqcp = [b \in SndBox |-> FALSE]
    /\ txok = [b \in SndBox |-> FALSE]
    /\ lec = "none" /\ erri = FALSE /\ isr = Idle
    /\ outcome = [b \in SndBox |-> "none"]

IrqIdle == isr = Idle /\ ~erri /\ \A b \in SndBox : ~rqcp[b]

Goto(t, place) == pc' = [pc EXCEPT ![t] = place]

(***************************************************************************)
(* can_channel_write and _can_int_tx.                                       *)
(***************************************************************************)
\* Position of t in the queue of the mutex (RT_IPC_FLAG_PRIO): behind every
\* waiter that is at least as urgent.
Ahead(t) == {i \in DOMAIN waiters : Prio[waiters[i]] <= Prio[t]}

InsertByPrio(t) ==
    LET n == Cardinality(Ahead(t)) IN
    [i \in 1..(Len(waiters) + 1) |->
        IF i <= n THEN waiters[i] ELSE IF i = n + 1 THEN t ELSE waiters[i - 1]]

TakeMutex_Unlocked(t) ==
    /\ IrqIdle /\ pc[t] = "idle"
    /\ owner' = t /\ Goto(t, "sem")
    /\ ret' = [ret EXCEPT ![t] = "none"]
    /\ UNCHANGED <<box, waiters, poolVars, boxVars, tsrVars, errVars, isr, outcome>>

TakeMutex(t) ==
    /\ IrqIdle /\ pc[t] = "idle"
    /\ IF owner = None
       THEN owner' = t /\ Goto(t, "sem") /\ UNCHANGED waiters
       ELSE waiters' = InsertByPrio(t) /\ Goto(t, "mutex") /\ UNCHANGED owner
    /\ ret' = [ret EXCEPT ![t] = "none"]
    /\ UNCHANGED <<box, poolVars, boxVars, tsrVars, errVars, isr, outcome>>

TakeSem(t) ==
    /\ IrqIdle /\ pc[t] = "sem" /\ sem > 0
    /\ sem' = sem - 1
    /\ Goto(t, "pop")
    /\ UNCHANGED <<box, ret, mtxVars, freelist, boxVars, tsrVars, errVars, isr, outcome>>

\* Take the first free box and prepare its completion.
PopBox(t) ==
    /\ IrqIdle /\ pc[t] = "pop"
    /\ LET b == Head(freelist) IN
       /\ box' = [box EXCEPT ![t] = b]
       /\ result' = [result EXCEPT ![b] = "WAIT"]
       /\ completed' = [completed EXCEPT ![b] = FALSE]
    /\ freelist' = Tail(freelist)
    /\ Goto(t, "send")
    /\ UNCHANGED <<ret, mtxVars, sem, tsrVars, errVars, isr, outcome>>

\* _can_sendmsg: refused if the mailbox still holds a frame; a request clears
\* the mailbox's RQCP and TXOK.
SendMsg(t) ==
    /\ IrqIdle /\ pc[t] = "send"
    /\ LET b == box[t] IN
       IF txrq[b]
       THEN /\ freelist' = Append(freelist, b)
            /\ ret' = [ret EXCEPT ![t] = "refused"]
            /\ Goto(t, "post")
            /\ UNCHANGED <<tsrVars, outcome>>
       ELSE /\ txrq' = [txrq EXCEPT ![b] = TRUE]
            /\ rqcp' = [rqcp EXCEPT ![b] = FALSE]
            /\ txok' = [txok EXCEPT ![b] = FALSE]
            /\ outcome' = [outcome EXCEPT ![b] = "none"]
            /\ Goto(t, "wait")
            /\ UNCHANGED <<freelist, ret>>
    /\ UNCHANGED <<box, mtxVars, sem, boxVars, errVars, isr>>

\* rt_completion_wait returns.
WaitCompletion(t) ==
    /\ IrqIdle /\ pc[t] = "wait" /\ completed[box[t]]
    /\ completed' = [completed EXCEPT ![box[t]] = FALSE]
    /\ Goto(t, "giveback")
    /\ UNCHANGED <<box, ret, mtxVars, poolVars, result, tsrVars, errVars, isr, outcome>>

GiveBack_Twice(t) ==
    /\ IrqIdle /\ pc[t] = "giveback"
    /\ freelist' = freelist \o <<box[t], box[t]>>
    /\ ret' = [ret EXCEPT ![t] = IF result[box[t]] = "OK" THEN "sent" ELSE "failed"]
    /\ Goto(t, "post")
    /\ UNCHANGED <<box, mtxVars, sem, boxVars, tsrVars, errVars, isr, outcome>>

GiveBack(t) ==
    /\ IrqIdle /\ pc[t] = "giveback"
    /\ freelist' = Append(freelist, box[t])
    /\ ret' = [ret EXCEPT ![t] = IF result[box[t]] = "OK" THEN "sent" ELSE "failed"]
    /\ Goto(t, "post")
    /\ UNCHANGED <<box, mtxVars, sem, boxVars, tsrVars, errVars, isr, outcome>>

PostSem_Twice(t) ==
    /\ IrqIdle /\ pc[t] = "post"
    /\ sem' = IF ret[t] = "sent" THEN sem + 1 ELSE sem + 2
    /\ Goto(t, "unlock")
    /\ UNCHANGED <<box, ret, mtxVars, freelist, boxVars, tsrVars, errVars, isr, outcome>>

PostSem(t) ==
    /\ IrqIdle /\ pc[t] = "post"
    /\ sem' = sem + 1
    /\ Goto(t, "unlock")
    /\ UNCHANGED <<box, ret, mtxVars, freelist, boxVars, tsrVars, errVars, isr, outcome>>

\* rt_mutex_release hands the mutex to the first waiter.
ReleaseMutex(t) ==
    /\ IrqIdle /\ pc[t] = "unlock"
    /\ box' = [box EXCEPT ![t] = NoBox]
    /\ IF waiters = <<>>
       THEN owner' = None /\ Goto(t, "idle") /\ UNCHANGED waiters
       ELSE /\ owner' = Head(waiters)
            /\ waiters' = Tail(waiters)
            /\ pc' = [pc EXCEPT ![t] = "idle", ![Head(waiters)] = "sem"]
    /\ UNCHANGED <<ret, poolVars, boxVars, tsrVars, errVars, isr, outcome>>

WriterStep(t) ==
    \/ TakeSem(t) \/ PopBox(t) \/ SendMsg(t) \/ WaitCompletion(t)
    \/ GiveBack(t) \/ PostSem(t) \/ ReleaseMutex(t)

(***************************************************************************)
(* The controller.  Automatic retransmission is off: a request ends after   *)
(* one attempt, sent, unacknowledged, or failed for another reason.         *)
(***************************************************************************)
EndRequest(b, ok) ==
    /\ txrq[b]
    /\ txrq' = [txrq EXCEPT ![b] = FALSE]
    /\ rqcp' = [rqcp EXCEPT ![b] = TRUE]
    /\ txok' = [txok EXCEPT ![b] = ok]
    /\ outcome' = [outcome EXCEPT ![b] = IF ok THEN "sent" ELSE "failed"]
    /\ UNCHANGED <<thrVars, mtxVars, poolVars, boxVars, isr>>

FrameSent(b)   == EndRequest(b, TRUE)  /\ lec' = "none" /\ UNCHANGED erri
NotAcked(b)    == EndRequest(b, FALSE) /\ lec' = "ack" /\ erri' = TRUE
FrameFailed(b) == EndRequest(b, FALSE) /\ lec' = "other" /\ erri' = TRUE
\* Lost arbitration is no error.
LostArbitration(b) == EndRequest(b, FALSE) /\ UNCHANGED errVars

\* An error on a frame of another node.
BusError ==
    /\ lec' = "other" /\ erri' = TRUE
    /\ UNCHANGED <<thrVars, mtxVars, poolVars, boxVars, tsrVars, isr, outcome>>

(***************************************************************************)
(* rt_hw_can_isr, TX_DONE and TX_FAIL: result, then rt_completion_done.     *)
(***************************************************************************)
Complete_AlwaysOk(b, r) ==
    /\ result' = [result EXCEPT ![b] = "OK"]
    /\ completed' = [completed EXCEPT ![b] = TRUE]

Complete(b, r) ==
    /\ result' = [result EXCEPT ![b] = r]
    /\ completed' = [completed EXCEPT ![b] = TRUE]

FirstRqcp == CHOOSE b \in SndBox : rqcp[b] /\ \A c \in SndBox : rqcp[c] => b <= c

\* _can_tx_isr: the lowest mailbox with RQCP set ...
TxIsr ==
    /\ isr = Idle /\ \E b \in SndBox : rqcp[b]
    /\ isr' = [irq |-> "tx", box |-> FirstRqcp]
    /\ Complete(FirstRqcp, IF txok[FirstRqcp] THEN "OK" ELSE "ERR")
    /\ UNCHANGED <<thrVars, mtxVars, poolVars, tsrVars, errVars, outcome>>

\* ... then SET_BIT(TSR, RQCPx).  TSR is read, or-ed and written back, and its
\* status bits are cleared by writing 1: every RQCP that is set is cleared.
ClearTsr ==
    /\ rqcp' = [b \in SndBox |-> FALSE]
    /\ txok' = [b \in SndBox |-> txok[b] /\ ~rqcp[b]]
    /\ UNCHANGED txrq

TxIsrEnd ==
    /\ isr.irq = "tx"
    /\ isr' = Idle
    /\ ClearTsr
    /\ UNCHANGED <<thrVars, mtxVars, poolVars, boxVars, errVars, outcome>>

\* _can_sce_isr is entered for some error, reads ESR, which may show another one
\* by then, and then TSR, which may already show the end of a request.
SceIsr ==
    /\ isr = Idle /\ erri /\ \A b \in SndBox : ~rqcp[b]
    /\ isr' = [irq |-> "sce", box |-> NoBox]
    /\ UNCHANGED <<thrVars, mtxVars, poolVars, boxVars, tsrVars, errVars, outcome>>

ReadEsr ==
    /\ isr.irq = "sce"
    /\ isr' = [irq |-> IF lec = "ack" THEN "ack" ELSE "other", box |-> NoBox]
    /\ UNCHANGED <<thrVars, mtxVars, poolVars, boxVars, tsrVars, errVars, outcome>>

SceIsrEnd_ClearOnly ==
    /\ isr.irq \in {"ack", "other"}
    /\ isr' = Idle
    /\ erri' = FALSE
    /\ IF isr.irq = "ack" /\ \E b \in SndBox : rqcp[b]
       THEN ClearTsr /\ UNCHANGED boxVars
       ELSE UNCHANGED <<boxVars, tsrVars>>
    /\ UNCHANGED <<thrVars, mtxVars, poolVars, lec, outcome>>

\* Without RQCP there is no TERR either, both end with the request: the branches
\* that abort a request (ABRQ) are never taken in this build.
SceIsrEnd ==
    /\ isr.irq \in {"ack", "other"}
    /\ isr' = Idle
    /\ erri' = FALSE
    /\ IF isr.irq = "ack" /\ \E b \in SndBox : rqcp[b]
       THEN /\ IF txok[FirstRqcp] THEN UNCHANGED boxVars ELSE Complete(FirstRqcp, "ERR")
            /\ ClearTsr
       ELSE UNCHANGED <<boxVars, tsrVars>>
    /\ UNCHANGED <<thrVars, mtxVars, poolVars, lec, outcome>>

Isr == TxIsr \/ TxIsrEnd \/ SceIsr \/ ReadEsr \/ SceIsrEnd
EndOf(b) == FrameSent(b) \/ NotAcked(b) \/ FrameFailed(b) \/ LostArbitration(b)

Next ==
    \/ \E t \in Writer : TakeMutex(t) \/ WriterStep(t)
    \/ \E b \in SndBox : EndOf(b)
    \/ BusError
    \/ Isr

Spec == Init /\ [][Next]_vars

(***************************************************************************)
(* Fairness: pending interrupts are served; a request ends, because the bus *)
(* keeps carrying frames; and a writer that can step again and again does   *)
(* (interrupts disable it for microseconds, frames take milliseconds).      *)
(***************************************************************************)
FairSpec ==
    /\ Spec
    /\ WF_vars(Isr)
    /\ \A b \in SndBox : WF_vars(EndOf(b))
    /\ \A t \in Writer : SF_vars(WriterStep(t))
-----------------------------------------------------------------------------
\* Every variable of the transmit path has a value of its C type.
TypeOK ==
    /\ pc \in [Writer -> {"idle", "mutex"} \cup Inside]
    /\ box \in [Writer -> SndBox \cup {NoBox}]
    /\ ret \in [Writer -> {"none", "sent", "failed", "refused"}]
    /\ owner \in Writer \cup {None} /\ waiters \in Seq(Writer)
    /\ sem \in 0..SndBoxNumber /\ freelist \in Seq(SndBox)
    /\ result \in [SndBox -> {"OK", "ERR", "WAIT"}]
    /\ completed \in [SndBox -> BOOLEAN]
    /\ txrq \in [SndBox -> BOOLEAN]
    /\ rqcp \in [SndBox -> BOOLEAN]
    /\ txok \in [SndBox -> BOOLEAN]
    /\ lec \in {"none", "ack", "other"} /\ erri \in BOOLEAN
    /\ isr \in [irq : {"none", "tx", "sce", "ack", "other"}, box : SndBox \cup {NoBox}]
    /\ outcome \in [SndBox -> {"none", "sent", "failed"}]

\* No completion is lost: a writer that waits for its frame has it either in
\* the mailbox, or ended and still flagged in RQCP, or completed.  The
\* read-modify-write of TSR clears the flags of all mailboxes, so this stands
\* or falls with at most one frame being under way.
NoLostCompletion ==
    \A t \in Writer : pc[t] = "wait" =>
        completed[box[t]] \/ txrq[box[t]] \/ rqcp[box[t]]

\* Send boxes are neither lost nor duplicated by any path through
\* _can_int_tx: when no write is in progress all are free again, and whoever
\* pops one finds one.  The RT_ASSERT after rt_list_entry cannot notice an
\* empty list, whose head would be used as a box.
BoxesReturn ==
    /\ owner = None => /\ sem = SndBoxNumber
                       /\ {freelist[i] : i \in DOMAIN freelist} = SndBox
                       /\ Len(freelist) = SndBoxNumber
    /\ \A t \in Writer : pc[t] = "pop" => freelist # <<>>

\* Every write returns, although it waits for the mutex, the semaphore and
\* the completion without a timeout.
WritesReturn == \A t \in Writer : pc[t] # "idle" ~> pc[t] = "idle"

=============================================================================
