----------------------------- MODULE CanTxProofs -----------------------------
(***************************************************************************)
(* Proofs about CanTx for any number of writers, any priorities and one to  *)
(* three send boxes.  The properties rest on the mutex: one writer at a     *)
(* time is inside, so at most one mailbox is in use, and what an interrupt  *)
(* clears in TSR is the flag of that one.                                   *)
(***************************************************************************)
EXTENDS CanTxRefines, ListLemmas, FiniteSetTheorems

\* The mutex: its owner is the one writer inside.
MutualExclusion == \A t \in Writer : pc[t] \in Inside <=> owner = t

\* The queue of the mutex holds writers that wait for it, each once.
QueueWaits ==
    /\ \A i \in DOMAIN waiters : pc[waiters[i]] = "mutex"
    /\ \A i, j \in DOMAIN waiters : waiters[i] = waiters[j] => i = j

\* Places with a box in hand, and with a count of the semaphore taken.
HasBox   == {"send", "wait", "giveback"}
HasCount == {"pop", "post"} \cup HasBox

Free == {freelist[i] : i \in DOMAIN freelist}

\* The box in hand is the one that is missing from the list, if any is.
BoxesCounted ==
    /\ \A i, j \in DOMAIN freelist : freelist[i] = freelist[j] => i = j
    /\ \A t \in Writer : pc[t] \in HasBox =>
          /\ box[t] \in SndBox
          /\ Free = SndBox \ {box[t]} /\ Len(freelist) = SndBoxNumber - 1
    /\ (\A t \in Writer : pc[t] \notin HasBox) =>
          Free = SndBox /\ Len(freelist) = SndBoxNumber
    /\ \A t \in Writer : pc[t] \in HasCount => sem = SndBoxNumber - 1
    /\ (\A t \in Writer : pc[t] \notin HasCount) => sem = SndBoxNumber

\* Only the mailbox of the writer that waits is in use, and it does not hold
\* a request and the end of one at the same time.
OneMailbox ==
    \A b \in SndBox :
        /\ txrq[b] \/ rqcp[b] => \E t \in Writer : pc[t] = "wait" /\ box[t] = b
        /\ ~(txrq[b] /\ rqcp[b])
        /\ txrq[b] => ~completed[b]

\* The interrupt in progress has completed the box whose flag it will clear, and
\* an acknowledgement error is never read together with a success, nor before
\* one: while it is the last error, and pending or read, no request stands.
IsrSound ==
    /\ isr.irq = "tx" => isr.box \in SndBox /\ rqcp[isr.box] /\ completed[isr.box]
    /\ lec = "ack" => \A b \in SndBox : ~(rqcp[b] /\ txok[b])
    /\ erri /\ lec = "ack" => \A b \in SndBox : ~txrq[b]
    /\ isr.irq = "sce" => erri
    /\ isr.irq = "ack" => \A b \in SndBox : ~txrq[b] /\ ~(rqcp[b] /\ txok[b])

\* What the flags, the completion and the writer say of the end of a frame is
\* what the controller made of it.
Ended(b) == outcome[b] # "none"
OutcomeTold ==
    /\ \A b \in SndBox : rqcp[b] => Ended(b) /\ (txok[b] <=> outcome[b] = "sent")
    /\ \A t \in Writer :
          /\ pc[t] = "send" => ~completed[box[t]]
          /\ pc[t] = "giveback" \/ (pc[t] = "wait" /\ completed[box[t]]) =>
                Ended(box[t]) /\ (result[box[t]] = "OK" <=> outcome[box[t]] = "sent")
          /\ pc[t] \in {"post", "unlock"} => ret[t] \in {"sent", "failed"}

TxInv ==
    /\ TypeOK /\ MutualExclusion /\ QueueWaits /\ BoxesCounted
    /\ OneMailbox /\ IsrSound /\ OutcomeTold /\ NoLostCompletion

-----------------------------------------------------------------------------
(***************************************************************************)
(* The queue of the mutex.                                                  *)
(***************************************************************************)
\* A writer that is queued is put somewhere between those that wait already.
LEMMA InsertPlace ==
    ASSUME TypeOK, NEW t \in Writer
    PROVE  /\ InsertByPrio(t) \in Seq(Writer)
           /\ Len(waiters) \in Nat /\ DOMAIN waiters = 1..Len(waiters)
           /\ \E n \in 0..Len(waiters) :
                InsertByPrio(t) = [i \in 1..(Len(waiters) + 1) |->
                    IF i <= n THEN waiters[i] ELSE IF i = n + 1 THEN t ELSE waiters[i - 1]]
<1> DEFINE n == Cardinality(Ahead(t))
           L == Len(waiters)
           q == [i \in 1..(L + 1) |->
                    IF i <= n THEN waiters[i] ELSE IF i = n + 1 THEN t ELSE waiters[i - 1]]
<1>1. L \in Nat /\ DOMAIN waiters = 1..L /\ waiters \in [1..L -> Writer]
  BY LenProperties DEF TypeOK
<1>2. Ahead(t) \subseteq 1..L
  BY <1>1 DEF Ahead
<1>3. IsFiniteSet(1..L) /\ Cardinality(1..L) = L
  BY <1>1, FS_Interval
<1>4. n \in 0..L
  <2>1. IsFiniteSet(Ahead(t)) /\ n <= L
    BY <1>2, <1>3, FS_Subset
  <2>2. n \in Nat
    BY <2>1, FS_CardinalityType
  <2> QED BY <1>1, <2>1, <2>2
<1> HIDE DEF n, L
<1>5. \A i \in 1..(L + 1) :
        (IF i <= n THEN waiters[i] ELSE IF i = n + 1 THEN t ELSE waiters[i - 1]) \in Writer
  BY <1>1, <1>4
<1>6. q \in Seq(Writer)
  <2>1. L + 1 \in Nat
    BY <1>1
  <2> QED BY <1>5, <2>1, IsASeq
<1>7. InsertByPrio(t) = q
  BY DEF InsertByPrio, n, L
<1> QED BY <1>1, <1>4, <1>6, <1>7 DEF L

-----------------------------------------------------------------------------
(***************************************************************************)
(* The initial state, and facts about one writer inside.                    *)
(***************************************************************************)
LEMMA TxInit == Init => TxInv
<1> SUFFICES ASSUME Init PROVE TxInv
  OBVIOUS
<1>1. SndBoxNumber \in Nat /\ SndBoxNumber >= 1 /\ None \notin Writer
  BY TxAssumption
<1>2. freelist = [i \in 1..SndBoxNumber |-> i - 1]
  BY DEF Init
<1>3. \A i \in 1..SndBoxNumber : i - 1 \in SndBox
  BY <1>1 DEF SndBox
<1>4. \A b \in SndBox : b + 1 \in 1..SndBoxNumber /\ (b + 1) - 1 = b
  BY <1>1 DEF SndBox
<1>5. freelist \in Seq(SndBox)
  BY <1>1, <1>2, <1>3, IsASeq
<1>6. Len(freelist) = SndBoxNumber /\ DOMAIN freelist = 1..SndBoxNumber
  BY <1>1, <1>2
<1>7. Free = SndBox
  BY <1>2, <1>3, <1>4, <1>6 DEF Free
<1>8. TypeOK
  <2>1. waiters \in Seq(Writer) /\ sem \in 0..SndBoxNumber
    BY <1>1, EmptySeq DEF Init
  <2> QED BY <1>5, <2>1 DEF Init, TypeOK, Inside, Idle
<1>9. BoxesCounted
  <2>1. \A i, j \in DOMAIN freelist : freelist[i] = freelist[j] => i = j
    BY <1>1, <1>2, <1>6
  <2>2. sem = SndBoxNumber /\ \A t \in Writer : pc[t] = "idle"
    BY DEF Init
  <2> QED BY <1>6, <1>7, <2>1, <2>2 DEF BoxesCounted, HasBox, HasCount
<1>10. MutualExclusion /\ QueueWaits
  BY <1>1 DEF Init, MutualExclusion, QueueWaits, Inside
<1>11. OneMailbox /\ IsrSound /\ OutcomeTold /\ NoLostCompletion
  BY DEF Init, OneMailbox, IsrSound, OutcomeTold, NoLostCompletion, Idle
<1> QED BY <1>8, <1>9, <1>10, <1>11 DEF TxInv

\* Two writers are never inside together.
LEMMA OneInside ==
    ASSUME TxInv, NEW t \in Writer, NEW u \in Writer, pc[t] \in Inside, pc[u] \in Inside
    PROVE  t = u
BY DEF TxInv, MutualExclusion

\* A mailbox in use is that of the writer t that waits, and no other is in use.
LEMMA MailboxOfWaiter ==
    ASSUME TxInv, NEW b \in SndBox, txrq[b] \/ rqcp[b]
    PROVE  /\ \E t \in Writer : pc[t] = "wait" /\ box[t] = b
           /\ \A c \in SndBox : txrq[c] \/ rqcp[c] => c = b
<1>1. PICK t \in Writer : pc[t] = "wait" /\ box[t] = b
  BY DEF TxInv, OneMailbox
<1>2. ASSUME NEW c \in SndBox, txrq[c] \/ rqcp[c] PROVE c = b
  <2>1. PICK u \in Writer : pc[u] = "wait" /\ box[u] = c
    BY <1>2 DEF TxInv, OneMailbox
  <2>2. t = u
    BY <1>1, <2>1, OneInside DEF Inside
  <2> QED BY <1>1, <2>1, <2>2
<1> QED BY <1>1, <1>2

\* The interrupt handlers pick the one mailbox that has ended.
LEMMA FirstIsOnly ==
    ASSUME TxInv, NEW b \in SndBox, rqcp[b]
    PROVE  FirstRqcp = b
<1>1. \A c \in SndBox : rqcp[c] => c = b
  BY MailboxOfWaiter
<1>2. b \in Int
  BY TxAssumption DEF SndBox
<1>3. rqcp[b] /\ \A c \in SndBox : rqcp[c] => b <= c
  BY <1>1, <1>2
<1>4. FirstRqcp \in SndBox /\ rqcp[FirstRqcp]
  BY <1>3 DEF FirstRqcp
<1> QED BY <1>1, <1>4

-----------------------------------------------------------------------------
(***************************************************************************)
(* can_channel_write and _can_int_tx keep the invariant.                    *)
(***************************************************************************)
\* rt_mutex_take: the mutex, or a place in its queue.
LEMMA TakeMutexStep ==
    ASSUME TxInv, NEW t \in Writer, TakeMutex(t)
    PROVE  TxInv'
<1> USE DEF TakeMutex, Goto
<1>1. pc[t] = "idle" /\ owner # t /\ pc' = [pc EXCEPT ![t] = pc'[t]]
      /\ pc'[t] \in {"sem", "mutex"}
  BY DEF TxInv, TypeOK, MutualExclusion, Inside
<1>2. UNCHANGED <<box, poolVars, boxVars, tsrVars, errVars, isr, outcome>>
  OBVIOUS
<1>3. pc'[t] = "sem" => owner = None /\ owner' = t /\ waiters' = waiters
  BY DEF TxInv, TypeOK
<1>4. pc'[t] = "mutex" => owner' = owner /\ waiters' = InsertByPrio(t)
  BY DEF TxInv, TypeOK
<1>5. TypeOK'
  <2>1. waiters' \in Seq(Writer)
    BY <1>1, <1>3, <1>4, InsertPlace DEF TxInv, TypeOK
  <2>2. owner' \in Writer \cup {None}
    BY <1>1, <1>3, <1>4 DEF TxInv, TypeOK
  <2>3. pc' \in [Writer -> {"idle", "mutex"} \cup Inside]
    BY <1>1 DEF TxInv, TypeOK, Inside
  <2>4. ret' \in [Writer -> {"none", "sent", "failed", "refused"}]
    BY DEF TxInv, TypeOK
  <2> QED BY <1>2, <2>1, <2>2, <2>3, <2>4
          DEF TxInv, TypeOK, poolVars, boxVars, tsrVars, errVars
<1>6. MutualExclusion'
  BY <1>1, <1>3, <1>4, TxAssumption DEF TxInv, TypeOK, MutualExclusion, Inside
<1>7. QueueWaits'
  <2>1. CASE pc'[t] = "sem"
    <3>1. \A i \in DOMAIN waiters : waiters[i] \in Writer /\ waiters[i] # t
      BY <1>1, LenProperties DEF TxInv, TypeOK, QueueWaits
    <3> QED BY <1>1, <1>3, <2>1, <3>1 DEF TxInv, TypeOK, QueueWaits
  <2>2. CASE pc'[t] = "mutex"
    <3> DEFINE L == Len(waiters)
    <3>1. L \in Nat /\ DOMAIN waiters = 1..L
      BY InsertPlace DEF TxInv
    <3>2. PICK n \in 0..L : waiters' = [i \in 1..(L + 1) |->
              IF i <= n THEN waiters[i] ELSE IF i = n + 1 THEN t ELSE waiters[i - 1]]
      BY <1>4, <2>2, InsertPlace DEF TxInv
    <3>3. /\ \A i \in 1..L : waiters[i] \in Writer /\ pc[waiters[i]] = "mutex" /\ waiters[i] # t
          /\ \A i, j \in 1..L : waiters[i] = waiters[j] => i = j
      BY <1>1, <3>1, ElementOfSeq DEF TxInv, TypeOK, QueueWaits
    <3> HIDE DEF L
    <3>4. DOMAIN waiters' = 1..(L + 1)
      BY <3>2
    <3>5. \A i \in 1..(L + 1) : \/ i = n + 1 /\ waiters'[i] = t
                                \/ i <= n /\ i \in 1..L /\ waiters'[i] = waiters[i]
                                \/ i > n + 1 /\ i - 1 \in 1..L /\ waiters'[i] = waiters[i - 1]
      BY <3>1, <3>2
    <3>6. \A i, j \in 1..(L + 1) : waiters'[i] = waiters'[j] => i = j
      BY <3>1, <3>3, <3>5
    <3>7. \A i \in 1..(L + 1) : pc'[waiters'[i]] = "mutex"
      BY <1>1, <2>2, <3>3, <3>5 DEF TxInv, TypeOK
    <3> QED BY <3>4, <3>6, <3>7 DEF QueueWaits
  <2> QED BY <1>1, <2>1, <2>2
<1>8. BoxesCounted'
  BY <1>1, <1>2 DEF TxInv, TypeOK, BoxesCounted, Free, HasBox, HasCount, poolVars
<1>9. OneMailbox' /\ IsrSound' /\ NoLostCompletion'
  BY <1>1, <1>2 DEF TxInv, TypeOK, OneMailbox, IsrSound, NoLostCompletion, boxVars, tsrVars, errVars
<1>10. OutcomeTold'
  BY <1>1, <1>2 DEF TxInv, TypeOK, OutcomeTold, Ended, boxVars, tsrVars
<1> QED BY <1>5, <1>6, <1>7, <1>8, <1>9, <1>10 DEF TxInv

\* A writer that goes on inside keeps the mutex, and the queue is not touched.
LEMMA InsideStep ==
    ASSUME TxInv, NEW t \in Writer, NEW to, pc[t] \in Inside, to \in Inside,
           pc' = [pc EXCEPT ![t] = to], UNCHANGED mtxVars
    PROVE  /\ MutualExclusion' /\ QueueWaits'
           /\ pc' \in [Writer -> {"idle", "mutex"} \cup Inside]
           /\ \A u \in Writer : u # t => pc[u] \notin Inside /\ pc'[u] = pc[u]
<1>1. \A u \in Writer : u # t => pc[u] \notin Inside /\ pc'[u] = pc[u]
  BY OneInside DEF TxInv, TypeOK
<1>2. \A i \in DOMAIN waiters : waiters[i] \in Writer /\ waiters[i] # t
  <2>1. \A i \in DOMAIN waiters : waiters[i] \in Writer
    BY LenProperties DEF TxInv, TypeOK
  <2> QED BY <2>1 DEF TxInv, QueueWaits, Inside
<1>3. MutualExclusion'
  BY <1>1 DEF TxInv, TypeOK, MutualExclusion, mtxVars
<1>4. QueueWaits'
  BY <1>1, <1>2 DEF TxInv, QueueWaits, mtxVars
<1>5. pc' \in [Writer -> {"idle", "mutex"} \cup Inside]
  BY DEF TxInv, TypeOK
<1> QED BY <1>1, <1>3, <1>4, <1>5

\* rt_sem_take of the send boxes.
LEMMA TakeSemStep ==
    ASSUME TxInv, NEW t \in Writer, TakeSem(t)
    PROVE  TxInv'
<1> USE DEF TakeSem, Goto
<1>1. pc[t] = "sem" /\ pc' = [pc EXCEPT ![t] = "pop"] /\ sem' = sem - 1
      /\ UNCHANGED <<box, ret, mtxVars, freelist, boxVars, tsrVars, errVars, isr, outcome>>
  OBVIOUS
<1>2. /\ MutualExclusion' /\ QueueWaits' /\ pc' \in [Writer -> {"idle", "mutex"} \cup Inside]
      /\ \A u \in Writer : u # t => pc[u] \notin Inside /\ pc'[u] = pc[u]
  BY <1>1, InsideStep DEF Inside
<1>3. pc'[t] = "pop"
  BY <1>1 DEF TxInv, TypeOK
<1>4. sem = SndBoxNumber /\ SndBoxNumber \in 1..3
  BY <1>1, <1>2, TxAssumption DEF TxInv, BoxesCounted, HasCount, HasBox, Inside
<1>5. TypeOK'
  <2>1. sem' \in 0..SndBoxNumber
    BY <1>1, <1>4
  <2> QED BY <1>1, <1>2, <2>1 DEF TxInv, TypeOK, mtxVars, boxVars, tsrVars, errVars
<1>6. BoxesCounted'
  BY <1>1, <1>2, <1>3, <1>4 DEF TxInv, BoxesCounted, Free, HasBox, HasCount, Inside
<1>7. OneMailbox' /\ IsrSound' /\ NoLostCompletion' /\ OutcomeTold'
  BY <1>1, <1>2, <1>3
  DEF TxInv, OneMailbox, IsrSound, NoLostCompletion, OutcomeTold, Ended, boxVars, tsrVars, errVars
<1> QED BY <1>2, <1>5, <1>6, <1>7 DEF TxInv

\* The list is not empty where a box is popped.
LEMMA PopFindsBox ==
    ASSUME TxInv, NEW t \in Writer, pc[t] = "pop"
    PROVE  freelist # <<>> /\ Free = SndBox /\ Len(freelist) = SndBoxNumber
<1>1. \A u \in Writer : pc[u] \notin HasBox
  BY OneInside DEF Inside, HasBox
<1>2. Free = SndBox /\ Len(freelist) = SndBoxNumber
  BY <1>1 DEF TxInv, BoxesCounted
<1> QED BY <1>2, TxAssumption

\* The first free box is taken and its completion prepared.
LEMMA PopBoxStep ==
    ASSUME TxInv, NEW t \in Writer, PopBox(t)
    PROVE  TxInv'
<1> USE DEF PopBox, Goto
<1> DEFINE b == Head(freelist)
<1>1. /\ pc[t] = "pop" /\ pc' = [pc EXCEPT ![t] = "send"] /\ IrqIdle
      /\ box' = [box EXCEPT ![t] = b] /\ freelist' = Tail(freelist)
      /\ result' = [result EXCEPT ![b] = "WAIT"] /\ completed' = [completed EXCEPT ![b] = FALSE]
      /\ UNCHANGED <<ret, mtxVars, sem, tsrVars, errVars, isr, outcome>>
  OBVIOUS
<1>2. /\ MutualExclusion' /\ QueueWaits' /\ pc' \in [Writer -> {"idle", "mutex"} \cup Inside]
      /\ \A u \in Writer : u # t => pc[u] \notin Inside /\ pc'[u] = pc[u]
  BY <1>1, InsideStep DEF Inside
<1>3. freelist # <<>> /\ Free = SndBox /\ Len(freelist) = SndBoxNumber
  BY <1>1, PopFindsBox
<1>4. /\ b \in SndBox /\ freelist' \in Seq(SndBox) /\ Len(freelist') = SndBoxNumber - 1
      /\ Free' = SndBox \ {b}
      /\ \A i, j \in DOMAIN freelist' : freelist'[i] = freelist'[j] => i = j
  <2>1. /\ freelist \in Seq(SndBox)
        /\ \A i, j \in DOMAIN freelist : freelist[i] = freelist[j] => i = j
    BY DEF TxInv, TypeOK, BoxesCounted
  <2>2. /\ b \in SndBox /\ Tail(freelist) \in Seq(SndBox)
        /\ Len(Tail(freelist)) = Len(freelist) - 1
        /\ {Tail(freelist)[i] : i \in DOMAIN Tail(freelist)} = Free \ {b}
        /\ \A i, j \in DOMAIN Tail(freelist) :
              Tail(freelist)[i] = Tail(freelist)[j] => i = j
    BY <1>3, <2>1, PopDistinct DEF Free
  <2>3. Free' = {Tail(freelist)[i] : i \in DOMAIN Tail(freelist)}
    BY <1>1 DEF Free
  <2> HIDE DEF b
  <2> QED BY <1>1, <1>3, <2>2, <2>3
<1> HIDE DEF b
<1>5. pc'[t] = "send" /\ box'[t] = b
  BY <1>1 DEF TxInv, TypeOK
<1>6. TypeOK'
  <2>1. /\ box' \in [Writer -> SndBox \cup {NoBox}]
        /\ result' \in [SndBox -> {"OK", "ERR", "WAIT"}]
        /\ completed' \in [SndBox -> BOOLEAN]
    BY <1>1, <1>4 DEF TxInv, TypeOK
  <2> QED BY <1>1, <1>2, <1>4, <2>1 DEF TxInv, TypeOK, mtxVars, tsrVars, errVars
<1>7. BoxesCounted'
  BY <1>1, <1>2, <1>4, <1>5 DEF TxInv, BoxesCounted, HasBox, HasCount, Inside
<1>8. \A c \in SndBox : ~txrq[c] /\ ~rqcp[c]
  <2>1. \A u \in Writer : pc[u] # "wait"
    BY <1>1, <1>2 DEF Inside
  <2> QED BY <2>1 DEF TxInv, OneMailbox
<1>9. OneMailbox' /\ IsrSound'
  BY <1>1, <1>8 DEF TxInv, TypeOK, OneMailbox, IsrSound, IrqIdle, Idle, tsrVars, errVars
<1>10. NoLostCompletion'
  BY <1>2, <1>5 DEF NoLostCompletion, Inside
<1>11. OutcomeTold'
  <2>1. ~completed'[b]
    BY <1>1, <1>4 DEF TxInv, TypeOK
  <2>2. \A u \in Writer : u # t => pc'[u] \notin Inside
    BY <1>2
  <2> QED BY <1>1, <1>5, <1>8, <2>1, <2>2 DEF OutcomeTold, Inside, tsrVars
<1> QED BY <1>2, <1>6, <1>7, <1>9, <1>10, <1>11 DEF TxInv

\* No mailbox is in use while nobody waits.
LEMMA NobodyWaits ==
    ASSUME TxInv, NEW t \in Writer, pc[t] \in Inside, pc[t] # "wait"
    PROVE  \A c \in SndBox : ~txrq[c] /\ ~rqcp[c]
<1>1. \A u \in Writer : pc[u] # "wait"
  BY OneInside DEF Inside
<1> QED BY <1>1 DEF TxInv, OneMailbox

\* _can_sendmsg: the mailbox is empty, so the request is always accepted.
LEMMA SendMsgStep ==
    ASSUME TxInv, NEW t \in Writer, SendMsg(t)
    PROVE  TxInv' /\ ~txrq[box[t]] /\ box[t] \in SndBox
<1> USE DEF SendMsg, Goto
<1> DEFINE b == box[t]
<1>1. b \in SndBox /\ pc[t] = "send" /\ IrqIdle
  BY DEF TxInv, BoxesCounted, HasBox
<1>2. \A c \in SndBox : ~txrq[c] /\ ~rqcp[c]
  BY <1>1, NobodyWaits DEF Inside
<1>3. /\ pc' = [pc EXCEPT ![t] = "wait"]
      /\ txrq' = [txrq EXCEPT ![b] = TRUE] /\ rqcp' = [rqcp EXCEPT ![b] = FALSE]
      /\ txok' = [txok EXCEPT ![b] = FALSE] /\ outcome' = [outcome EXCEPT ![b] = "none"]
      /\ UNCHANGED <<box, mtxVars, sem, boxVars, errVars, isr, freelist, ret>>
  BY <1>1, <1>2
<1>4. /\ MutualExclusion' /\ QueueWaits' /\ pc' \in [Writer -> {"idle", "mutex"} \cup Inside]
      /\ \A u \in Writer : u # t => pc[u] \notin Inside /\ pc'[u] = pc[u]
  BY <1>1, <1>3, InsideStep DEF Inside
<1>5. pc'[t] = "wait" /\ box'[t] = b /\ txrq'[b] /\ ~rqcp'[b] /\ ~completed'[b]
  BY <1>1, <1>3 DEF TxInv, TypeOK, OutcomeTold, boxVars
<1>6. \A c \in SndBox : ~rqcp'[c] /\ (c # b => ~txrq'[c])
  BY <1>1, <1>2, <1>3 DEF TxInv, TypeOK
<1> HIDE DEF b
<1>7. TypeOK'
  <2>1. /\ txrq' \in [SndBox -> BOOLEAN] /\ rqcp' \in [SndBox -> BOOLEAN]
        /\ txok' \in [SndBox -> BOOLEAN] /\ outcome' \in [SndBox -> {"none", "sent", "failed"}]
    BY <1>1, <1>3 DEF TxInv, TypeOK
  <2> QED BY <1>3, <1>4, <2>1 DEF TxInv, TypeOK, mtxVars, boxVars, errVars
<1>8. BoxesCounted'
  BY <1>1, <1>3, <1>4, <1>5 DEF TxInv, BoxesCounted, HasBox, HasCount, Inside, Free, b
<1>9. OneMailbox' /\ NoLostCompletion'
  <2>1. \A u \in Writer : u # t => pc'[u] # "wait"
    BY <1>4 DEF Inside
  <2> QED BY <1>1, <1>5, <1>6, <2>1 DEF OneMailbox, NoLostCompletion
<1>10. IsrSound'
  BY <1>1, <1>3, <1>6 DEF IsrSound, IrqIdle, Idle, errVars
<1>11. OutcomeTold'
  <2>1. \A u \in Writer : u # t => pc'[u] \notin Inside
    BY <1>4
  <2> QED BY <1>5, <1>6, <2>1 DEF OutcomeTold, Inside
<1> QED BY <1>1, <1>2, <1>4, <1>7, <1>8, <1>9, <1>10, <1>11 DEF TxInv, b

\* rt_completion_wait returns.
LEMMA WaitCompletionStep ==
    ASSUME TxInv, NEW t \in Writer, WaitCompletion(t)
    PROVE  TxInv' /\ ~txrq[box[t]]
<1> USE DEF WaitCompletion, Goto
<1> DEFINE b == box[t]
<1>1. b \in SndBox /\ pc[t] = "wait" /\ IrqIdle /\ completed[b]
  BY DEF TxInv, BoxesCounted, HasBox
<1>2. /\ pc' = [pc EXCEPT ![t] = "giveback"] /\ completed' = [completed EXCEPT ![b] = FALSE]
      /\ UNCHANGED <<box, ret, mtxVars, poolVars, result, tsrVars, errVars, isr, outcome>>
  OBVIOUS
<1>3. /\ MutualExclusion' /\ QueueWaits' /\ pc' \in [Writer -> {"idle", "mutex"} \cup Inside]
      /\ \A u \in Writer : u # t => pc[u] \notin Inside /\ pc'[u] = pc[u]
  BY <1>1, <1>2, InsideStep DEF Inside
<1>4. pc'[t] = "giveback" /\ box'[t] = b
  BY <1>2 DEF TxInv, TypeOK
<1>5. \A c \in SndBox : ~txrq[c] /\ ~rqcp[c]
  <2>1. \A c \in SndBox : ~rqcp[c]
    BY <1>1 DEF IrqIdle
  <2>2. ~txrq[b]
    BY <1>1 DEF TxInv, OneMailbox
  <2>3. ASSUME NEW c \in SndBox, txrq[c] PROVE c = b
    <3>1. PICK u \in Writer : pc[u] = "wait" /\ box[u] = c
      BY <2>3 DEF TxInv, OneMailbox
    <3> QED BY <1>1, <3>1, OneInside DEF Inside
  <2> QED BY <2>1, <2>2, <2>3
<1>6. Ended(b) /\ (result[b] = "OK" <=> outcome[b] = "sent")
  BY <1>1 DEF TxInv, OutcomeTold
<1> HIDE DEF b
<1>7. TypeOK'
  <2>1. completed' \in [SndBox -> BOOLEAN]
    BY <1>1, <1>2 DEF TxInv, TypeOK
  <2> QED BY <1>2, <1>3, <2>1 DEF TxInv, TypeOK, mtxVars, poolVars, tsrVars, errVars
<1>8. BoxesCounted'
  BY <1>1, <1>2, <1>3, <1>4
  DEF TxInv, BoxesCounted, HasBox, HasCount, Inside, Free, poolVars, b
<1>9. OneMailbox' /\ IsrSound'
  BY <1>1, <1>2, <1>5 DEF OneMailbox, IsrSound, IrqIdle, Idle, tsrVars, errVars
<1>10. NoLostCompletion' /\ OutcomeTold'
  <2>1. \A u \in Writer : u # t => pc'[u] \notin Inside
    BY <1>3
  <2> QED BY <1>2, <1>4, <1>5, <1>6, <2>1
          DEF NoLostCompletion, OutcomeTold, Inside, Ended, tsrVars
<1> QED BY <1>1, <1>3, <1>5, <1>7, <1>8, <1>9, <1>10 DEF TxInv, b

\* The box goes back to the list, and the result of the write is noted.
LEMMA GiveBackStep ==
    ASSUME TxInv, NEW t \in Writer, GiveBack(t)
    PROVE  TxInv' /\ ret'[t] = outcome[box[t]]
<1> USE DEF GiveBack, Goto
<1> DEFINE b == box[t]
           r == IF result[box[t]] = "OK" THEN "sent" ELSE "failed"
<1>1. /\ b \in SndBox /\ pc[t] = "giveback" /\ IrqIdle
      /\ Free = SndBox \ {b} /\ Len(freelist) = SndBoxNumber - 1
  BY DEF TxInv, BoxesCounted, HasBox
<1>2. /\ pc' = [pc EXCEPT ![t] = "post"] /\ freelist' = Append(freelist, b)
      /\ ret' = [ret EXCEPT ![t] = r]
      /\ UNCHANGED <<box, mtxVars, sem, boxVars, tsrVars, errVars, isr, outcome>>
  OBVIOUS
<1>3. /\ MutualExclusion' /\ QueueWaits' /\ pc' \in [Writer -> {"idle", "mutex"} \cup Inside]
      /\ \A u \in Writer : u # t => pc[u] \notin Inside /\ pc'[u] = pc[u]
  BY <1>1, <1>2, InsideStep DEF Inside
<1>4. pc'[t] = "post" /\ ret'[t] = r
  BY <1>2 DEF TxInv, TypeOK
<1>5. r \in {"sent", "failed"} /\ r = outcome[b]
  BY <1>1 DEF TxInv, TypeOK, OutcomeTold, Ended
<1>6. \A c \in SndBox : ~txrq[c] /\ ~rqcp[c]
  BY <1>1, NobodyWaits DEF Inside
<1>7. /\ freelist' \in Seq(SndBox) /\ Len(freelist') = SndBoxNumber /\ Free' = SndBox
      /\ \A i, j \in DOMAIN freelist' : freelist'[i] = freelist'[j] => i = j
  <2>1. /\ freelist \in Seq(SndBox) /\ b \notin {freelist[i] : i \in DOMAIN freelist}
        /\ \A i, j \in DOMAIN freelist : freelist[i] = freelist[j] => i = j
    BY <1>1 DEF TxInv, TypeOK, BoxesCounted, Free
  <2>2. LET a == Append(freelist, b) IN
        /\ {a[i] : i \in DOMAIN a} = Free \cup {b}
        /\ \A i, j \in DOMAIN a : a[i] = a[j] => i = j
        /\ a \in Seq(SndBox) /\ Len(a) = Len(freelist) + 1
    BY <1>1, <2>1, PushDistinct DEF Free
  <2>3. (SndBox \ {b}) \cup {b} = SndBox /\ (SndBoxNumber - 1) + 1 = SndBoxNumber
    BY <1>1, TxAssumption
  <2> QED BY <1>1, <1>2, <2>2, <2>3 DEF Free
<1> HIDE DEF b, r
<1>8. TypeOK'
  <2>1. ret' \in [Writer -> {"none", "sent", "failed", "refused"}]
    BY <1>2, <1>5 DEF TxInv, TypeOK
  <2> QED BY <1>2, <1>3, <1>7, <2>1 DEF TxInv, TypeOK, mtxVars, boxVars, tsrVars, errVars
<1>9. BoxesCounted'
  BY <1>1, <1>2, <1>3, <1>4, <1>7 DEF TxInv, BoxesCounted, HasBox, HasCount, Inside
<1>10. OneMailbox' /\ IsrSound'
  BY <1>1, <1>2, <1>6 DEF OneMailbox, IsrSound, IrqIdle, Idle, tsrVars, errVars
<1>11. NoLostCompletion' /\ OutcomeTold'
  <2>1. \A u \in Writer : u # t => pc'[u] \notin Inside
    BY <1>3
  <2> QED BY <1>2, <1>4, <1>5, <1>6, <2>1
          DEF NoLostCompletion, OutcomeTold, Inside, tsrVars
<1> QED BY <1>3, <1>4, <1>5, <1>8, <1>9, <1>10, <1>11 DEF TxInv, b

\* rt_sem_release of the send boxes.
LEMMA PostSemStep ==
    ASSUME TxInv, NEW t \in Writer, PostSem(t)
    PROVE  TxInv'
<1> USE DEF PostSem, Goto
<1>1. /\ pc[t] = "post" /\ pc' = [pc EXCEPT ![t] = "unlock"] /\ sem' = sem + 1 /\ IrqIdle
      /\ UNCHANGED <<box, ret, mtxVars, freelist, boxVars, tsrVars, errVars, isr, outcome>>
  OBVIOUS
<1>2. /\ MutualExclusion' /\ QueueWaits' /\ pc' \in [Writer -> {"idle", "mutex"} \cup Inside]
      /\ \A u \in Writer : u # t => pc[u] \notin Inside /\ pc'[u] = pc[u]
  BY <1>1, InsideStep DEF Inside
<1>3. pc'[t] = "unlock"
  BY <1>1 DEF TxInv, TypeOK
<1>4. sem = SndBoxNumber - 1 /\ SndBoxNumber \in 1..3
  BY <1>1, TxAssumption DEF TxInv, BoxesCounted, HasCount
<1>5. sem' = SndBoxNumber /\ sem' \in 0..SndBoxNumber
  BY <1>1, <1>4
<1>6. TypeOK'
  BY <1>1, <1>2, <1>5 DEF TxInv, TypeOK, mtxVars, boxVars, tsrVars, errVars
<1>7. BoxesCounted'
  BY <1>1, <1>2, <1>3, <1>5 DEF TxInv, BoxesCounted, Free, HasBox, HasCount, Inside
<1>8. OneMailbox' /\ IsrSound' /\ NoLostCompletion' /\ OutcomeTold'
  BY <1>1, <1>2, <1>3
  DEF TxInv, OneMailbox, IsrSound, NoLostCompletion, OutcomeTold, Ended, boxVars, tsrVars, errVars
<1> QED BY <1>2, <1>6, <1>7, <1>8 DEF TxInv

\* rt_mutex_release: the first waiter, if any, is inside now.
LEMMA ReleaseMutexStep ==
    ASSUME TxInv, NEW t \in Writer, ReleaseMutex(t)
    PROVE  /\ TxInv'
           /\ pc'[t] = "idle"
           /\ \A u \in Writer : u # t => \/ pc'[u] = pc[u]
                                         \/ pc[u] = "mutex" /\ pc'[u] = "sem"
<1> USE DEF ReleaseMutex, Goto
<1>1. /\ pc[t] = "unlock" /\ owner = t /\ IrqIdle /\ box' = [box EXCEPT ![t] = NoBox]
      /\ UNCHANGED <<ret, poolVars, boxVars, tsrVars, errVars, isr, outcome>>
  BY DEF TxInv, MutualExclusion, Inside
<1>2. \A u \in Writer : u # t => pc[u] \notin Inside /\ box'[u] = box[u]
  BY <1>1, OneInside DEF TxInv, TypeOK, Inside
<1>3. /\ MutualExclusion' /\ QueueWaits'
      /\ pc' \in [Writer -> {"idle", "mutex"} \cup Inside]
      /\ owner' \in Writer \cup {None} /\ waiters' \in Seq(Writer)
      /\ pc'[t] = "idle"
      /\ \A u \in Writer : u # t => pc'[u] = pc[u] \/ (pc[u] = "mutex" /\ pc'[u] = "sem")
  <2>1. CASE waiters = <<>>
    <3>1. pc' = [pc EXCEPT ![t] = "idle"] /\ owner' = None /\ waiters' = <<>>
      BY <2>1
    <3>2. /\ pc'[t] = "idle" /\ \A u \in Writer : u # t => pc'[u] = pc[u]
          /\ pc' \in [Writer -> {"idle", "mutex"} \cup Inside]
      BY <3>1 DEF TxInv, TypeOK
    <3>3. MutualExclusion'
      BY <1>2, <3>1, <3>2, TxAssumption DEF MutualExclusion, Inside
    <3>4. QueueWaits' /\ waiters' \in Seq(Writer)
      BY <3>1, EmptySeq DEF QueueWaits
    <3> QED BY <3>1, <3>2, <3>3, <3>4
  <2>2. CASE waiters # <<>>
    <3> DEFINE h == Head(waiters)
    <3>1. /\ pc' = [pc EXCEPT ![t] = "idle", ![h] = "sem"]
          /\ owner' = h /\ waiters' = Tail(waiters)
      BY <2>2
    <3>2. /\ waiters \in Seq(Writer)
          /\ \A i, j \in DOMAIN waiters : waiters[i] = waiters[j] => i = j
      BY DEF TxInv, TypeOK, QueueWaits
    <3>3. /\ h \in {waiters[i] : i \in DOMAIN waiters} /\ h \in Writer
          /\ Tail(waiters) \in Seq(Writer)
          /\ {Tail(waiters)[i] : i \in DOMAIN Tail(waiters)}
                = {waiters[i] : i \in DOMAIN waiters} \ {h}
          /\ \A i, j \in DOMAIN Tail(waiters) : Tail(waiters)[i] = Tail(waiters)[j] => i = j
      BY <2>2, <3>2, PopDistinct
    <3> HIDE DEF h
    <3>4. pc[h] = "mutex" /\ h # t
      BY <1>1, <3>3 DEF TxInv, QueueWaits
    <3>5. /\ pc'[t] = "idle" /\ pc'[h] = "sem"
          /\ \A u \in Writer : u # t /\ u # h => pc'[u] = pc[u]
          /\ pc' \in [Writer -> {"idle", "mutex"} \cup Inside]
      BY <3>1, <3>3, <3>4 DEF TxInv, TypeOK, Inside
    <3>6. MutualExclusion'
      BY <1>2, <3>1, <3>3, <3>5 DEF MutualExclusion, Inside
    <3>7. QueueWaits'
      <4>1. \A i \in DOMAIN Tail(waiters) :
              /\ Tail(waiters)[i] \in Writer /\ Tail(waiters)[i] # h
              /\ pc[Tail(waiters)[i]] = "mutex"
        <5>1. \A w \in {waiters[i] : i \in DOMAIN waiters} : w \in Writer /\ pc[w] = "mutex"
          BY <3>2, LenProperties DEF TxInv, QueueWaits
        <5> QED BY <3>3, <5>1
      <4>2. \A i \in DOMAIN Tail(waiters) : pc'[Tail(waiters)[i]] = "mutex"
        BY <1>1, <3>5, <4>1
      <4> QED BY <3>1, <3>3, <4>2 DEF QueueWaits
    <3> QED BY <3>1, <3>3, <3>4, <3>5, <3>6, <3>7
  <2> QED BY <2>1, <2>2
<1>4. \A u \in Writer : pc'[u] \notin HasCount /\ pc'[u] # "unlock" /\ pc[u] \notin HasCount
  BY <1>1, <1>2, <1>3 DEF Inside, HasCount, HasBox
<1>5. TypeOK'
  <2>1. box' \in [Writer -> SndBox \cup {NoBox}]
    BY <1>1 DEF TxInv, TypeOK
  <2> QED BY <1>1, <1>3, <2>1 DEF TxInv, TypeOK, poolVars, boxVars, tsrVars, errVars
<1>6. BoxesCounted'
  <2>1. \A u \in Writer : pc'[u] \notin HasBox /\ pc[u] \notin HasBox
    BY <1>4 DEF HasCount
  <2> QED BY <1>1, <1>4, <2>1 DEF TxInv, BoxesCounted, Free, poolVars
<1>7. \A c \in SndBox : ~txrq[c] /\ ~rqcp[c]
  BY <1>1, NobodyWaits DEF Inside
<1>8. OneMailbox' /\ IsrSound' /\ NoLostCompletion' /\ OutcomeTold'
  BY <1>1, <1>4, <1>7
  DEF OneMailbox, IsrSound, NoLostCompletion, OutcomeTold, HasCount, HasBox, IrqIdle, Idle,
      tsrVars, errVars
<1> QED BY <1>3, <1>5, <1>6, <1>8 DEF TxInv

-----------------------------------------------------------------------------
(***************************************************************************)
(* The controller and the interrupts keep the invariant.                    *)
(***************************************************************************)
\* What only threads change is unchanged.
LEMMA ThreadsUntouched ==
    ASSUME TxInv, UNCHANGED <<thrVars, mtxVars, poolVars>>
    PROVE  /\ MutualExclusion' /\ QueueWaits' /\ BoxesCounted'
           /\ UNCHANGED <<pc, box, ret, owner, waiters, sem, freelist>>
BY DEF TxInv, MutualExclusion, QueueWaits, BoxesCounted, Free, thrVars, mtxVars, poolVars

\* A request ends, in any way; errors set LEC and may pend an interrupt.
LEMMA EndRequestStep ==
    ASSUME TxInv, NEW b \in SndBox, NEW ok \in BOOLEAN, EndRequest(b, ok),
           lec' \in {"none", "ack", "other"}, erri' \in BOOLEAN, ok => lec' = "none",
           erri => erri'
    PROVE  TxInv'
<1> USE DEF EndRequest
<1>1. /\ txrq[b] /\ txrq' = [txrq EXCEPT ![b] = FALSE] /\ rqcp' = [rqcp EXCEPT ![b] = TRUE]
      /\ txok' = [txok EXCEPT ![b] = ok]
      /\ outcome' = [outcome EXCEPT ![b] = IF ok THEN "sent" ELSE "failed"]
      /\ UNCHANGED <<thrVars, mtxVars, poolVars, boxVars, isr>>
  OBVIOUS
<1>2. /\ MutualExclusion' /\ QueueWaits' /\ BoxesCounted'
      /\ UNCHANGED <<pc, box, ret, owner, waiters, sem, freelist>>
  BY <1>1, ThreadsUntouched
<1>3. TypeOK'
  <2>1. /\ txrq' \in [SndBox -> BOOLEAN] /\ rqcp' \in [SndBox -> BOOLEAN]
        /\ txok' \in [SndBox -> BOOLEAN]
        /\ outcome' \in [SndBox -> {"none", "sent", "failed"}]
    BY <1>1 DEF TxInv, TypeOK
  <2> QED BY <1>1, <1>2, <2>1 DEF TxInv, TypeOK, boxVars
<1>4. PICK t \in Writer : pc[t] = "wait" /\ box[t] = b
  BY <1>1, MailboxOfWaiter
<1>5. \A c \in SndBox : c # b => ~txrq[c] /\ ~rqcp[c]
  BY <1>1, MailboxOfWaiter
<1>6. /\ ~txrq'[b] /\ rqcp'[b] /\ (txok'[b] <=> ok) /\ outcome'[b] = (IF ok THEN "sent" ELSE "failed")
      /\ \A c \in SndBox : c # b => ~txrq'[c] /\ ~rqcp'[c] /\ outcome'[c] = outcome[c]
  BY <1>1, <1>5 DEF TxInv, TypeOK
<1>7. \A u \in Writer : pc[u] \in Inside => u = t
  BY <1>4, OneInside DEF Inside
<1>8. ~completed[b] /\ ~rqcp[b] /\ completed' = completed /\ result' = result
  BY <1>1 DEF TxInv, OneMailbox, boxVars
<1>9. OneMailbox' /\ NoLostCompletion'
  BY <1>2, <1>4, <1>6, <1>7 DEF OneMailbox, NoLostCompletion, Inside
<1>10. IsrSound'
  <2>1. isr.irq # "tx" /\ isr.irq # "ack" /\ (isr.irq = "sce" => erri)
    BY <1>1, <1>5, <1>8 DEF TxInv, IsrSound
  <2>2. \A c \in SndBox : ~txrq'[c] /\ (rqcp'[c] /\ txok'[c] => ok)
    BY <1>6
  <2> QED BY <1>1, <2>1, <2>2 DEF IsrSound
<1>11. OutcomeTold'
  BY <1>2, <1>4, <1>6, <1>7, <1>8 DEF TxInv, OutcomeTold, Ended, Inside
<1> QED BY <1>2, <1>3, <1>9, <1>10, <1>11 DEF TxInv

LEMMA EndOfStep ==
    ASSUME TxInv, NEW b \in SndBox, EndOf(b)
    PROVE  TxInv'
<1>1. PICK ok \in BOOLEAN : EndRequest(b, ok) /\ (ok => lec' = "none")
  BY DEF EndOf, FrameSent, NotAcked, FrameFailed, LostArbitration
<1>2. lec' \in {"none", "ack", "other"} /\ erri' \in BOOLEAN /\ (erri => erri')
  BY DEF EndOf, FrameSent, NotAcked, FrameFailed, LostArbitration, errVars, TxInv, TypeOK
<1> QED BY <1>1, <1>2, EndRequestStep

\* An error on another node's frame.
LEMMA BusErrorStep ==
    ASSUME TxInv, BusError
    PROVE  TxInv'
<1>1. /\ lec' = "other" /\ erri' = TRUE
      /\ UNCHANGED <<thrVars, mtxVars, poolVars, boxVars, tsrVars, isr, outcome>>
  BY DEF BusError
<1>2. /\ MutualExclusion' /\ QueueWaits' /\ BoxesCounted'
      /\ UNCHANGED <<pc, box, ret, owner, waiters, sem, freelist>>
  BY <1>1, ThreadsUntouched
<1>3. TypeOK'
  BY <1>1, <1>2 DEF TxInv, TypeOK, boxVars, tsrVars
<1>4. OneMailbox' /\ NoLostCompletion' /\ OutcomeTold'
  BY <1>1, <1>2 DEF TxInv, OneMailbox, NoLostCompletion, OutcomeTold, Ended, boxVars, tsrVars
<1>5. IsrSound'
  BY <1>1 DEF TxInv, IsrSound, boxVars, tsrVars
<1> QED BY <1>2, <1>3, <1>4, <1>5 DEF TxInv

\* rt_hw_can_isr tells the result that the controller noted, to the writer of
\* the mailbox that has ended.
LEMMA CompleteStep ==
    ASSUME TxInv, NEW b \in SndBox, NEW r \in {"OK", "ERR"}, rqcp[b], r = "OK" <=> txok[b],
           Complete(b, r), UNCHANGED <<thrVars, outcome>>
    PROVE  /\ result' \in [SndBox -> {"OK", "ERR", "WAIT"}] /\ completed' \in [SndBox -> BOOLEAN]
           /\ completed'[b]
           /\ \A c \in SndBox : c # b => completed'[c] = completed[c]
           /\ \E t \in Writer : pc[t] = "wait" /\ box[t] = b
                                /\ \A u \in Writer : pc[u] \in Inside => u = t
           /\ \A t \in Writer :
                /\ pc[t] = "send" => ~completed'[box[t]]
                /\ pc[t] = "giveback" \/ (pc[t] = "wait" /\ completed'[box[t]]) =>
                     Ended(box[t]) /\ (result'[box[t]] = "OK" <=> outcome[box[t]] = "sent")
<1>1. /\ result' \in [SndBox -> {"OK", "ERR", "WAIT"}] /\ completed' \in [SndBox -> BOOLEAN]
      /\ completed'[b] /\ result'[b] = r
      /\ \A c \in SndBox : c # b => completed'[c] = completed[c]
  BY DEF Complete, TxInv, TypeOK
<1>2. PICK t \in Writer : pc[t] = "wait" /\ box[t] = b
  BY MailboxOfWaiter
<1>3. \A u \in Writer : pc[u] \in Inside => u = t
  BY <1>2, OneInside DEF Inside
<1>4. Ended(b) /\ (r = "OK" <=> outcome[b] = "sent")
  BY DEF TxInv, OutcomeTold
<1> QED BY <1>1, <1>2, <1>3, <1>4 DEF Inside

\* The transmit interrupt completes the box of the mailbox that has ended.
LEMMA TxIsrStep ==
    ASSUME TxInv, TxIsr
    PROVE  TxInv'
<1> USE DEF TxIsr
<1>1. PICK b \in SndBox : rqcp[b]
  OBVIOUS
<1>2. FirstRqcp = b
  BY <1>1, FirstIsOnly
<1> DEFINE r == IF txok[b] THEN "OK" ELSE "ERR"
<1>3. /\ isr' = [irq |-> "tx", box |-> b] /\ Complete(b, r)
      /\ UNCHANGED <<thrVars, mtxVars, poolVars, tsrVars, errVars, outcome>>
  BY <1>2
<1>4. r \in {"OK", "ERR"} /\ (r = "OK" <=> txok[b])
  OBVIOUS
<1> HIDE DEF r
<1>5. /\ result' \in [SndBox -> {"OK", "ERR", "WAIT"}] /\ completed' \in [SndBox -> BOOLEAN]
      /\ completed'[b]
      /\ \A c \in SndBox : c # b => completed'[c] = completed[c]
      /\ \E t \in Writer : pc[t] = "wait" /\ box[t] = b
                           /\ \A u \in Writer : pc[u] \in Inside => u = t
      /\ \A t \in Writer :
           /\ pc[t] = "send" => ~completed'[box[t]]
           /\ pc[t] = "giveback" \/ (pc[t] = "wait" /\ completed'[box[t]]) =>
                Ended(box[t]) /\ (result'[box[t]] = "OK" <=> outcome[box[t]] = "sent")
  BY <1>1, <1>3, <1>4, CompleteStep
<1>6. /\ MutualExclusion' /\ QueueWaits' /\ BoxesCounted'
      /\ UNCHANGED <<pc, box, ret, owner, waiters, sem, freelist>>
  BY <1>3, ThreadsUntouched
<1>7. TypeOK'
  BY <1>3, <1>5, <1>6 DEF TxInv, TypeOK, tsrVars, errVars
<1>8. OneMailbox'
  <2>1. ~txrq[b] /\ \A c \in SndBox : txrq[c] => c = b
    BY <1>1, MailboxOfWaiter DEF TxInv, OneMailbox
  <2> QED BY <1>3, <1>6, <2>1 DEF TxInv, OneMailbox, tsrVars
<1>9. IsrSound'
  BY <1>1, <1>3, <1>5 DEF TxInv, IsrSound, tsrVars, errVars
<1>10. OutcomeTold'
  BY <1>3, <1>5, <1>6 DEF TxInv, OutcomeTold, Ended, tsrVars
<1>11. NoLostCompletion'
  BY <1>3, <1>5, <1>6 DEF TxInv, NoLostCompletion, Inside, tsrVars
<1> QED BY <1>6, <1>7, <1>8, <1>9, <1>10, <1>11 DEF TxInv

\* ClearTsr clears every flag; if the box of the flag that was set has been
\* completed, nobody is left waiting.
LEMMA ClearTsrStep ==
    ASSUME TxInv, ClearTsr, isr' = Idle, UNCHANGED <<thrVars, mtxVars, poolVars, outcome, lec>>,
           erri' \in BOOLEAN,
           result' \in [SndBox -> {"OK", "ERR", "WAIT"}], completed' \in [SndBox -> BOOLEAN],
           NEW b \in SndBox, rqcp[b], completed'[b],
           \A t \in Writer :
             /\ pc[t] = "send" => ~completed'[box[t]]
             /\ pc[t] = "giveback" \/ (pc[t] = "wait" /\ completed'[box[t]]) =>
                  Ended(box[t]) /\ (result'[box[t]] = "OK" <=> outcome[box[t]] = "sent")
    PROVE  TxInv'
<1>1. /\ MutualExclusion' /\ QueueWaits' /\ BoxesCounted'
      /\ UNCHANGED <<pc, box, ret, owner, waiters, sem, freelist>>
  BY ThreadsUntouched
<1>2. /\ \A c \in SndBox : ~rqcp'[c]
      /\ rqcp' \in [SndBox -> BOOLEAN] /\ txok' \in [SndBox -> BOOLEAN] /\ txrq' = txrq
  BY DEF ClearTsr, TxInv, TypeOK
<1>3. TypeOK'
  BY <1>1, <1>2 DEF TxInv, TypeOK, Idle
<1>4. \A c \in SndBox : ~txrq[c]
  BY MailboxOfWaiter DEF TxInv, OneMailbox
<1>5. OneMailbox'
  BY <1>2, <1>4 DEF OneMailbox
<1>6. IsrSound'
  BY <1>2, <1>4 DEF IsrSound, Idle
<1>7. NoLostCompletion'
  <2>1. PICK t \in Writer : pc[t] = "wait" /\ box[t] = b
    BY MailboxOfWaiter
  <2>2. \A u \in Writer : pc[u] = "wait" => u = t
    BY <2>1, OneInside DEF Inside
  <2> QED BY <1>1, <2>1, <2>2 DEF NoLostCompletion
<1>8. OutcomeTold'
  BY <1>1, <1>2 DEF TxInv, OutcomeTold, Ended
<1> QED BY <1>1, <1>3, <1>5, <1>6, <1>7, <1>8 DEF TxInv

LEMMA TxIsrEndStep ==
    ASSUME TxInv, TxIsrEnd
    PROVE  TxInv'
<1>1. /\ isr.irq = "tx" /\ isr' = Idle /\ ClearTsr
      /\ UNCHANGED <<thrVars, mtxVars, poolVars, boxVars, errVars, outcome>>
  BY DEF TxIsrEnd
<1>2. isr.box \in SndBox /\ rqcp[isr.box] /\ completed[isr.box]
  BY <1>1 DEF TxInv, IsrSound
<1>3. /\ result' = result /\ completed' = completed /\ lec' = lec /\ erri' = erri
      /\ result \in [SndBox -> {"OK", "ERR", "WAIT"}] /\ completed \in [SndBox -> BOOLEAN]
      /\ erri \in BOOLEAN
  BY <1>1 DEF TxInv, TypeOK, boxVars, errVars
<1>4. \A t \in Writer :
        /\ pc[t] = "send" => ~completed[box[t]]
        /\ pc[t] = "giveback" \/ (pc[t] = "wait" /\ completed[box[t]]) =>
             Ended(box[t]) /\ (result[box[t]] = "OK" <=> outcome[box[t]] = "sent")
  BY DEF TxInv, OutcomeTold
<1>5. UNCHANGED <<thrVars, mtxVars, poolVars, outcome, lec>>
  BY <1>1, <1>3
<1> QED BY <1>1, <1>2, <1>3, <1>4, <1>5, ClearTsrStep

LEMMA SceIsrStep ==
    ASSUME TxInv, SceIsr
    PROVE  TxInv'
<1>1. /\ isr' = [irq |-> "sce", box |-> NoBox]
      /\ UNCHANGED <<thrVars, mtxVars, poolVars, boxVars, tsrVars, errVars, outcome>>
  BY DEF SceIsr
<1>2. /\ MutualExclusion' /\ QueueWaits' /\ BoxesCounted'
      /\ UNCHANGED <<pc, box, ret, owner, waiters, sem, freelist>>
  BY <1>1, ThreadsUntouched
<1>3. TypeOK'
  BY <1>1, <1>2 DEF TxInv, TypeOK, boxVars, tsrVars, errVars
<1>4. OneMailbox' /\ NoLostCompletion' /\ OutcomeTold'
  BY <1>1, <1>2
  DEF TxInv, OneMailbox, NoLostCompletion, OutcomeTold, Ended, boxVars, tsrVars, errVars
<1>5. IsrSound'
  BY <1>1 DEF SceIsr, TxInv, IsrSound, boxVars, tsrVars, errVars
<1> QED BY <1>2, <1>3, <1>4, <1>5 DEF TxInv

LEMMA ReadEsrStep ==
    ASSUME TxInv, ReadEsr
    PROVE  TxInv'
<1>1. /\ isr' = [irq |-> IF lec = "ack" THEN "ack" ELSE "other", box |-> NoBox]
      /\ UNCHANGED <<thrVars, mtxVars, poolVars, boxVars, tsrVars, errVars, outcome>>
  BY DEF ReadEsr
<1>2. /\ MutualExclusion' /\ QueueWaits' /\ BoxesCounted'
      /\ UNCHANGED <<pc, box, ret, owner, waiters, sem, freelist>>
  BY <1>1, ThreadsUntouched
<1>3. TypeOK'
  BY <1>1, <1>2 DEF TxInv, TypeOK, boxVars, tsrVars, errVars
<1>4. OneMailbox' /\ NoLostCompletion' /\ OutcomeTold'
  BY <1>1, <1>2
  DEF TxInv, OneMailbox, NoLostCompletion, OutcomeTold, Ended, boxVars, tsrVars, errVars
<1>5. IsrSound'
  <2>1. erri
    BY DEF TxInv, IsrSound, ReadEsr
  <2> QED BY <1>1, <2>1 DEF TxInv, IsrSound, boxVars, tsrVars, errVars
<1> QED BY <1>2, <1>3, <1>4, <1>5 DEF TxInv

\* The error interrupt clears a flag only after an acknowledgement error, and
\* then the frame that has ended is the one not acknowledged.
LEMMA SceIsrEndStep ==
    ASSUME TxInv, SceIsrEnd
    PROVE  TxInv'
<1>1. /\ isr' = Idle /\ erri' = FALSE
      /\ UNCHANGED <<thrVars, mtxVars, poolVars, lec, outcome>>
  BY DEF SceIsrEnd
<1>2. CASE isr.irq = "ack" /\ \E b \in SndBox : rqcp[b]
  <2>1. PICK b \in SndBox : rqcp[b]
    BY <1>2
  <2>2. FirstRqcp = b /\ ~txok[b]
    BY <1>2, <2>1, FirstIsOnly DEF TxInv, IsrSound
  <2>3. Complete(b, "ERR") /\ ClearTsr
    BY <1>2, <2>2 DEF SceIsrEnd
  <2>4. /\ result' \in [SndBox -> {"OK", "ERR", "WAIT"}] /\ completed' \in [SndBox -> BOOLEAN]
        /\ completed'[b]
        /\ \A t \in Writer :
             /\ pc[t] = "send" => ~completed'[box[t]]
             /\ pc[t] = "giveback" \/ (pc[t] = "wait" /\ completed'[box[t]]) =>
                  Ended(box[t]) /\ (result'[box[t]] = "OK" <=> outcome[box[t]] = "sent")
    <3>1. "ERR" \in {"OK", "ERR"} /\ ("ERR" = "OK" <=> txok[b]) /\ UNCHANGED <<thrVars, outcome>>
      BY <1>1, <2>2 DEF TxInv, TypeOK
    <3> QED BY <2>1, <2>3, <3>1, CompleteStep
  <2> QED BY <1>1, <2>1, <2>3, <2>4, ClearTsrStep
<1>3. CASE ~(isr.irq = "ack" /\ \E b \in SndBox : rqcp[b])
  <2>1. UNCHANGED <<boxVars, tsrVars>>
    BY <1>3 DEF SceIsrEnd
  <2>2. /\ MutualExclusion' /\ QueueWaits' /\ BoxesCounted'
        /\ UNCHANGED <<pc, box, ret, owner, waiters, sem, freelist>>
    BY <1>1, ThreadsUntouched
  <2>3. TypeOK'
    BY <1>1, <2>1, <2>2 DEF TxInv, TypeOK, Idle, boxVars, tsrVars
  <2>4. OneMailbox' /\ NoLostCompletion' /\ OutcomeTold'
    BY <1>1, <2>1, <2>2
    DEF TxInv, OneMailbox, NoLostCompletion, OutcomeTold, Ended, boxVars, tsrVars
  <2>5. IsrSound'
    BY <1>1, <2>1 DEF TxInv, IsrSound, Idle, boxVars, tsrVars
  <2> QED BY <2>2, <2>3, <2>4, <2>5 DEF TxInv
<1> QED BY <1>2, <1>3

-----------------------------------------------------------------------------
\* Every step keeps the invariant.
LEMMA TxStep == TxInv /\ [Next]_vars => TxInv'
<1> SUFFICES ASSUME TxInv, [Next]_vars PROVE TxInv'
  OBVIOUS
<1>1. ASSUME NEW t \in Writer, TakeMutex(t) \/ WriterStep(t) PROVE TxInv'
  BY <1>1, TakeMutexStep, TakeSemStep, PopBoxStep, SendMsgStep, WaitCompletionStep,
     GiveBackStep, PostSemStep, ReleaseMutexStep DEF WriterStep
<1>2. ASSUME NEW b \in SndBox, EndOf(b) PROVE TxInv'
  BY <1>2, EndOfStep
<1>3. CASE BusError
  BY <1>3, BusErrorStep
<1>4. CASE Isr
  BY <1>4, TxIsrStep, TxIsrEndStep, SceIsrStep, ReadEsrStep, SceIsrEndStep DEF Isr
<1>5. CASE UNCHANGED vars
  <2> USE <1>5 DEF vars, thrVars, mtxVars, poolVars, boxVars, tsrVars, errVars
  <2>1. MutualExclusion' /\ QueueWaits' /\ BoxesCounted'
    BY ThreadsUntouched
  <2>2. TypeOK'
    BY DEF TxInv, TypeOK
  <2>3. OneMailbox' /\ IsrSound' /\ OutcomeTold' /\ NoLostCompletion'
    BY DEF TxInv, OneMailbox, IsrSound, OutcomeTold, NoLostCompletion, Ended
  <2> QED BY <2>1, <2>2, <2>3 DEF TxInv
<1> QED BY <1>1, <1>2, <1>3, <1>4, <1>5 DEF Next

LEMMA TxInvariance == Spec => []TxInv
BY TxInit, TxStep, PTL DEF Spec

\* Type correctness of the transmit path.
THEOREM TxTypeCorrect == Spec => []TypeOK
<1>1. TxInv => TypeOK
  BY DEF TxInv
<1> QED BY <1>1, TxInvariance, PTL

\* A writer that waits for the end of its frame always has it in its mailbox,
\* flagged as ended, or completed, although the interrupts clear the flags of
\* all mailboxes at once (_can_tx_isr, _can_sce_isr).
THEOREM CompletionsArrive == Spec => []NoLostCompletion
<1>1. TxInv => NoLostCompletion
  BY DEF TxInv
<1> QED BY <1>1, TxInvariance, PTL

\* No path through _can_int_tx loses or duplicates a send box, and whoever pops
\* one finds one.
THEOREM BoxesComeBack == Spec => []BoxesReturn
<1>1. TxInv => BoxesReturn
  <2> SUFFICES ASSUME TxInv PROVE BoxesReturn
    OBVIOUS
  <2>1. ASSUME owner = None
        PROVE  sem = SndBoxNumber /\ Free = SndBox /\ Len(freelist) = SndBoxNumber
    <3>1. \A t \in Writer : pc[t] \notin Inside
      BY <2>1, TxAssumption DEF TxInv, MutualExclusion
    <3>2. \A t \in Writer : pc[t] \notin HasCount /\ pc[t] \notin HasBox
      BY <3>1 DEF Inside, HasCount, HasBox
    <3> QED BY <3>2 DEF TxInv, BoxesCounted
  <2>2. \A t \in Writer : pc[t] = "pop" => freelist # <<>>
    BY PopFindsBox
  <2> QED BY <2>1, <2>2 DEF BoxesReturn, Free
<1> QED BY <1>1, TxInvariance, PTL

-----------------------------------------------------------------------------
(***************************************************************************)
(* CanTx implements SerialChannel.                                          *)
(***************************************************************************)
Writes == [t \in Writer |-> Write(t)]

LEMMA ChannelInit == Init => Channel!Init
BY DEF Init, Channel!Init, Write

\* A step of the writer t alone maps to a step of its write, or to none.
LEMMA OneWrite ==
    ASSUME NEW t \in Writer, \A u \in Writer : u # t => Write(u)' = Write(u)
    PROVE  Writes' = [Writes EXCEPT ![t] = Write(t)']
BY DEF Writes

\* Where a step leaves what Write(u) is made of alone, the write stays as it is.
LEMMA SameWrite ==
    ASSUME NEW u \in Writer, pc'[u] = pc[u], box'[u] = box[u], ret'[u] = ret[u],
           pc[u] = "wait" => txrq'[box[u]] = txrq[box[u]],
           pc[u] \in {"wait", "giveback"} => outcome'[box[u]] = outcome[box[u]]
    PROVE  Write(u)' = Write(u)
BY DEF Write

\* Every step of a writer is a step of its write or changes none.
LEMMA WriterStepMaps ==
    ASSUME TxInv, TxInv', NEW t \in Writer, TakeMutex(t) \/ WriterStep(t)
    PROVE  [Channel!Next]_Writes
<1> USE DEF Goto
<1>o. \A u \in Writer : pc[t] \in Inside /\ u # t => pc[u] \notin Inside
  BY OneInside
<1>1. CASE TakeMutex(t)
  <2>1. /\ pc[t] = "idle" /\ pc'[t] \in {"sem", "mutex"}
        /\ UNCHANGED <<box, txrq, outcome>>
        /\ \A u \in Writer : u # t => pc'[u] = pc[u] /\ ret'[u] = ret[u]
    BY <1>1 DEF TakeMutex, TxInv, TypeOK, tsrVars
  <2>2. \A u \in Writer : u # t => Write(u)' = Write(u)
    BY <2>1, SameWrite
  <2>3. Write(t) = "idle" /\ Write(t)' = "asked"
    BY <2>1 DEF Write
  <2>4. Channel!Ask(t)
    BY <2>2, <2>3, OneWrite DEF Channel!Ask, Writes
  <2> QED BY <2>4 DEF Channel!Next
<1>2. CASE TakeSem(t) \/ PopBox(t)
  <2>1. /\ pc[t] \in {"sem", "pop"} /\ pc'[t] \in {"pop", "send"}
        /\ UNCHANGED <<txrq, outcome, ret>>
        /\ \A u \in Writer : u # t => pc'[u] = pc[u] /\ box'[u] = box[u]
    BY <1>2 DEF TakeSem, PopBox, TxInv, TypeOK, tsrVars
  <2>2. \A u \in Writer : u # t => Write(u)' = Write(u)
    BY <2>1, SameWrite
  <2>3. Write(t)' = Write(t)
    BY <2>1 DEF Write
  <2> QED BY <2>2, <2>3 DEF Writes
<1>3. CASE SendMsg(t)
  <2>1. pc[t] = "send" /\ ~txrq[box[t]] /\ box[t] \in SndBox
    BY <1>3, SendMsgStep DEF SendMsg
  <2>2. /\ pc'[t] = "wait" /\ txrq'[box'[t]] /\ UNCHANGED <<box, ret>>
        /\ \A u \in Writer : u # t => pc'[u] = pc[u]
    BY <1>3, <2>1 DEF SendMsg, TxInv, TypeOK
  <2>3. \A u \in Writer : u # t => pc[u] \notin Inside
    BY <1>o, <2>1 DEF Inside
  <2>4. \A u \in Writer : u # t => Write(u)' = Write(u) /\ Write(u) # "sending"
    BY <2>2, <2>3, SameWrite DEF Inside, Write, TxInv, TypeOK
  <2>5. Write(t) = "asked" /\ Write(t)' = "sending"
    BY <2>1, <2>2 DEF Write
  <2>6. Channel!Start(t)
    BY <2>4, <2>5, OneWrite DEF Channel!Start, Writes
  <2> QED BY <2>6 DEF Channel!Next
<1>4. CASE WaitCompletion(t)
  <2>1. pc[t] = "wait" /\ ~txrq[box[t]]
    BY <1>4, WaitCompletionStep DEF WaitCompletion
  <2>2. /\ pc'[t] = "giveback" /\ UNCHANGED <<box, ret, txrq, outcome>>
        /\ \A u \in Writer : u # t => pc'[u] = pc[u]
    BY <1>4 DEF WaitCompletion, TxInv, TypeOK, tsrVars
  <2>3. \A u \in Writer : u # t => Write(u)' = Write(u)
    BY <2>2, SameWrite
  <2>4. Write(t)' = Write(t)
    BY <2>1, <2>2 DEF Write
  <2> QED BY <2>3, <2>4 DEF Writes
<1>5. CASE GiveBack(t)
  <2>1. pc[t] = "giveback" /\ ret'[t] = outcome[box[t]]
    BY <1>5, GiveBackStep DEF GiveBack
  <2>2. /\ pc'[t] = "post" /\ UNCHANGED <<box, txrq, outcome>>
        /\ \A u \in Writer : u # t => pc'[u] = pc[u] /\ ret'[u] = ret[u]
    BY <1>5 DEF GiveBack, TxInv, TypeOK, tsrVars
  <2>3. \A u \in Writer : u # t => Write(u)' = Write(u)
    BY <2>2, SameWrite
  <2>4. Write(t)' = Write(t)
    BY <2>1, <2>2 DEF Write
  <2> QED BY <2>3, <2>4 DEF Writes
<1>6. CASE PostSem(t)
  <2>1. /\ pc[t] = "post" /\ pc'[t] = "unlock" /\ UNCHANGED <<box, ret, txrq, outcome>>
        /\ \A u \in Writer : u # t => pc'[u] = pc[u]
    BY <1>6 DEF PostSem, TxInv, TypeOK, tsrVars
  <2>2. \A u \in Writer : u # t => Write(u)' = Write(u)
    BY <2>1, SameWrite
  <2>3. Write(t)' = Write(t)
    BY <2>1 DEF Write
  <2> QED BY <2>2, <2>3 DEF Writes
<1>7. CASE ReleaseMutex(t)
  <2>1. /\ pc[t] = "unlock" /\ ret[t] \in {"sent", "failed"}
        /\ UNCHANGED <<ret, txrq, outcome>>
        /\ \A u \in Writer : u # t => box'[u] = box[u]
    BY <1>7 DEF ReleaseMutex, TxInv, TypeOK, OutcomeTold, tsrVars
  <2>2. /\ pc'[t] = "idle"
        /\ \A u \in Writer : u # t => pc'[u] = pc[u] \/ (pc[u] = "mutex" /\ pc'[u] = "sem")
    BY <1>7, ReleaseMutexStep
  <2>3. \A u \in Writer : u # t => Write(u)' = Write(u)
    <3> SUFFICES ASSUME NEW u \in Writer, u # t PROVE Write(u)' = Write(u)
      OBVIOUS
    <3>1. CASE pc'[u] = pc[u]
      BY <2>1, <3>1, SameWrite
    <3>2. CASE pc[u] = "mutex" /\ pc'[u] = "sem"
      BY <3>2 DEF Write
    <3> QED BY <2>2, <3>1, <3>2
  <2>4. Write(t) \in {"sent", "failed"} /\ Write(t)' = "idle"
    BY <2>1, <2>2 DEF Write
  <2>5. Channel!Return(t)
    BY <2>3, <2>4, OneWrite DEF Channel!Return, Writes
  <2> QED BY <2>5 DEF Channel!Next
<1> QED BY <1>1, <1>2, <1>3, <1>4, <1>5, <1>6, <1>7 DEF WriterStep

\* The end of a request is the end of the write that is being sent.
LEMMA EndOfMaps ==
    ASSUME TxInv, NEW b \in SndBox, EndOf(b)
    PROVE  [Channel!Next]_Writes
<1>1. PICK ok \in BOOLEAN : EndRequest(b, ok)
  BY DEF EndOf, FrameSent, NotAcked, FrameFailed, LostArbitration
<1>2. /\ txrq[b] /\ ~txrq'[b] /\ UNCHANGED <<pc, box, ret>>
      /\ outcome'[b] \in {"sent", "failed"}
      /\ \A c \in SndBox : c # b => txrq'[c] = txrq[c] /\ outcome'[c] = outcome[c]
  BY <1>1 DEF EndRequest, TxInv, TypeOK, thrVars
<1>3. PICK t \in Writer : pc[t] = "wait" /\ box[t] = b
  BY <1>2, MailboxOfWaiter
<1>4. \A u \in Writer : u # t => pc[u] \notin Inside
  BY <1>3, OneInside DEF Inside
<1>5. \A u \in Writer : u # t => Write(u)' = Write(u)
  BY <1>2, <1>4, SameWrite DEF Inside
<1>6. Write(t) = "sending" /\ Write(t)' \in {"sent", "failed"}
  BY <1>2, <1>3 DEF Write
<1>7. Channel!End(t)
  <2>1. Writes' = [Writes EXCEPT ![t] = Write(t)']
    BY <1>5, OneWrite
  <2> QED BY <1>6, <2>1 DEF Channel!End, Writes
<1> QED BY <1>7 DEF Channel!Next

LEMMA ChannelStep == TxInv /\ TxInv' /\ [Next]_vars => [Channel!Next]_Writes
<1> SUFFICES ASSUME TxInv, TxInv', [Next]_vars PROVE [Channel!Next]_Writes
  OBVIOUS
<1>1. ASSUME NEW t \in Writer, TakeMutex(t) \/ WriterStep(t) PROVE [Channel!Next]_Writes
  BY <1>1, WriterStepMaps
<1>2. ASSUME NEW b \in SndBox, EndOf(b) PROVE [Channel!Next]_Writes
  BY <1>2, EndOfMaps
<1>3. CASE BusError \/ Isr \/ UNCHANGED vars
  <2>1. UNCHANGED <<pc, box, ret, txrq, outcome>>
    BY <1>3 DEF BusError, Isr, TxIsr, TxIsrEnd, SceIsr, ReadEsr, SceIsrEnd, ClearTsr, vars, thrVars, tsrVars
  <2>2. \A u \in Writer : Write(u)' = Write(u)
    BY <2>1, SameWrite
  <2> QED BY <2>2 DEF Writes
<1> QED BY <1>1, <1>2, <1>3 DEF Next

\* Mutex, send boxes, mailboxes and interrupts together send one frame at a
\* time and tell each writer what became of its own (can_channel_write).
THEOREM TxImplementsChannel == Spec => ImplementsChannel
BY ChannelInit, ChannelStep, TxInvariance, PTL
DEF Spec, ImplementsChannel, Channel!Spec, Writes

=============================================================================
