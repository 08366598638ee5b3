----------------------------- MODULE CanRxProofs -----------------------------
(***************************************************************************)
(* Proofs about CanRx for every number of boxes, FIFO depth and semaphore   *)
(* limit, in two parts.                                                     *)
(*                                                                         *)
(* Counting: neither NoLostWakeup nor DuplicatesBounded is inductive alone. *)
(* That the semaphore can always count one more frame rests on the number   *)
(* of boxes, and that a frame is never stored before rx_indicate is set on  *)
(* the order of the statements of can_channel_open.                         *)
(*                                                                         *)
(* Delivery: no box is lost or shared, no frame for others is handled, none *)
(* is handled twice or missing unless the driver counted a drop, and CanRx  *)
(* implements FrameDelivery.  The frames under way form one pipe, the boxes *)
(* of uselist and then the hardware FIFO; interrupts move frames along it   *)
(* without changing it, except at its two ends.                             *)
(***************************************************************************)
EXTENDS CanRxRefines, ListLemmas, FiniteSetTheorems, SequenceTheorems, TLAPS

\* A box is in hand exactly between DetachBox and ReleaseBox.
HeldIsBox == pc \in {"copy", "release"} => held \in Box

TypeInv == TypeOK /\ HeldIsBox

-----------------------------------------------------------------------------
(***************************************************************************)
(* Type correctness.                                                        *)
(***************************************************************************)
\* The interrupt keeps the types, whichever box it finds for the frame.
LEMMA StoreFrameType ==
    ASSUME TypeInv, NEW drops \in Nat, hwfifo # <<>>, StoreFrame(drops)
    PROVE  /\ hwfifo' \in Seq(Nat) /\ uselist' \in Seq(Box) /\ freelist' \in Seq(Box)
           /\ data' \in [Box -> Nat] /\ freenumbers' \in Int
           /\ dropedrcvpkg' \in Nat /\ sem' \in 0..SemMax /\ lost' \subseteq Nat
<1> DEFINE f == Head(hwfifo)
<1>1. hwfifo \in Seq(Nat) /\ f \in Nat /\ Tail(hwfifo) \in Seq(Nat)
  BY HeadTailProperties DEF TypeInv, TypeOK
<1>2. hwfifo' \in Seq(Nat)
  BY <1>1 DEF StoreFrame
<1>3. sem' \in 0..SemMax
  BY RxAssumption DEF TypeInv, TypeOK, StoreFrame, can_rx_call
<1>4. /\ uselist' \in Seq(Box) /\ freelist' \in Seq(Box) /\ data' \in [Box -> Nat]
      /\ freenumbers' \in Int /\ dropedrcvpkg' \in Nat /\ lost' \subseteq Nat
  <2>1. CASE freelist # <<>>
    <3> DEFINE b == Head(freelist)
    <3>1. b \in Box /\ Tail(freelist) \in Seq(Box)
      BY <2>1, HeadTailProperties DEF TypeInv, TypeOK
    <3>2. Append(uselist, b) \in Seq(Box)
      BY <3>1, AppendProperties DEF TypeInv, TypeOK
    <3>3. /\ freelist' = Tail(freelist) /\ uselist' = Append(uselist, b)
          /\ data' = [data EXCEPT ![b] = f] /\ freenumbers' = freenumbers - 1
          /\ dropedrcvpkg' = drops /\ lost' = lost
      BY <2>1 DEF StoreFrame, insert_before
    <3>4. data' \in [Box -> Nat]
      BY <1>1, <3>1, <3>3 DEF TypeInv, TypeOK
    <3> QED
      BY <3>1, <3>2, <3>3, <3>4 DEF TypeInv, TypeOK
  <2>2. CASE freelist = <<>> /\ uselist # <<>>
    <3> DEFINE b == Head(uselist)
    <3>1. b \in Box /\ Tail(uselist) \in Seq(Box)
      BY <2>2, HeadTailProperties DEF TypeInv, TypeOK
    <3>2. Append(Tail(uselist), b) \in Seq(Box)
      BY <3>1, AppendProperties
    <3>3. data[b] \in Nat
      BY <3>1 DEF TypeInv, TypeOK
    <3>4. /\ freelist' = freelist /\ uselist' = Append(Tail(uselist), b)
          /\ data' = [data EXCEPT ![b] = f] /\ freenumbers' = freenumbers
          /\ dropedrcvpkg' = drops + 1 /\ lost' = lost \cup {data[b]}
      BY <2>2 DEF StoreFrame, insert_before
    <3>5. data' \in [Box -> Nat]
      BY <1>1, <3>1, <3>4 DEF TypeInv, TypeOK
    <3>6. freelist' \in Seq(Box) /\ freenumbers' \in Int /\ lost' \subseteq Nat
      BY <3>3, <3>4 DEF TypeInv, TypeOK
    <3>7. dropedrcvpkg' \in Nat
      BY <3>4
    <3> QED
      BY <3>2, <3>4, <3>5, <3>6, <3>7
  <2>3. CASE freelist = <<>> /\ uselist = <<>>
    BY <1>1, <2>3 DEF TypeInv, TypeOK, StoreFrame, fifoVars
  <2> QED BY <2>1, <2>2, <2>3
<1> QED BY <1>2, <1>3, <1>4

\* Every step keeps the types.
LEMMA TypeStep == TypeInv /\ [Next]_vars => TypeInv'
<1> SUFFICES ASSUME TypeInv, [Next]_vars PROVE TypeInv'
  OBVIOUS
<1>1. ASSUME NEW own \in BOOLEAN, Arrive(own) PROVE TypeInv'
  <2> USE <1>1
  <2>1. arrived + 1 \in Nat /\ hwfifo \in Seq(Nat)
    BY DEF TypeInv, TypeOK
  <2>2. hwfifo' \in Seq(Nat) /\ fov' \in BOOLEAN /\ lost' \subseteq Nat
    <3>1. CASE Len(hwfifo) < HwFifoSz
      <4>1. Append(hwfifo, arrived + 1) \in Seq(Nat)
        BY <2>1, AppendProperties
      <4> QED BY <3>1, <4>1 DEF TypeInv, TypeOK, Arrive
    <3>2. CASE ~(Len(hwfifo) < HwFifoSz)
      <4>1. Len(hwfifo) \in 1..Len(hwfifo)
        BY <2>1, <3>2, RxAssumption, LenProperties
      <4>2. hwfifo[Len(hwfifo)] \in Nat
        BY <2>1, <4>1, ElementOfSeq
      <4>3. [hwfifo EXCEPT ![Len(hwfifo)] = arrived + 1] \in Seq(Nat)
        BY <2>1, <4>1, ExceptSeq
      <4> QED BY <3>2, <4>2, <4>3 DEF TypeInv, TypeOK, Arrive
    <3> QED BY <3>1, <3>2
  <2> QED
    BY <2>1, <2>2 DEF TypeInv, TypeOK, HeldIsBox, Arrive, fifoVars, thrVars, histVars
<1>2. CASE IsrReceive
  <2>1. dropedrcvpkg \in Nat /\ hwfifo # <<>> /\ StoreFrame(dropedrcvpkg)
    BY <1>2 DEF IsrReceive, TypeInv, TypeOK
  <2> QED
    BY <1>2, <2>1, StoreFrameType
    DEF TypeInv, TypeOK, HeldIsBox, IsrReceive, thrVars, busVars, histVars
<1>3. CASE IsrOverrun
  <2>1. dropedrcvpkg + 1 \in Nat
    BY DEF TypeInv, TypeOK
  <2>2. CASE fov /\ hwfifo # <<>>
    <3>1. StoreFrame(dropedrcvpkg + 1)
      BY <1>3, <2>2 DEF IsrOverrun
    <3> QED
      BY <1>3, <2>1, <2>2, <3>1, StoreFrameType
      DEF TypeInv, TypeOK, HeldIsBox, IsrOverrun, thrVars, busVars, histVars
  <2>3. CASE ~(fov /\ hwfifo # <<>>)
    BY <1>3, <2>1, <2>3
    DEF TypeInv, TypeOK, HeldIsBox, IsrOverrun, fifoVars, thrVars, busVars, histVars
  <2> QED BY <2>2, <2>3
<1>4. CASE TakeSem
  BY <1>4, RxAssumption
  DEF TypeInv, TypeOK, HeldIsBox, TakeSem, hwVars, fifoVars, busVars, histVars
<1>5. CASE DetachBox
  <2>1. CASE uselist # <<>>
    <3>1. Head(uselist) \in Box /\ Tail(uselist) \in Seq(Box)
      BY <2>1, HeadTailProperties DEF TypeInv, TypeOK
    <3> QED
      BY <1>5, <2>1, <3>1 DEF TypeInv, TypeOK, HeldIsBox, DetachBox, hwVars, busVars
  <2>2. CASE uselist = <<>>
    BY <1>5, <2>2 DEF TypeInv, TypeOK, HeldIsBox, DetachBox, hwVars, busVars
  <2> QED BY <2>1, <2>2
<1>6. CASE CopyBox
  <2>1. data[held] \in Nat
    BY <1>6 DEF TypeInv, TypeOK, CopyBox, HeldIsBox
  <2> QED
    BY <1>6, <2>1
    DEF TypeInv, TypeOK, HeldIsBox, CopyBox, hwVars, fifoVars, busVars, histVars
<1>7. CASE ReleaseBox
  <2>1. Append(freelist, held) \in Seq(Box)
    BY <1>7, AppendProperties DEF TypeInv, TypeOK, HeldIsBox, ReleaseBox
  <2> QED
    BY <1>7, <2>1
    DEF TypeInv, TypeOK, HeldIsBox, ReleaseBox, insert_before, hwVars, busVars, histVars
<1>8. CASE Callback
  <2>1. Append(handled, msg_buff) \in Seq(Nat)
    BY AppendProperties DEF TypeInv, TypeOK
  <2> QED
    BY <1>8, <2>1 DEF TypeInv, TypeOK, HeldIsBox, Callback, hwVars, fifoVars, busVars
<1>9. CASE Main
  BY <1>9 DEF TypeInv, TypeOK, HeldIsBox, BootSteps, Main, MainStep, OpenDevice,
     SetIndicate, SetBaud, SetFilter, StartThread, SetCallback, SetParameter,
     hwVars, fifoVars, busVars, histVars
<1>10. CASE UNCHANGED vars
  BY <1>10 DEF TypeInv, TypeOK, HeldIsBox, vars, hwVars, fifoVars, thrVars, busVars,
     histVars
<1> QED
  BY <1>1, <1>2, <1>3, <1>4, <1>5, <1>6, <1>7, <1>8, <1>9, <1>10
  DEF Next, Bus, Isr, CanThread

\* The initial state is well typed and all boxes are free.
LEMMA TypeInit == Init => TypeInv /\ Len(freelist) = MsgBoxSz
<1> SUFFICES ASSUME Init PROVE TypeInv /\ Len(freelist) = MsgBoxSz
  OBVIOUS
<1>1. freelist = [i \in 1..MsgBoxSz |-> i] /\ MsgBoxSz \in Nat
  BY RxAssumption DEF Init, Box
<1>2. freelist \in Seq(Box) /\ Len(freelist) = MsgBoxSz
  <2>1. \A i \in 1..MsgBoxSz : i \in Box
    BY DEF Box
  <2>2. [i \in 1..MsgBoxSz |-> i] \in Seq(Box)
    BY <1>1, <2>1, IsASeq
  <2>3. Len([i \in 1..MsgBoxSz |-> i]) = MsgBoxSz
    BY <1>1
  <2> QED BY <1>1, <2>2, <2>3
<1>3. <<>> \in Seq(Box) /\ <<>> \in Seq(Nat)
  BY EmptySeq
<1>4. 0 \in 0..SemMax /\ MsgBoxSz \in Int /\ 0 \in Nat
  BY RxAssumption
<1>5. data \in [Box -> Nat]
  BY <1>4 DEF Init, NoFrame
<1>6. HeldIsBox
  BY DEF Init, HeldIsBox
<1>7. TypeOK
  BY <1>2, <1>3, <1>4, <1>5 DEF Init, TypeOK, BootSteps, NoBox, NoFrame
<1> QED
  BY <1>2, <1>6, <1>7 DEF TypeInv

\* Type correctness of the receive path.
THEOREM RxTypeCorrect == Spec => []TypeOK
<1>1. Spec => []TypeInv
  BY TypeInit, TypeStep, PTL DEF Spec
<1>2. TypeInv => TypeOK
  BY DEF TypeInv
<1> QED BY <1>1, <1>2, PTL

-----------------------------------------------------------------------------
(***************************************************************************)
(* Counting.  The boxes are all accounted for; nothing is received before   *)
(* rx_indicate is set; every queued frame has its wakeup; and every wakeup  *)
(* in excess of the queued frames is paid for by a counted drop.            *)
(***************************************************************************)
InHand == IF pc \in {"copy", "release"} THEN 1 ELSE 0

BoxCount == Len(uselist) + Len(freelist) + InHand = MsgBoxSz
QuietBeforeBaud == ~Listening => hwfifo = <<>> /\ uselist = <<>>
WakeupsPaid == Wakeups + stale <= Len(uselist) + dropedrcvpkg

CountInv == BoxCount /\ QuietBeforeBaud /\ NoLostWakeup /\ WakeupsPaid
RxInv == TypeInv /\ CountInv

\* The types of the numbers that CountInv is about.
LEMMA CountTypes ==
    ASSUME TypeInv
    PROVE  /\ Len(uselist) \in Nat /\ Len(freelist) \in Nat /\ Len(hwfifo) \in Nat
           /\ sem \in Nat /\ sem <= SemMax /\ stale \in Nat /\ dropedrcvpkg \in Nat
           /\ MsgBoxSz \in Nat /\ MsgBoxSz >= 2 /\ SemMax \in Nat /\ SemMax >= MsgBoxSz
<1>1. Len(uselist) \in Nat /\ Len(freelist) \in Nat /\ Len(hwfifo) \in Nat
  BY LenProperties DEF TypeInv, TypeOK
<1>2. sem \in Nat /\ sem <= SemMax /\ stale \in Nat /\ dropedrcvpkg \in Nat
  BY RxAssumption DEF TypeInv, TypeOK
<1> QED BY <1>1, <1>2, RxAssumption

\* A sequence with no element is empty.
LEMMA ZeroLen ==
    ASSUME NEW S, NEW s \in Seq(S)
    PROVE  s = <<>> <=> Len(s) = 0
BY EmptySeq, LenProperties

\* The interrupt keeps the counts: the one place where the semaphore could
\* saturate, and a frame go without a wakeup, has too few boxes for it.
LEMMA StoreFrameCount ==
    ASSUME RxInv, NEW drops \in Nat, drops >= dropedrcvpkg, hwfifo # <<>>,
           StoreFrame(drops), UNCHANGED <<pc, stale, boot>>
    PROVE  CountInv'
<1> DEFINE r == IF pc = "read" THEN 1 ELSE 0
<1>1. Listening /\ IndicateSet /\ r \in Nat /\ InHand \in Nat
  BY DEF RxInv, CountInv, QuietBeforeBaud, Listening, IndicateSet, InHand
<1>2. /\ Len(uselist) + Len(freelist) + InHand = MsgBoxSz
      /\ Len(uselist) <= sem + r
      /\ sem + r + stale <= Len(uselist) + dropedrcvpkg
  BY DEF RxInv, CountInv, BoxCount, NoLostWakeup, WakeupsPaid, Wakeups
<1>3. InHand' = InHand /\ Wakeups' = sem' + r /\ QuietBeforeBaud'
  BY <1>1 DEF InHand, Wakeups, QuietBeforeBaud, Listening
<1>4. uselist \in Seq(Box) /\ freelist \in Seq(Box)
  BY DEF RxInv, TypeInv, TypeOK
<1>t. /\ Len(uselist) \in Nat /\ Len(freelist) \in Nat
      /\ sem \in Nat /\ sem <= SemMax /\ stale \in Nat /\ dropedrcvpkg \in Nat
      /\ MsgBoxSz \in Nat /\ MsgBoxSz >= 2 /\ SemMax \in Nat /\ SemMax >= MsgBoxSz
  BY CountTypes DEF RxInv
<1> HIDE DEF r
<1>5. CASE freelist # <<>>
  <2>1. freelist' = Tail(freelist) /\ uselist' = Append(uselist, Head(freelist))
        /\ dropedrcvpkg' = drops
    BY <1>5 DEF StoreFrame, insert_before
  <2>2. Len(freelist') = Len(freelist) - 1 /\ Head(freelist) \in Box
    BY <1>4, <1>5, <2>1, HeadTailProperties
  <2>3. Len(uselist') = Len(uselist) + 1
    BY <1>4, <2>1, <2>2, AppendProperties
  <2>4. uselist' # <<>>
    BY <1>4, <2>1, <2>2, AppendProperties
  <2>5. sem' = IF sem < SemMax THEN sem + 1 ELSE sem
    BY <1>1, <2>4 DEF StoreFrame, can_rx_call
  <2>6. Len(freelist) # 0
    BY <1>4, <1>5, ZeroLen
  <2>7. /\ Len(uselist') + Len(freelist') + InHand = MsgBoxSz
        /\ Len(uselist') <= sem' + r
        /\ sem' + r + stale <= Len(uselist') + dropedrcvpkg'
    BY <1>1, <1>2, <2>1, <2>2, <2>3, <2>5, <2>6, <1>t
  <2> QED
    BY <1>3, <2>7 DEF CountInv, BoxCount, NoLostWakeup, WakeupsPaid
<1>6. CASE freelist = <<>>
  <2>1. Len(freelist) = 0
    BY <1>4, <1>6, ZeroLen
  <2>2. Len(uselist) # 0
    BY <1>1, <1>2, <2>1, CountTypes DEF RxInv, InHand
  <2>3. uselist # <<>>
    BY <1>4, <2>2, ZeroLen
  <2>4. freelist' = freelist /\ uselist' = Append(Tail(uselist), Head(uselist))
        /\ dropedrcvpkg' = drops + 1
    BY <1>6, <2>3 DEF StoreFrame, insert_before
  <2>5. /\ Tail(uselist) \in Seq(Box) /\ Len(Tail(uselist)) = Len(uselist) - 1
        /\ Head(uselist) \in Box
    BY <1>4, <2>3, HeadTailProperties
  <2>6. Len(uselist') = Len(uselist)
    BY <2>4, <2>5, AppendProperties, CountTypes DEF RxInv
  <2>7. sem' = sem + 1 \/ sem' = sem
    BY DEF StoreFrame, can_rx_call
  <2>n. dropedrcvpkg' = drops + 1 /\ Len(freelist') = Len(freelist)
    BY <2>4
  <2>8. /\ Len(uselist') + Len(freelist') + InHand = MsgBoxSz
        /\ Len(uselist') <= sem' + r
        /\ sem' + r + stale <= Len(uselist') + dropedrcvpkg'
    BY <1>1, <1>2, <2>6, <2>7, <2>n, <1>t
  <2> QED
    BY <1>3, <2>8 DEF CountInv, BoxCount, NoLostWakeup, WakeupsPaid
<1> QED BY <1>5, <1>6

\* Every step keeps the counts.
LEMMA CountStep == RxInv /\ [Next]_vars => CountInv'
<1> SUFFICES ASSUME RxInv, [Next]_vars PROVE CountInv'
  OBVIOUS
<1> USE DEF CountInv, BoxCount, NoLostWakeup, WakeupsPaid, QuietBeforeBaud
<1>t. /\ Len(uselist) \in Nat /\ Len(freelist) \in Nat
      /\ sem \in Nat /\ sem <= SemMax /\ stale \in Nat /\ dropedrcvpkg \in Nat
      /\ MsgBoxSz \in Nat /\ MsgBoxSz >= 2 /\ SemMax \in Nat /\ SemMax >= MsgBoxSz
  BY CountTypes DEF RxInv
<1>s. uselist \in Seq(Box) /\ freelist \in Seq(Box)
  BY DEF RxInv, TypeInv, TypeOK
<1>1. ASSUME NEW own \in BOOLEAN, Arrive(own) PROVE CountInv'
  BY <1>1 DEF RxInv, Arrive, Listening, Wakeups, InHand, fifoVars, thrVars, histVars
<1>2. CASE IsrReceive
  <2>1. /\ dropedrcvpkg >= dropedrcvpkg /\ hwfifo # <<>> /\ StoreFrame(dropedrcvpkg)
        /\ UNCHANGED <<pc, stale, boot>>
    BY <1>2, <1>t DEF IsrReceive, thrVars, histVars
  <2> QED BY <1>t, <2>1, StoreFrameCount
<1>3. CASE IsrOverrun
  <2>1. UNCHANGED <<pc, stale, boot>>
    BY <1>3 DEF IsrOverrun, thrVars, histVars
  <2>2. CASE fov /\ hwfifo # <<>>
    <3>1. dropedrcvpkg + 1 \in Nat /\ dropedrcvpkg + 1 >= dropedrcvpkg
      BY <1>t
    <3>2. StoreFrame(dropedrcvpkg + 1)
      BY <1>3, <2>2 DEF IsrOverrun
    <3> QED BY <2>1, <2>2, <3>1, <3>2, StoreFrameCount
  <2>3. CASE ~(fov /\ hwfifo # <<>>)
    <3>1. UNCHANGED <<hwfifo, uselist, freelist, sem>>
      BY <1>3, <2>3 DEF IsrOverrun, fifoVars
    <3>2. dropedrcvpkg' \in {dropedrcvpkg, dropedrcvpkg + 1}
      BY <1>3, <2>3 DEF IsrOverrun, fifoVars
    <3> QED BY <1>t, <2>1, <3>1, <3>2 DEF RxInv, Listening, Wakeups, InHand
  <2> QED BY <2>2, <2>3
<1>4. CASE TakeSem
  <2>1. /\ pc = "take" /\ pc' = "read" /\ sem' = sem - 1
        /\ UNCHANGED <<uselist, freelist, hwfifo, boot, stale, dropedrcvpkg>>
    BY <1>4 DEF TakeSem, hwVars, fifoVars, histVars
  <2> QED BY <1>t, <2>1 DEF RxInv, Listening, Wakeups, InHand
<1>5. CASE DetachBox
  <2>1. pc = "read" /\ UNCHANGED <<freelist, hwfifo, boot, sem, dropedrcvpkg>>
    BY <1>5 DEF DetachBox, hwVars
  <2>2. CASE uselist # <<>>
    <3>1. pc' = "copy" /\ uselist' = Tail(uselist) /\ stale' = stale
      BY <1>5, <2>2 DEF DetachBox
    <3>2. Len(uselist') = Len(uselist) - 1
      BY <1>s, <2>2, <3>1, HeadTailProperties
    <3>3. QuietBeforeBaud'
      BY <2>1, <2>2 DEF RxInv, Listening
    <3>4. InHand = 0 /\ InHand' = 1 /\ Wakeups = sem + 1 /\ Wakeups' = sem
      BY <2>1, <3>1, <1>t DEF InHand, Wakeups
    <3>5. stale' = stale /\ sem' = sem /\ dropedrcvpkg' = dropedrcvpkg
          /\ Len(freelist') = Len(freelist)
      BY <2>1, <3>1
    <3>6. BoxCount' /\ NoLostWakeup' /\ WakeupsPaid'
      BY <1>t, <3>2, <3>4, <3>5 DEF RxInv
    <3> QED BY <3>3, <3>6
  <2>3. CASE uselist = <<>>
    <3>1. pc' = "callback" /\ uselist' = uselist /\ stale' = stale + 1
      BY <1>5, <2>3 DEF DetachBox
    <3>2. Len(uselist) = 0
      BY <1>s, <2>3, ZeroLen
    <3>3. QuietBeforeBaud'
      BY <2>1, <3>1 DEF RxInv, Listening
    <3>4. InHand = 0 /\ InHand' = 0 /\ Wakeups = sem + 1 /\ Wakeups' = sem
      BY <2>1, <3>1, <1>t DEF InHand, Wakeups
    <3> QED BY <1>t, <2>1, <3>1, <3>2, <3>3, <3>4 DEF RxInv
  <2> QED BY <2>2, <2>3
<1>6. CASE CopyBox
  BY <1>6 DEF RxInv, CopyBox, Listening, Wakeups, InHand, hwVars, fifoVars, histVars
<1>7. CASE ReleaseBox
  <2>1. /\ pc = "release" /\ pc' = "callback" /\ freelist' = Append(freelist, held)
        /\ UNCHANGED <<uselist, hwfifo, boot, sem, stale, dropedrcvpkg>>
    BY <1>7 DEF ReleaseBox, insert_before, hwVars, histVars
  <2>2. held \in Box
    BY <2>1 DEF RxInv, TypeInv, HeldIsBox
  <2>3. Len(freelist') = Len(freelist) + 1
    BY <1>s, <2>1, <2>2, AppendProperties
  <2>4. InHand = 1 /\ InHand' = 0 /\ Wakeups' = Wakeups
    BY <2>1 DEF InHand, Wakeups
  <2>5. QuietBeforeBaud'
    BY <2>1 DEF RxInv, Listening
  <2> QED BY <1>t, <2>1, <2>3, <2>4, <2>5 DEF RxInv
<1>8. CASE Callback
  BY <1>8 DEF RxInv, Callback, Listening, Wakeups, InHand, hwVars, fifoVars, histVars
<1>9. CASE Main
  <2>1. UNCHANGED <<hwfifo, uselist, freelist, sem, stale, dropedrcvpkg>>
    BY <1>9 DEF Main, MainStep, OpenDevice, SetIndicate, SetBaud, SetFilter,
       StartThread, SetCallback, SetParameter, hwVars, fifoVars, histVars
  <2>2. InHand' = InHand /\ Wakeups' = Wakeups
    BY <1>9, <2>1 DEF Main, MainStep, OpenDevice, SetIndicate, SetBaud, SetFilter,
       StartThread, SetCallback, SetParameter, CanBlocked, InHand, Wakeups
  <2>3. Listening => Listening'
    BY <1>9 DEF Main, MainStep, OpenDevice, SetIndicate, SetBaud, SetFilter,
       StartThread, SetCallback, SetParameter, Listening
  <2> QED BY <2>1, <2>2, <2>3 DEF RxInv
<1>10. CASE UNCHANGED vars
  BY <1>10 DEF RxInv, Listening, Wakeups, InHand, vars, hwVars, fifoVars, thrVars,
     histVars
<1> QED
  BY <1>1, <1>2, <1>3, <1>4, <1>5, <1>6, <1>7, <1>8, <1>9, <1>10
  DEF Next, Bus, Isr, CanThread

\* The inductive invariant holds initially, with all boxes free.
LEMMA CountInit == Init => RxInv
<1> SUFFICES ASSUME Init PROVE RxInv
  OBVIOUS
<1>1. TypeInv /\ Len(freelist) = MsgBoxSz
  BY TypeInit
<1>2. uselist = <<>> /\ Len(uselist) = 0 /\ hwfifo = <<>>
  BY DEF Init
<1>3. InHand = 0 /\ Wakeups = 0 /\ stale = 0 /\ dropedrcvpkg = 0
  BY DEF Init, InHand, Wakeups
<1> QED
  BY <1>1, <1>2, <1>3, RxAssumption
  DEF RxInv, CountInv, BoxCount, QuietBeforeBaud, NoLostWakeup, WakeupsPaid

\* RxInv is an invariant.
LEMMA RxInvariance == Spec => []RxInv
<1>1. RxInv /\ [Next]_vars => RxInv'
  BY TypeStep, CountStep DEF RxInv
<1> QED BY <1>1, CountInit, PTL DEF Spec

-----------------------------------------------------------------------------
\* The "can" thread never blocks while a frame waits in uselist, for every
\* number of boxes that the semaphore can count (rt_hw_can_isr, can_rx_call).
THEOREM WakeupsSuffice == Spec => []NoLostWakeup
<1>1. RxInv => NoLostWakeup
  BY DEF RxInv, CountInv
<1> QED BY <1>1, RxInvariance, PTL

\* A frame is handled again at most once for each frame counted as dropped
\* (thread_can_rx goes on when rt_device_read found nothing).
THEOREM StaleFramesBounded == Spec => []DuplicatesBounded
<1>1. RxInv => DuplicatesBounded
  <2> SUFFICES ASSUME RxInv PROVE DuplicatesBounded
    OBVIOUS
  <2>1. Len(uselist) <= Wakeups /\ Wakeups + stale <= Len(uselist) + dropedrcvpkg
    BY DEF RxInv, CountInv, NoLostWakeup, WakeupsPaid
  <2>2. Wakeups \in Nat
    BY CountTypes DEF RxInv, Wakeups
  <2> QED BY <2>1, <2>2, CountTypes DEF RxInv, DuplicatesBounded
<1> QED BY <1>1, RxInvariance, PTL

\* With two boxes or more the interrupt always finds one, whatever the thread
\* holds: listmsg is never NULL in rt_hw_can_isr.
THEOREM InterruptFindsBox == Spec => []IsrFindsBox
<1>1. RxInv => IsrFindsBox
  <2> SUFFICES ASSUME RxInv, freelist = <<>>, uselist = <<>> PROVE FALSE
    BY DEF IsrFindsBox
  <2>1. Len(freelist) = 0 /\ Len(uselist) = 0
    OBVIOUS
  <2> QED
    BY <2>1, RxAssumption DEF RxInv, CountInv, BoxCount, InHand
<1> QED BY <1>1, RxInvariance, PTL
-----------------------------------------------------------------------------
\* The box in hand, as a set.
Hand == IF pc \in {"copy", "release"} THEN {held} ELSE {}

BoxInv == RxInv /\ BoxesConserved

-----------------------------------------------------------------------------
(***************************************************************************)
(* The boxes are conserved.                                                 *)
(***************************************************************************)
\* The first box of a list is taken out of it.
LEMMA PopBox ==
    ASSUME NEW s \in Seq(Box), s # <<>>, Distinct(s)
    PROVE  /\ Head(s) \in Elems(s) /\ Elems(Tail(s)) = Elems(s) \ {Head(s)}
           /\ Distinct(Tail(s)) /\ Tail(s) \in Seq(Box) /\ Len(Tail(s)) = Len(s) - 1
BY PopDistinct DEF Elems, Distinct

\* A box that is not in a list is put at its end.
LEMMA PushBox ==
    ASSUME NEW s \in Seq(Box), NEW b \in Box, b \notin Elems(s), Distinct(s)
    PROVE  /\ Elems(Append(s, b)) = Elems(s) \cup {b} /\ Distinct(Append(s, b))
           /\ Append(s, b) \in Seq(Box) /\ Len(Append(s, b)) = Len(s) + 1
<1>1. b \notin {s[i] : i \in DOMAIN s} /\ \A i, j \in DOMAIN s : s[i] = s[j] => i = j
  BY DEF Elems, Distinct
<1> DEFINE a == Append(s, b)
<1>2. /\ {a[i] : i \in DOMAIN a} = {s[i] : i \in DOMAIN s} \cup {b}
      /\ \A i, j \in DOMAIN a : a[i] = a[j] => i = j
      /\ a \in Seq(Box) /\ Len(a) = Len(s) + 1
  BY <1>1, PushDistinct
<1> HIDE DEF a
<1>3. Elems(a) = Elems(s) \cup {b} /\ Distinct(a)
  BY <1>2 DEF Elems, Distinct
<1> QED BY <1>2, <1>3 DEF a

\* The lists hold boxes.
LEMMA ListTypes ==
    ASSUME RxInv
    PROVE  /\ uselist \in Seq(Box) /\ freelist \in Seq(Box) /\ hwfifo \in Seq(Nat)
           /\ Elems(uselist) \subseteq Box /\ Elems(freelist) \subseteq Box
           /\ Len(uselist) \in Nat /\ Len(freelist) \in Nat /\ Len(hwfifo) \in Nat
           /\ data \in [Box -> Nat]
<1>1. /\ uselist \in Seq(Box) /\ freelist \in Seq(Box) /\ hwfifo \in Seq(Nat)
      /\ data \in [Box -> Nat]
  BY DEF RxInv, TypeInv, TypeOK
<1> QED BY <1>1, LenProperties, ElementOfSeq DEF Elems

\* The interrupt finds a free box, or else the oldest one in use.
LEMMA StoreCases ==
    ASSUME RxInv, NEW drops, StoreFrame(drops)
    PROVE  \/ /\ freelist # <<>>
              /\ freelist' = Tail(freelist) /\ freenumbers' = freenumbers - 1
              /\ uselist' = Append(uselist, Head(freelist))
              /\ data' = [data EXCEPT ![Head(freelist)] = Head(hwfifo)]
              /\ dropedrcvpkg' = drops /\ lost' = lost
           \/ /\ freelist = <<>> /\ uselist # <<>>
              /\ freelist' = freelist /\ freenumbers' = freenumbers
              /\ uselist' = Append(Tail(uselist), Head(uselist))
              /\ data' = [data EXCEPT ![Head(uselist)] = Head(hwfifo)]
              /\ dropedrcvpkg' = drops + 1 /\ lost' = lost \cup {data[Head(uselist)]}
<1>1. CASE freelist # <<>>
  BY <1>1 DEF StoreFrame, insert_before
<1>2. CASE freelist = <<>>
  <2>1. uselist # <<>>
    <3> SUFFICES ASSUME uselist = <<>> PROVE FALSE
      OBVIOUS
    <3>1. Len(freelist) = 0 /\ Len(uselist) = 0
      BY <1>2
    <3> QED BY <3>1, RxAssumption DEF RxInv, CountInv, BoxCount, InHand
  <2> QED BY <1>2, <2>1 DEF StoreFrame, insert_before
<1> QED BY <1>1, <1>2

\* A box goes from freelist to the end of uselist, or from its front to its end.
LEMMA StoreConserves ==
    ASSUME BoxInv, NEW drops, StoreFrame(drops), UNCHANGED <<pc, held>>
    PROVE  BoxesConserved'
<1>1. /\ uselist \in Seq(Box) /\ freelist \in Seq(Box)
      /\ Elems(uselist) \subseteq Box /\ Elems(freelist) \subseteq Box
      /\ Len(freelist) \in Nat
  BY ListTypes DEF BoxInv
<1>2. /\ freenumbers = Len(freelist) /\ Distinct(uselist) /\ Distinct(freelist)
      /\ Elems(uselist) \cap Elems(freelist) = {}
      /\ Elems(uselist) \cup Elems(freelist) = Box \ Hand
      /\ (held # NoBox) <=> (pc \in {"copy", "release"})
      /\ Hand' = Hand
  BY DEF BoxInv, BoxesConserved, Hand
<1>3. CASE freelist # <<>>
  <2> DEFINE b == Head(freelist)
  <2>1. /\ freelist' = Tail(freelist) /\ freenumbers' = freenumbers - 1
        /\ uselist' = Append(uselist, b)
    BY <1>3, StoreCases DEF BoxInv
  <2>2. /\ b \in Elems(freelist) /\ Elems(freelist') = Elems(freelist) \ {b}
        /\ Distinct(freelist') /\ Len(freelist') = Len(freelist) - 1
    BY <1>1, <1>2, <1>3, <2>1, PopBox
  <2> HIDE DEF b
  <2>3. Elems(uselist') = Elems(uselist) \cup {b} /\ Distinct(uselist')
    BY <1>1, <1>2, <2>1, <2>2, PushBox
  <2>4. /\ Elems(uselist') \cap Elems(freelist') = {}
        /\ Elems(uselist') \cup Elems(freelist') = Box \ Hand'
    BY <1>2, <2>2, <2>3
  <2> QED BY <1>1, <1>2, <2>1, <2>2, <2>3, <2>4 DEF BoxesConserved, Hand
<1>4. CASE freelist = <<>>
  <2> DEFINE b == Head(uselist)
             t == Tail(uselist)
  <2>1. /\ freelist' = freelist /\ freenumbers' = freenumbers
        /\ uselist # <<>> /\ uselist' = Append(t, b)
    BY <1>4, StoreCases DEF BoxInv
  <2>2. /\ b \in Elems(uselist) /\ Elems(t) = Elems(uselist) \ {b}
        /\ Distinct(t) /\ t \in Seq(Box)
    BY <1>1, <1>2, <2>1, PopBox
  <2> HIDE DEF b, t
  <2>3. Elems(uselist') = Elems(t) \cup {b} /\ Distinct(uselist')
    BY <1>1, <2>1, <2>2, PushBox
  <2>4. Elems(uselist') = Elems(uselist)
    BY <2>2, <2>3
  <2> QED BY <1>2, <2>1, <2>3, <2>4 DEF BoxesConserved, Hand
<1> QED BY <1>3, <1>4

\* Every step conserves the boxes.
LEMMA BoxStep == BoxInv /\ [Next]_vars => BoxesConserved'
<1> SUFFICES ASSUME BoxInv, [Next]_vars PROVE BoxesConserved'
  OBVIOUS
<1>t. /\ uselist \in Seq(Box) /\ freelist \in Seq(Box)
      /\ Elems(uselist) \subseteq Box /\ Elems(freelist) \subseteq Box
      /\ Len(freelist) \in Nat
  BY ListTypes DEF BoxInv
<1>i. /\ freenumbers = Len(freelist) /\ Distinct(uselist) /\ Distinct(freelist)
      /\ Elems(uselist) \cap Elems(freelist) = {}
      /\ Elems(uselist) \cup Elems(freelist) = Box \ Hand
      /\ (held # NoBox) <=> (pc \in {"copy", "release"})
  BY DEF BoxInv, BoxesConserved, Hand
<1>1. ASSUME NEW own \in BOOLEAN, Arrive(own) PROVE BoxesConserved'
  BY <1>1 DEF Arrive, fifoVars, thrVars, BoxInv, BoxesConserved
<1>2. CASE IsrReceive
  BY <1>2, StoreConserves DEF IsrReceive, thrVars
<1>3. CASE IsrOverrun
  <2>1. UNCHANGED <<pc, held>>
    BY <1>3 DEF IsrOverrun, thrVars
  <2>2. CASE fov /\ hwfifo # <<>>
    BY <1>3, <2>1, <2>2, StoreConserves DEF IsrOverrun
  <2>3. CASE ~(fov /\ hwfifo # <<>>)
    BY <1>3, <2>1, <2>3 DEF IsrOverrun, fifoVars, BoxInv, BoxesConserved
  <2> QED BY <2>2, <2>3
<1>4. CASE TakeSem
  BY <1>4 DEF TakeSem, fifoVars, BoxInv, BoxesConserved
<1>5. CASE DetachBox
  <2>1. pc = "read" /\ UNCHANGED <<freelist, freenumbers>>
    BY <1>5 DEF DetachBox
  <2>2. CASE uselist # <<>>
    <3> DEFINE b == Head(uselist)
    <3>1. pc' = "copy" /\ uselist' = Tail(uselist) /\ held' = b
      BY <1>5, <2>2 DEF DetachBox
    <3>2. /\ b \in Elems(uselist) /\ Elems(uselist') = Elems(uselist) \ {b}
          /\ Distinct(uselist')
      BY <1>t, <1>i, <2>2, <3>1, PopBox
    <3> HIDE DEF b
    <3>3. b # NoBox /\ Hand = {} /\ Hand' = {b}
      BY <1>t, <2>1, <3>1, <3>2 DEF Box, NoBox, Hand
    <3>4. /\ Elems(uselist') \cap Elems(freelist') = {}
          /\ Elems(uselist') \cup Elems(freelist') = Box \ Hand'
      BY <1>i, <2>1, <3>2, <3>3
    <3> QED BY <1>i, <2>1, <3>1, <3>2, <3>3, <3>4 DEF BoxesConserved, Hand
  <2>3. CASE uselist = <<>>
    BY <1>5, <2>1, <2>3 DEF DetachBox, BoxInv, BoxesConserved
  <2> QED BY <2>2, <2>3
<1>6. CASE CopyBox
  BY <1>6 DEF CopyBox, fifoVars, BoxInv, BoxesConserved
<1>7. CASE ReleaseBox
  <2>1. /\ pc = "release" /\ pc' = "callback" /\ held' = NoBox
        /\ freelist' = Append(freelist, held) /\ freenumbers' = freenumbers + 1
        /\ uselist' = uselist
    BY <1>7 DEF ReleaseBox, insert_before
  <2>2. held \in Box /\ Hand = {held} /\ Hand' = {}
    BY <2>1 DEF BoxInv, RxInv, TypeInv, HeldIsBox, Hand
  <2>3. held \notin Elems(freelist) /\ held \notin Elems(uselist)
    BY <1>i, <2>2
  <2>4. /\ Elems(freelist') = Elems(freelist) \cup {held} /\ Distinct(freelist')
        /\ Len(freelist') = Len(freelist) + 1
    BY <1>t, <1>i, <2>1, <2>2, <2>3, PushBox
  <2>5. /\ Elems(uselist') \cap Elems(freelist') = {}
        /\ Elems(uselist') \cup Elems(freelist') = Box \ Hand'
    BY <1>i, <2>1, <2>2, <2>3, <2>4
  <2> QED BY <1>i, <2>1, <2>2, <2>4, <2>5 DEF BoxesConserved, Hand
<1>8. CASE Callback
  BY <1>8 DEF Callback, fifoVars, BoxInv, BoxesConserved
<1>9. CASE Main
  <2>1. UNCHANGED <<uselist, freelist, freenumbers, held>>
    BY <1>9 DEF Main, MainStep, OpenDevice, SetIndicate, SetBaud, SetFilter,
       StartThread, SetCallback, SetParameter, fifoVars
  <2>2. pc \notin {"copy", "release"} /\ pc' \notin {"copy", "release"}
    BY <1>9 DEF Main, MainStep, OpenDevice, SetIndicate, SetBaud, SetFilter,
       StartThread, SetCallback, SetParameter, CanBlocked
  <2> QED BY <2>1, <2>2 DEF BoxInv, BoxesConserved
<1>10. CASE UNCHANGED vars
  BY <1>10 DEF vars, fifoVars, thrVars, BoxInv, BoxesConserved
<1> QED
  BY <1>1, <1>2, <1>3, <1>4, <1>5, <1>6, <1>7, <1>8, <1>9, <1>10
  DEF Next, Bus, Isr, CanThread

\* Initially every box is free.
LEMMA BoxInit == Init => BoxesConserved
<1> SUFFICES ASSUME Init PROVE BoxesConserved
  OBVIOUS
<1>1. Len(freelist) = MsgBoxSz /\ freelist = [i \in Box |-> i]
  BY TypeInit DEF Init
<1>2. DOMAIN freelist = Box /\ \A i \in Box : freelist[i] = i
  BY <1>1
<1>3. Elems(freelist) = Box /\ Distinct(freelist)
  BY <1>2 DEF Elems, Distinct
<1>4. uselist = <<>> /\ freenumbers = MsgBoxSz /\ pc = "none" /\ held = NoBox
  BY DEF Init
<1>5. Elems(uselist) = {} /\ Distinct(uselist)
  BY <1>4 DEF Elems, Distinct
<1> QED BY <1>1, <1>3, <1>4, <1>5 DEF BoxesConserved

\* RxInv and the conservation of the boxes hold in every state.
LEMMA BoxInvariance == Spec => []BoxInv
<1>1. Init => BoxInv
  BY CountInit, BoxInit DEF BoxInv
<1>2. BoxInv /\ [Next]_vars => BoxInv'
  BY TypeStep, CountStep, BoxStep DEF BoxInv, RxInv
<1> QED BY <1>1, <1>2, PTL DEF Spec

\* No box of the receive FIFO is leaked or shared, for every number of boxes
\* (rt_hw_can_isr and the two critical sections of _can_int_rx).
THEOREM RxBoxesConserved == Spec => []BoxesConserved
<1>1. BoxInv => BoxesConserved
  BY DEF BoxInv
<1> QED BY <1>1, BoxInvariance, PTL

-----------------------------------------------------------------------------
(***************************************************************************)
(* Delivery.  Frames are numbered as they arrive, so the order of delivery  *)
(* is the order of the numbers.  The frame in hand is older than those in   *)
(* the pipe and newer than those delivered; every frame that has arrived is *)
(* delivered, lost, in hand or in the pipe.                                 *)
(***************************************************************************)
Pipe == [i \in 1..(Len(uselist) + Len(hwfifo)) |->
            IF i <= Len(uselist) THEN data[uselist[i]] ELSE hwfifo[i - Len(uselist)]]
Piped == Elems(Pipe)

Increasing(p) == \A i, j \in DOMAIN p : i < j => p[i] < p[j]

\* The frame that the thread has in hand and has not delivered yet.
Done      == Elems(handled) \cup ignored
Fresh     == pc \in {"copy", "release"} \/ (pc = "callback" /\ msg_buff \notin Done)
HandFrame == IF pc = "copy" THEN data[held] ELSE msg_buff
Pending   == Piped \cup (IF Fresh THEN {HandFrame} ELSE {})

\* Frames are delivered in the order of their arrival.
InOrder ==
    /\ Increasing(Pipe)
    /\ Fresh => \A x \in Piped : HandFrame < x
    /\ \A c \in Done, x \in Pending : c < x

\* Each frame that has arrived is delivered, lost or pending.
Partition ==
    /\ 1..arrived = Done \cup lost \cup Pending
    /\ lost \cap Done = {} /\ lost \cap Pending = {}

\* The thread starts with nothing delivered and an empty buffer.
ThreadStart ==
    /\ boot \in {"closed", "opened", "indicated", "baud", "filtered"} => pc = "none"
    /\ pc = "none" => Done = {} /\ msg_buff = NoFrame

\* msg_buff keeps the latest frame delivered, until the next is copied to it.
LatestKept ==
    pc # "release" /\ ~(pc = "callback" /\ msg_buff \notin Done) =>
        \/ msg_buff = NoFrame /\ Done = {}
        \/ msg_buff \in Done /\ \A c \in Done : c <= msg_buff

\* A wakeup without a frame comes only after a frame that was detached before:
\* never while msg_buff is still empty, nor, once the callback is bound, while
\* it holds a frame for another device.
Unfit == msg_buff = NoFrame \/ (boot = "bound" /\ msg_buff \in foreign)
NoEarlyRepeat ==
    pc \in {"none", "take", "read"} /\ Unfit => (uselist = <<>> => Wakeups = 0)

\* Drops are counted, and each counted drop has lost a frame.
FovBit == IF fov THEN 1 ELSE 0
DropsCounted ==
    /\ IsFiniteSet(lost)
    /\ dropedrcvpkg + FovBit <= Cardinality(lost)
    /\ lost # {} => dropedrcvpkg + FovBit > 0

\* Without a wakeup in vain, other than the one in hand, nothing was repeated.
Again == IF AgainInHand THEN 1 ELSE 0
OnceEach == Again <= stale /\ (stale = Again => Distinct(handled))

\* No frame for another device is under way once the callback is bound.
ForeignGone ==
    /\ foreign \subseteq 1..arrived
    /\ boot = "bound" /\ pc # "none" =>
          Pending \cap foreign = {} /\ (pc = "callback" => msg_buff \notin foreign)
    /\ NoForeignFrameHandled

Delivered ==
    /\ InOrder /\ Partition /\ ThreadStart /\ LatestKept /\ NoEarlyRepeat
    /\ DropsCounted /\ OnceEach /\ ForeignGone

DeliveryInv == BoxInv /\ Delivered

\* p is a list of n frames; q is p without its first frame, with one more frame
\* at its end, or with its last frame replaced.
IsPipe(p, n)      == n \in Nat /\ DOMAIN p = 1..n /\ \A i \in 1..n : p[i] \in Nat
Advanced(p, q, n) == n > 0 /\ DOMAIN q = 1..(n - 1) /\ \A i \in 1..(n - 1) : q[i] = p[i + 1]
Extended(p, q, n, e) ==
    DOMAIN q = 1..(n + 1) /\ q[n + 1] = e /\ \A i \in 1..n : q[i] = p[i]
Replaced(p, q, n, e) ==
    n > 0 /\ DOMAIN q = 1..n /\ q[n] = e /\ \A i \in 1..(n - 1) : q[i] = p[i]

\* A pipe that loses its first frame.
LEMMA IncAdvance ==
    ASSUME NEW n, NEW p, NEW q, IsPipe(p, n), Increasing(p), Advanced(p, q, n)
    PROVE  /\ Increasing(q) /\ Elems(q) = Elems(p) \ {p[1]} /\ p[1] \in Elems(p)
           /\ \A x \in Elems(q) : p[1] < x
<1> n \in Nat /\ n > 0 /\ DOMAIN p = 1..n /\ DOMAIN q = 1..(n - 1)
  BY DEF IsPipe, Advanced
<1> (\A i \in 1..n : p[i] \in Nat) /\ (\A i \in 1..(n - 1) : q[i] = p[i + 1])
  BY DEF IsPipe, Advanced
<1>1. \A i \in 1..(n - 1) : i + 1 \in 1..n /\ 1 < i + 1
  OBVIOUS
<1>2. \A k \in 1..n : k = 1 \/ (k - 1 \in 1..(n - 1) /\ (k - 1) + 1 = k)
  OBVIOUS
<1>3. 1 \in 1..n
  OBVIOUS
<1>4. \A i, j \in 1..n : i < j => p[i] < p[j]
  BY DEF Increasing
<1>5. \A i \in 1..(n - 1) : p[1] < q[i] /\ q[i] # p[1]
  <2> SUFFICES ASSUME NEW i \in 1..(n - 1) PROVE p[1] < q[i] /\ q[i] # p[1]
    OBVIOUS
  <2>1. i + 1 \in 1..n /\ q[i] = p[i + 1] /\ p[1] < p[i + 1]
    BY <1>1, <1>3, <1>4
  <2>2. p[1] \in Nat /\ p[i + 1] \in Nat
    BY <1>3, <2>1
  <2> QED BY <2>1, <2>2
<1>6. Increasing(q)
  <2> SUFFICES ASSUME NEW i \in 1..(n - 1), NEW j \in 1..(n - 1), i < j
               PROVE  q[i] < q[j]
    BY DEF Increasing
  <2>1. i + 1 \in 1..n /\ j + 1 \in 1..n /\ i + 1 < j + 1
    OBVIOUS
  <2> QED BY <1>4, <2>1
<1>e. Elems(p) = {p[i] : i \in 1..n} /\ Elems(q) = {q[i] : i \in 1..(n - 1)}
  BY DEF Elems
<1>7. Elems(q) \subseteq Elems(p) \ {p[1]}
  <2> SUFFICES ASSUME NEW i \in 1..(n - 1) PROVE q[i] \in Elems(p) \ {p[1]}
    BY <1>e
  <2> QED BY <1>e, <1>1, <1>5
<1>8. Elems(p) \ {p[1]} \subseteq Elems(q)
  <2> SUFFICES ASSUME NEW k \in 1..n, p[k] # p[1]
               PROVE  \E i \in 1..(n - 1) : q[i] = p[k]
    BY <1>e
  <2>1. k - 1 \in 1..(n - 1) /\ (k - 1) + 1 = k
    BY <1>2
  <2>2. q[k - 1] = p[k]
    BY <2>1
  <2> QED BY <2>1, <2>2
<1> QED BY <1>3, <1>5, <1>6, <1>7, <1>8 DEF Elems

\* A pipe that gets a newer frame at its end.
LEMMA IncExtend ==
    ASSUME NEW n, NEW p, NEW q, NEW e, IsPipe(p, n), Increasing(p), Extended(p, q, n, e),
           \A x \in Elems(p) : x < e
    PROVE  Increasing(q) /\ Elems(q) = Elems(p) \cup {e}
<1> n \in Nat /\ DOMAIN p = 1..n /\ DOMAIN q = 1..(n + 1)
  BY DEF IsPipe, Extended
<1> (\A i \in 1..n : q[i] = p[i]) /\ q[n + 1] = e
  BY DEF Extended
<1>1. 1..(n + 1) = (1..n) \cup {n + 1}
  OBVIOUS
<1>2. \A i \in 1..n : q[i] < q[n + 1]
  BY DEF Elems
<1>3. Increasing(q)
  <2> SUFFICES ASSUME NEW i \in 1..(n + 1), NEW j \in 1..(n + 1), i < j
               PROVE  q[i] < q[j]
    BY DEF Increasing
  <2>1. i \in 1..n
    OBVIOUS
  <2>2. CASE j \in 1..n
    BY <2>1, <2>2 DEF Increasing
  <2>3. CASE j = n + 1
    BY <1>2, <2>1, <2>3
  <2> QED BY <1>1, <2>2, <2>3
<1>4. Elems(q) = Elems(p) \cup {e}
  BY <1>1 DEF Elems
<1> QED BY <1>3, <1>4

\* A pipe whose last frame is overwritten by a newer one.
LEMMA IncReplace ==
    ASSUME NEW n, NEW p, NEW q, NEW e, IsPipe(p, n), Increasing(p), Replaced(p, q, n, e),
           \A x \in Elems(p) : x < e
    PROVE  /\ Increasing(q) /\ p[n] \in Elems(p)
           /\ Elems(q) = (Elems(p) \ {p[n]}) \cup {e}
<1> n \in Nat /\ n > 0 /\ DOMAIN p = 1..n /\ DOMAIN q = 1..n
  BY DEF IsPipe, Replaced
<1> (\A i \in 1..n : p[i] \in Nat) /\ (\A i \in 1..(n - 1) : q[i] = p[i]) /\ q[n] = e
  BY DEF IsPipe, Replaced
<1>1. n \in 1..n /\ 1..n = (1..(n - 1)) \cup {n} /\ n \notin 1..(n - 1)
  OBVIOUS
<1>2. \A i, j \in 1..n : i < j => p[i] < p[j]
  BY DEF Increasing
<1>3. \A i \in 1..(n - 1) : q[i] < q[n]
  BY <1>1 DEF Elems
<1>4. Increasing(q)
  <2> SUFFICES ASSUME NEW i \in 1..n, NEW j \in 1..n, i < j
               PROVE  q[i] < q[j]
    BY DEF Increasing
  <2>1. i \in 1..(n - 1)
    OBVIOUS
  <2>2. CASE j \in 1..(n - 1)
    BY <1>2, <2>1, <2>2
  <2>3. CASE j = n
    BY <1>3, <2>1, <2>3
  <2> QED BY <1>1, <2>2, <2>3
<1>5. \A i \in 1..(n - 1) : p[i] # p[n]
  <2> SUFFICES ASSUME NEW i \in 1..(n - 1) PROVE p[i] # p[n]
    OBVIOUS
  <2>1. i \in 1..n /\ i < n
    OBVIOUS
  <2>2. p[i] < p[n] /\ p[i] \in Nat /\ p[n] \in Nat
    BY <1>1, <1>2, <2>1
  <2> QED BY <2>2
<1>6. Elems(q) = (Elems(p) \ {p[n]}) \cup {e}
  <2>1. Elems(p) = {p[i] : i \in 1..(n - 1)} \cup {p[n]}
    BY <1>1 DEF Elems
  <2>2. Elems(q) = {p[i] : i \in 1..(n - 1)} \cup {e}
    BY <1>1 DEF Elems
  <2>3. p[n] \notin {p[i] : i \in 1..(n - 1)}
    BY <1>5
  <2> QED BY <2>1, <2>2, <2>3
<1> QED BY <1>1, <1>4, <1>6 DEF Elems

\* The pipe holds frame numbers.
LEMMA PipeType ==
    ASSUME RxInv
    PROVE  /\ Len(uselist) + Len(hwfifo) \in Nat
           /\ DOMAIN Pipe = 1..(Len(uselist) + Len(hwfifo))
           /\ \A i \in DOMAIN Pipe : Pipe[i] \in Nat
           /\ Piped \subseteq Nat
<1> DEFINE u == Len(uselist)
           h == Len(hwfifo)
<1>1. /\ u \in Nat /\ h \in Nat /\ data \in [Box -> Nat]
      /\ \A i \in 1..u : uselist[i] \in Box
      /\ \A i \in 1..h : hwfifo[i] \in Nat
  BY ListTypes, ElementOfSeq
<1>2. DOMAIN Pipe = 1..(u + h)
  BY DEF Pipe
<1>3. ASSUME NEW i \in 1..(u + h) PROVE Pipe[i] \in Nat
  <2>1. Pipe[i] = IF i <= u THEN data[uselist[i]] ELSE hwfifo[i - u]
    BY <1>3 DEF Pipe
  <2>2. CASE i <= u
    <3>1. i \in 1..u
      BY <1>1, <2>2
    <3> QED BY <1>1, <2>1, <2>2, <3>1
  <2>3. CASE ~(i <= u)
    <3>1. i - u \in 1..h
      BY <1>1, <2>3
    <3> QED BY <1>1, <2>1, <2>3, <3>1
  <2> QED BY <2>2, <2>3
<1> QED BY <1>1, <1>2, <1>3 DEF Piped, Elems

\* The places of the pipe.
LEMMA PipeAt ==
    ASSUME RxInv, NEW i \in 1..(Len(uselist) + Len(hwfifo))
    PROVE  /\ i <= Len(uselist) => Pipe[i] = data[uselist[i]]
           /\ ~(i <= Len(uselist)) => Pipe[i] = hwfifo[i - Len(uselist)]
BY DEF Pipe

\* The places of the pipe after a step.
LEMMA PipeAtNext ==
    ASSUME NEW i \in 1..(Len(uselist') + Len(hwfifo'))
    PROVE  /\ i <= Len(uselist') => Pipe'[i] = data'[uselist'[i]]
           /\ ~(i <= Len(uselist')) => Pipe'[i] = hwfifo'[i - Len(uselist')]
           /\ DOMAIN Pipe' = 1..(Len(uselist') + Len(hwfifo'))
BY DEF Pipe

\* A frame moved from the FIFO to a free box stays where it is in the pipe.
LEMMA StoreFree ==
    ASSUME BoxInv, hwfifo # <<>>, freelist # <<>>,
           hwfifo' = Tail(hwfifo), uselist' = Append(uselist, Head(freelist)),
           data' = [data EXCEPT ![Head(freelist)] = Head(hwfifo)]
    PROVE  Pipe' = Pipe
<1> DEFINE u == Len(uselist)
           h == Len(hwfifo)
           b == Head(freelist)
<1>1. /\ uselist \in Seq(Box) /\ freelist \in Seq(Box) /\ hwfifo \in Seq(Nat)
      /\ u \in Nat /\ h \in Nat /\ data \in [Box -> Nat]
  BY ListTypes DEF BoxInv
<1>2. b \in Elems(freelist) /\ b \in Box
  BY <1>1, PopBox, HeadTailProperties DEF BoxInv, BoxesConserved
<1>3. \A i \in 1..u : uselist[i] \in Box /\ uselist[i] # b
  <2>1. \A i \in 1..u : uselist[i] \in Elems(uselist)
    BY <1>1, LenProperties DEF Elems
  <2> QED BY <1>1, <1>2, <2>1, ElementOfSeq DEF BoxInv, BoxesConserved
<1>4. /\ Len(uselist') = u + 1 /\ uselist'[u + 1] = b
      /\ \A i \in 1..u : uselist'[i] = uselist[i]
  BY <1>1, <1>2, AppendProperties
<1>5. /\ h > 0 /\ Len(hwfifo') = h - 1 /\ Head(hwfifo) = hwfifo[1]
      /\ \A i \in 1..(h - 1) : hwfifo'[i] = hwfifo[i + 1]
  BY <1>1, EmptySeq, HeadTailProperties
<1>6. /\ data'[b] = hwfifo[1]
      /\ \A i \in 1..u : data'[uselist[i]] = data[uselist[i]]
  BY <1>1, <1>2, <1>3, <1>5
<1> HIDE DEF u, h, b
<1>7. ASSUME NEW i \in 1..(u + h) PROVE Pipe'[i] = Pipe[i]
  <2>1. i \in 1..(Len(uselist') + Len(hwfifo'))
    BY <1>1, <1>4, <1>5
  <2>2. CASE i <= u
    <3>1. i \in 1..u /\ i <= u + 1
      BY <1>1, <2>2
    <3>2. Pipe'[i] = data'[uselist'[i]] /\ Pipe[i] = data[uselist[i]]
      BY <1>4, <2>1, <2>2, <3>1, PipeAt, PipeAtNext DEF u, h, BoxInv
    <3> QED BY <1>4, <1>6, <3>1, <3>2
  <2>3. CASE i = u + 1
    <3>1. ~(i <= u) /\ i <= u + 1 /\ i - u = 1
      BY <1>1, <2>3
    <3>2. Pipe'[i] = data'[uselist'[i]] /\ Pipe[i] = hwfifo[i - u]
      BY <1>4, <2>1, <3>1, PipeAt, PipeAtNext DEF u, h, BoxInv
    <3> QED BY <1>4, <1>6, <2>3, <3>1, <3>2
  <2>4. CASE i > u + 1
    <3>1. /\ ~(i <= u) /\ ~(i <= u + 1) /\ i - (u + 1) \in 1..(h - 1)
          /\ (i - (u + 1)) + 1 = i - u
      BY <1>1, <2>4
    <3>2. Pipe'[i] = hwfifo'[i - (u + 1)] /\ Pipe[i] = hwfifo[i - u]
      BY <1>4, <2>1, <3>1, PipeAt, PipeAtNext DEF u, h, BoxInv
    <3> QED BY <1>5, <3>1, <3>2
  <2> QED BY <1>1, <2>2, <2>3, <2>4
<1>8. (u + 1) + (h - 1) = u + h
  BY <1>1
<1>9. /\ Pipe = [i \in 1..(u + h) |-> Pipe[i]]
      /\ Pipe' = [i \in 1..(u + h) |-> Pipe'[i]]
  BY <1>4, <1>5, <1>8 DEF Pipe, u, h
<1> QED BY <1>7, <1>9

\* A frame that takes the box of the oldest one moves the pipe by one place.
LEMMA StoreRecycled ==
    ASSUME BoxInv, hwfifo # <<>>, uselist # <<>>,
           hwfifo' = Tail(hwfifo), uselist' = Append(Tail(uselist), Head(uselist)),
           data' = [data EXCEPT ![Head(uselist)] = Head(hwfifo)]
    PROVE  /\ Len(uselist) + Len(hwfifo) > 0 /\ Pipe[1] = data[Head(uselist)]
           /\ DOMAIN Pipe' = 1..(Len(uselist) + Len(hwfifo) - 1)
           /\ \A i \in 1..(Len(uselist) + Len(hwfifo) - 1) : Pipe'[i] = Pipe[i + 1]
<1> DEFINE u == Len(uselist)
           h == Len(hwfifo)
           b == Head(uselist)
           t == Tail(uselist)
<1>1. /\ uselist \in Seq(Box) /\ hwfifo \in Seq(Nat)
      /\ u \in Nat /\ h \in Nat /\ data \in [Box -> Nat]
  BY ListTypes DEF BoxInv
<1>2. /\ b \in Box /\ b = uselist[1] /\ u > 0 /\ t \in Seq(Box) /\ Len(t) = u - 1
      /\ \A i \in 1..(u - 1) : t[i] = uselist[i + 1]
  BY <1>1, EmptySeq, HeadTailProperties
<1>3. \A i \in 1..(u - 1) : uselist[i + 1] \in Box /\ uselist[i + 1] # b
  <2> SUFFICES ASSUME NEW i \in 1..(u - 1)
               PROVE  uselist[i + 1] \in Box /\ uselist[i + 1] # b
    OBVIOUS
  <2>1. i + 1 \in 1..u /\ 1 \in 1..u /\ i + 1 # 1
    BY <1>1, <1>2
  <2>2. DOMAIN uselist = 1..u
    BY <1>1, LenProperties
  <2>3. uselist[i + 1] # uselist[1]
    BY <2>1, <2>2 DEF BoxInv, BoxesConserved, Distinct
  <2>4. uselist[i + 1] \in Box
    BY <1>1, <2>1, ElementOfSeq
  <2> QED BY <1>2, <2>3, <2>4
<1> HIDE DEF t
<1>4. /\ Len(uselist') = u /\ uselist'[u] = b
      /\ \A i \in 1..(u - 1) : uselist'[i] = uselist[i + 1]
  <2>1. uselist' = Append(t, b)
    BY DEF t
  <2>2. /\ Len(uselist') = (u - 1) + 1 /\ uselist'[(u - 1) + 1] = b
        /\ \A i \in 1..(u - 1) : uselist'[i] = t[i]
    BY <1>2, <2>1, AppendProperties
  <2>3. (u - 1) + 1 = u
    BY <1>1
  <2> QED BY <1>2, <2>2, <2>3
<1>5. /\ h > 0 /\ Len(hwfifo') = h - 1 /\ Head(hwfifo) = hwfifo[1]
      /\ \A i \in 1..(h - 1) : hwfifo'[i] = hwfifo[i + 1]
  BY <1>1, EmptySeq, HeadTailProperties
<1>6. /\ data'[b] = hwfifo[1]
      /\ \A i \in 1..(u - 1) : data'[uselist[i + 1]] = data[uselist[i + 1]]
  BY <1>1, <1>2, <1>3, <1>5
<1>7. Pipe[1] = data[b]
  <2>1. 1 \in 1..(u + h) /\ 1 <= u
    BY <1>1, <1>2
  <2> QED BY <1>2, <2>1, PipeAt DEF BoxInv
<1> HIDE DEF u, h, b
<1>8. ASSUME NEW i \in 1..(u + h - 1) PROVE Pipe'[i] = Pipe[i + 1]
  <2>1. i \in 1..(Len(uselist') + Len(hwfifo')) /\ i + 1 \in 1..(u + h)
    BY <1>1, <1>4, <1>5
  <2>2. CASE i < u
    <3>1. i \in 1..(u - 1) /\ i <= u /\ i + 1 <= u
      BY <1>1, <2>2
    <3>2. Pipe'[i] = data'[uselist'[i]] /\ Pipe[i + 1] = data[uselist[i + 1]]
      BY <1>4, <2>1, <3>1, PipeAt, PipeAtNext DEF u, h, BoxInv
    <3> QED BY <1>4, <1>6, <3>1, <3>2
  <2>3. CASE i = u
    <3>1. i <= u /\ ~(i + 1 <= u) /\ (i + 1) - u = 1
      BY <1>1, <2>3
    <3>2. Pipe'[i] = data'[uselist'[i]] /\ Pipe[i + 1] = hwfifo[(i + 1) - u]
      BY <1>4, <2>1, <3>1, PipeAt, PipeAtNext DEF u, h, BoxInv
    <3> QED BY <1>4, <1>6, <2>3, <3>1, <3>2
  <2>4. CASE i > u
    <3>1. /\ ~(i <= u) /\ ~(i + 1 <= u) /\ i - u \in 1..(h - 1)
          /\ (i - u) + 1 = (i + 1) - u
      BY <1>1, <2>4
    <3>2. Pipe'[i] = hwfifo'[i - u] /\ Pipe[i + 1] = hwfifo[(i + 1) - u]
      BY <1>4, <2>1, <3>1, PipeAt, PipeAtNext DEF u, h, BoxInv
    <3> QED BY <1>5, <3>1, <3>2
  <2> QED BY <1>1, <2>2, <2>3, <2>4
<1>9. DOMAIN Pipe' = 1..(u + h - 1) /\ u + h > 0
  <2> DEFINE a == Len(uselist')
             c == Len(hwfifo')
  <2>1. DOMAIN Pipe' = 1..(a + c)
    BY DEF Pipe
  <2>2. a = u /\ c = h - 1
    BY <1>4, <1>5
  <2> HIDE DEF a, c
  <2>3. a + c = u + h - 1 /\ u + h > 0
    BY <1>1, <1>5, <2>2
  <2> QED BY <2>1, <2>3
<1> QED BY <1>7, <1>8, <1>9 DEF u, h, b

\* A box that is detached takes the first frame out of the pipe.
LEMMA DetachPipe ==
    ASSUME BoxInv, uselist # <<>>, uselist' = Tail(uselist), UNCHANGED <<hwfifo, data>>
    PROVE  /\ Len(uselist) + Len(hwfifo) > 0 /\ Pipe[1] = data[Head(uselist)]
           /\ DOMAIN Pipe' = 1..(Len(uselist) + Len(hwfifo) - 1)
           /\ \A i \in 1..(Len(uselist) + Len(hwfifo) - 1) : Pipe'[i] = Pipe[i + 1]
<1> DEFINE u == Len(uselist)
           h == Len(hwfifo)
           a == Len(uselist')
           c == Len(hwfifo')
<1>1. uselist \in Seq(Box) /\ u \in Nat /\ h \in Nat
  BY ListTypes DEF BoxInv
<1>2. /\ Head(uselist) = uselist[1] /\ u > 0 /\ a = u - 1 /\ c = h
      /\ \A i \in 1..(u - 1) : uselist'[i] = uselist[i + 1]
  BY <1>1, EmptySeq, HeadTailProperties
<1>3. Pipe[1] = data[Head(uselist)]
  <2>1. 1 \in 1..(u + h) /\ 1 <= u
    BY <1>1, <1>2
  <2> QED BY <1>2, <2>1, PipeAt DEF BoxInv
<1> HIDE DEF u, h, a, c
<1>4. a + c = u + h - 1 /\ u + h > 0
  BY <1>1, <1>2
<1>5. ASSUME NEW i \in 1..(u + h - 1) PROVE Pipe'[i] = Pipe[i + 1]
  <2>1. i \in 1..(a + c) /\ i + 1 \in 1..(u + h)
    BY <1>1, <1>4
  <2>2. CASE i <= u - 1
    <3>1. i \in 1..(u - 1) /\ i <= a /\ i + 1 <= u
      BY <1>1, <1>2, <2>2
    <3>2. Pipe'[i] = data'[uselist'[i]] /\ Pipe[i + 1] = data[uselist[i + 1]]
      BY <2>1, <3>1, PipeAt, PipeAtNext DEF u, h, a, c, BoxInv
    <3> QED BY <1>2, <3>1, <3>2
  <2>3. CASE ~(i <= u - 1)
    <3>1. ~(i <= a) /\ ~(i + 1 <= u) /\ i - a = (i + 1) - u
      BY <1>1, <1>2, <2>3
    <3>2. Pipe'[i] = hwfifo'[i - a] /\ Pipe[i + 1] = hwfifo[(i + 1) - u]
      BY <2>1, <3>1, PipeAt, PipeAtNext DEF u, h, a, c, BoxInv
    <3> QED BY <3>1, <3>2
  <2> QED BY <2>2, <2>3
<1>6. DOMAIN Pipe' = 1..(a + c)
  BY DEF Pipe, a, c
<1> QED BY <1>3, <1>4, <1>5, <1>6 DEF u, h

\* A frame that the FIFO has room for comes last in the pipe.
LEMMA ArrivePipe ==
    ASSUME RxInv, NEW e \in Nat, hwfifo' = Append(hwfifo, e), UNCHANGED <<uselist, data>>
    PROVE  LET n == Len(uselist) + Len(hwfifo) IN
           /\ DOMAIN Pipe' = 1..(n + 1) /\ Pipe'[n + 1] = e
           /\ \A i \in 1..n : Pipe'[i] = Pipe[i]
<1> DEFINE u == Len(uselist)
           h == Len(hwfifo)
           a == Len(uselist')
           c == Len(hwfifo')
<1>1. hwfifo \in Seq(Nat) /\ u \in Nat /\ h \in Nat
  BY ListTypes
<1>2. /\ a = u /\ c = h + 1 /\ hwfifo'[h + 1] = e
      /\ \A i \in 1..h : hwfifo'[i] = hwfifo[i]
  BY <1>1, AppendProperties
<1> HIDE DEF u, h, a, c
<1>3. a + c = u + h + 1
  BY <1>1, <1>2
<1>4. ASSUME NEW i \in 1..(u + h) PROVE Pipe'[i] = Pipe[i]
  <2>1. i \in 1..(a + c)
    BY <1>1, <1>3
  <2>2. CASE i <= u
    BY <1>2, <2>1, <2>2, PipeAt, PipeAtNext DEF u, h, a, c
  <2>3. CASE ~(i <= u)
    <3>1. i - u \in 1..h
      BY <1>1, <2>3
    <3>2. Pipe'[i] = hwfifo'[i - u] /\ Pipe[i] = hwfifo[i - u]
      BY <1>2, <2>1, <2>3, PipeAt, PipeAtNext DEF u, h, a, c
    <3> QED BY <1>2, <3>1, <3>2
  <2> QED BY <2>2, <2>3
<1>5. Pipe'[u + h + 1] = e
  <2>1. /\ u + h + 1 \in 1..(a + c) /\ ~(u + h + 1 <= a)
        /\ (u + h + 1) - a = h + 1
    BY <1>1, <1>2, <1>3
  <2>2. Pipe'[u + h + 1] = hwfifo'[(u + h + 1) - a]
    BY <2>1, PipeAtNext DEF a, c
  <2> QED BY <1>2, <2>1, <2>2
<1>6. DOMAIN Pipe' = 1..(a + c)
  BY DEF Pipe, a, c
<1> QED BY <1>3, <1>4, <1>5, <1>6 DEF u, h

\* A frame that overruns the FIFO replaces the last one of the pipe.
LEMMA OverrunPipe ==
    ASSUME RxInv, NEW e \in Nat, Len(hwfifo) > 0,
           hwfifo' = [hwfifo EXCEPT ![Len(hwfifo)] = e], UNCHANGED <<uselist, data>>
    PROVE  LET n == Len(uselist) + Len(hwfifo) IN
           /\ n > 0 /\ DOMAIN Pipe' = 1..n /\ Pipe'[n] = e
           /\ Pipe[n] = hwfifo[Len(hwfifo)]
           /\ \A i \in 1..(n - 1) : Pipe'[i] = Pipe[i]
<1> DEFINE u == Len(uselist)
           h == Len(hwfifo)
           a == Len(uselist')
           c == Len(hwfifo')
<1>1. hwfifo \in Seq(Nat) /\ u \in Nat /\ h \in Nat /\ h > 0
  BY ListTypes
<1>2. /\ a = u /\ c = h /\ hwfifo'[h] = e
      /\ \A i \in 1..(h - 1) : hwfifo'[i] = hwfifo[i]
  <2>1. h \in 1..h /\ \A i \in 1..(h - 1) : i \in 1..h /\ i # h
    BY <1>1
  <2> QED BY <1>1, <2>1, ExceptSeq
<1> HIDE DEF u, h, a, c
<1>3. a + c = u + h /\ u + h > 0
  BY <1>1, <1>2
<1>4. ASSUME NEW i \in 1..(u + h - 1) PROVE Pipe'[i] = Pipe[i]
  <2>1. i \in 1..(a + c) /\ i \in 1..(u + h)
    BY <1>1, <1>3
  <2>2. CASE i <= u
    BY <1>2, <2>1, <2>2, PipeAt, PipeAtNext DEF u, h, a, c
  <2>3. CASE ~(i <= u)
    <3>1. i - u \in 1..(h - 1)
      BY <1>1, <2>3
    <3>2. Pipe'[i] = hwfifo'[i - u] /\ Pipe[i] = hwfifo[i - u]
      BY <1>2, <2>1, <2>3, PipeAt, PipeAtNext DEF u, h, a, c
    <3> QED BY <1>2, <3>1, <3>2
  <2> QED BY <2>2, <2>3
<1>5. Pipe'[u + h] = e /\ Pipe[u + h] = hwfifo[h]
  <2>1. /\ u + h \in 1..(a + c) /\ u + h \in 1..(u + h)
        /\ ~(u + h <= a) /\ ~(u + h <= u)
        /\ (u + h) - a = h /\ (u + h) - u = h
    BY <1>1, <1>2, <1>3
  <2>2. Pipe'[u + h] = hwfifo'[(u + h) - a]
    BY <2>1, PipeAtNext DEF a, c
  <2>3. Pipe[u + h] = hwfifo[(u + h) - u]
    BY <2>1, PipeAt DEF u, h
  <2> QED BY <1>2, <2>1, <2>2, <2>3
<1>6. DOMAIN Pipe' = 1..(a + c)
  BY DEF Pipe, a, c
<1> QED BY <1>3, <1>4, <1>5, <1>6 DEF u, h

-----------------------------------------------------------------------------
(***************************************************************************)
(* What the steps do to the frames under way.                               *)
(***************************************************************************)
\* The interrupt leaves the frames under way as they are, or loses one.  It
\* does not touch the box in hand.
LEMMA StoreEffect ==
    ASSUME BoxInv, Increasing(Pipe), hwfifo # <<>>, NEW drops, StoreFrame(drops),
           UNCHANGED held
    PROVE  /\ Increasing(Pipe') /\ uselist' # <<>>
           /\ pc = "copy" => data'[held'] = data[held]
           /\ \/ Piped' = Piped /\ lost' = lost /\ dropedrcvpkg' = drops
              \/ \E x \in Piped : /\ Piped' = Piped \ {x} /\ lost' = lost \cup {x}
                                  /\ dropedrcvpkg' = drops + 1
<1>1. hwfifo' = Tail(hwfifo)
  BY DEF StoreFrame
<1>2. /\ uselist \in Seq(Box) /\ freelist \in Seq(Box) /\ hwfifo \in Seq(Nat)
      /\ data \in [Box -> Nat]
  BY ListTypes DEF BoxInv
<1>3. pc = "copy" => /\ held \in Box
                     /\ held \notin Elems(uselist) /\ held \notin Elems(freelist)
  BY DEF BoxInv, BoxesConserved, RxInv, TypeInv, HeldIsBox
<1>4. CASE freelist # <<>>
  <2>1. /\ uselist' = Append(uselist, Head(freelist))
        /\ data' = [data EXCEPT ![Head(freelist)] = Head(hwfifo)]
        /\ dropedrcvpkg' = drops /\ lost' = lost
    BY <1>4, StoreCases DEF BoxInv
  <2>2. Pipe' = Pipe
    BY <1>1, <1>4, <2>1, StoreFree
  <2>3. Head(freelist) \in Elems(freelist) /\ Head(freelist) \in Box
    BY <1>2, <1>4, PopBox, HeadTailProperties DEF BoxInv, BoxesConserved
  <2>4. uselist' # <<>>
    <3>1. uselist \in Seq(Box) /\ uselist' = Append(uselist, Head(freelist))
      BY <1>2, <2>1
    <3> QED BY <2>3, <3>1, AppendProperties
  <2>5. pc = "copy" => data'[held'] = data[held]
    BY <1>2, <1>3, <2>1, <2>3
  <2> QED BY <2>1, <2>2, <2>4, <2>5 DEF Piped
<1>5. CASE freelist = <<>>
  <2>1. /\ uselist # <<>> /\ uselist' = Append(Tail(uselist), Head(uselist))
        /\ data' = [data EXCEPT ![Head(uselist)] = Head(hwfifo)]
        /\ dropedrcvpkg' = drops + 1 /\ lost' = lost \cup {data[Head(uselist)]}
    BY <1>5, StoreCases DEF BoxInv
  <2> DEFINE n == Len(uselist) + Len(hwfifo)
             q == Pipe'
  <2>r. /\ n > 0 /\ Pipe[1] = data[Head(uselist)] /\ DOMAIN q = 1..(n - 1)
        /\ \A i \in 1..(n - 1) : q[i] = Pipe[i + 1]
    BY <1>1, <2>1, StoreRecycled
  <2>2. Advanced(Pipe, q, n)
    BY <2>r DEF Advanced
  <2>3. IsPipe(Pipe, n)
    BY PipeType DEF BoxInv, IsPipe
  <2> HIDE DEF n, q
  <2>4. Increasing(q) /\ Elems(q) = Elems(Pipe) \ {Pipe[1]} /\ Pipe[1] \in Elems(Pipe)
    BY <2>2, <2>3, IncAdvance
  <2>5. /\ Increasing(Pipe')
        /\ \E x \in Piped : /\ Piped' = Piped \ {x} /\ lost' = lost \cup {x}
                            /\ dropedrcvpkg' = drops + 1
    BY <2>1, <2>r, <2>4 DEF Piped, q
  <2>6. Head(uselist) \in Elems(uselist) /\ Head(uselist) \in Box
        /\ Tail(uselist) \in Seq(Box)
    BY <1>2, <2>1, PopBox, HeadTailProperties DEF BoxInv, BoxesConserved
  <2>7. uselist' # <<>>
    BY <2>1, <2>6, AppendProperties
  <2>8. pc = "copy" => data'[held'] = data[held]
    BY <1>2, <1>3, <2>1, <2>6
  <2> QED BY <2>5, <2>7, <2>8
<1> QED BY <1>4, <1>5

\* Detaching a box takes the oldest frame under way.
LEMMA DetachEffect ==
    ASSUME BoxInv, Increasing(Pipe), uselist # <<>>, uselist' = Tail(uselist),
           UNCHANGED <<hwfifo, data>>
    PROVE  LET x == data[Head(uselist)] IN
           /\ Increasing(Pipe') /\ x \in Piped /\ Piped' = Piped \ {x}
           /\ \A y \in Piped' : x < y
<1> DEFINE n == Len(uselist) + Len(hwfifo)
           q == Pipe'
<1>1. /\ n > 0 /\ Pipe[1] = data[Head(uselist)] /\ DOMAIN q = 1..(n - 1)
      /\ \A i \in 1..(n - 1) : q[i] = Pipe[i + 1]
  BY DetachPipe
<1>2. IsPipe(Pipe, n) /\ Advanced(Pipe, q, n)
  BY <1>1, PipeType DEF BoxInv, IsPipe, Advanced
<1> HIDE DEF n, q
<1>3. /\ Increasing(q) /\ Elems(q) = Elems(Pipe) \ {Pipe[1]} /\ Pipe[1] \in Elems(Pipe)
      /\ \A x \in Elems(q) : Pipe[1] < x
  BY <1>2, IncAdvance
<1> QED BY <1>1, <1>3 DEF Piped, q

\* A frame that arrives is the newest under way; on an overrun the one before
\* it is lost.
LEMMA ArriveEffect ==
    ASSUME RxInv, Increasing(Pipe), NEW own \in BOOLEAN, Arrive(own),
           \A x \in Piped : x < arrived + 1
    PROVE  /\ Increasing(Pipe')
           /\ \/ Piped' = Piped \cup {arrived + 1} /\ lost' = lost /\ fov' = fov
              \/ /\ fov' = TRUE
                 /\ \E x \in Piped : /\ Piped' = (Piped \ {x}) \cup {arrived + 1}
                                     /\ lost' = lost \cup {x}
<1> DEFINE n == Len(uselist) + Len(hwfifo)
           q == Pipe'
           e == arrived + 1
<1>1. IsPipe(Pipe, n)
  BY PipeType DEF IsPipe
<1>2. e \in Nat /\ UNCHANGED <<uselist, data>> /\ hwfifo \in Seq(Nat)
  BY DEF RxInv, TypeInv, TypeOK, Arrive, fifoVars
<1>3. CASE Len(hwfifo) < HwFifoSz
  <2>1. hwfifo' = Append(hwfifo, e) /\ lost' = lost /\ fov' = fov
    BY <1>3 DEF Arrive
  <2>2. Extended(Pipe, q, n, e)
    BY <1>2, <2>1, ArrivePipe DEF Extended
  <2> HIDE DEF n, q, e
  <2>3. \A x \in Elems(Pipe) : x < e
    BY DEF Piped, e
  <2>4. Increasing(q) /\ Elems(q) = Elems(Pipe) \cup {e}
    BY <1>1, <2>2, <2>3, IncExtend
  <2> QED BY <2>1, <2>4 DEF Piped, q, e
<1>4. CASE ~(Len(hwfifo) < HwFifoSz)
  <2>1. /\ hwfifo' = [hwfifo EXCEPT ![Len(hwfifo)] = e] /\ fov' = TRUE
        /\ lost' = lost \cup {hwfifo[Len(hwfifo)]}
    BY <1>4 DEF Arrive
  <2>2. Len(hwfifo) > 0
    BY <1>2, <1>4, RxAssumption, LenProperties
  <2>3. /\ n > 0 /\ DOMAIN q = 1..n /\ q[n] = e /\ Pipe[n] = hwfifo[Len(hwfifo)]
        /\ \A i \in 1..(n - 1) : q[i] = Pipe[i]
    BY <1>2, <2>1, <2>2, OverrunPipe
  <2>p. Replaced(Pipe, q, n, e)
    BY <2>3 DEF Replaced
  <2> HIDE DEF n, q, e
  <2>4. \A x \in Elems(Pipe) : x < e
    BY DEF Piped, e
  <2>5. /\ Increasing(q) /\ Pipe[n] \in Elems(Pipe)
        /\ Elems(q) = (Elems(Pipe) \ {Pipe[n]}) \cup {e}
    BY <1>1, <2>p, <2>4, IncReplace
  <2> QED BY <2>1, <2>3, <2>5 DEF Piped, q, e
<1> QED BY <1>3, <1>4

-----------------------------------------------------------------------------
(***************************************************************************)
(* Each step keeps the delivery invariant.                                  *)
(***************************************************************************)
\* The types of what Delivered is about.
LEMMA DeliveryTypes ==
    ASSUME DeliveryInv
    PROVE  /\ RxInv /\ BoxInv /\ Increasing(Pipe)
           /\ arrived \in Nat /\ msg_buff \in Nat /\ stale \in Nat /\ dropedrcvpkg \in Nat
           /\ Done \subseteq Nat /\ Piped \subseteq Nat /\ FovBit \in {0, 1}
           /\ Fresh => HandFrame \in Nat
           /\ Pending \subseteq Nat
           /\ IsFiniteSet(lost) /\ Cardinality(lost) \in Nat
<1>1. RxInv /\ BoxInv /\ Increasing(Pipe) /\ TypeOK /\ HeldIsBox
  BY DEF DeliveryInv, BoxInv, RxInv, TypeInv, Delivered, InOrder
<1>2. arrived \in Nat /\ msg_buff \in Nat /\ stale \in Nat /\ dropedrcvpkg \in Nat
  BY <1>1 DEF TypeOK
<1>3. Done \subseteq Nat
  <2>1. handled \in Seq(Nat) /\ ignored \subseteq Nat
    BY <1>1 DEF TypeOK
  <2>2. Elems(handled) \subseteq Nat
    BY <2>1, LenProperties, ElementOfSeq DEF Elems
  <2> QED BY <2>1, <2>2 DEF Done
<1>4. Piped \subseteq Nat
  BY <1>1, PipeType
<1>5. Fresh => HandFrame \in Nat
  BY <1>1, <1>2 DEF HandFrame, HeldIsBox, TypeOK, Fresh
<1>6. IsFiniteSet(lost) /\ Cardinality(lost) \in Nat
  BY FS_CardinalityType DEF DeliveryInv, Delivered, DropsCounted
<1> QED BY <1>1, <1>2, <1>3, <1>4, <1>5, <1>6 DEF FovBit, Pending

\* The parts of the invariant that the interrupt and the bus cannot disturb:
\* nothing is delivered and the thread does not move.
LEMMA ThreadStill ==
    ASSUME DeliveryInv, UNCHANGED <<boot, pc, msg_buff, handled, ignored, stale>>
    PROVE  /\ Done' = Done /\ ThreadStart' /\ LatestKept' /\ OnceEach'
           /\ Fresh' = Fresh
<1>1. Done' = Done
  BY DEF Done
<1>2. Fresh' = Fresh /\ Again' = Again
  BY <1>1 DEF Fresh, Again, AgainInHand, Done
<1> QED BY <1>1, <1>2 DEF DeliveryInv, Delivered, ThreadStart, LatestKept, OnceEach

\* The interrupt keeps the invariant, with a box or without.
LEMMA StoreDelivers ==
    ASSUME DeliveryInv, hwfifo # <<>>, NEW drops \in Nat, StoreFrame(drops),
           UNCHANGED <<boot, pc, held, msg_buff, arrived, foreign, handled, ignored, stale>>,
           NEW f \in Nat, FovBit' = f, drops + f = dropedrcvpkg + FovBit
    PROVE  Delivered'
<1>1. /\ Increasing(Pipe') /\ uselist' # <<>>
      /\ pc = "copy" => data'[held'] = data[held]
      /\ \/ Piped' = Piped /\ lost' = lost /\ dropedrcvpkg' = drops
         \/ \E x \in Piped : /\ Piped' = Piped \ {x} /\ lost' = lost \cup {x}
                             /\ dropedrcvpkg' = drops + 1
  BY DeliveryTypes, StoreEffect
<1>t. /\ arrived \in Nat /\ dropedrcvpkg \in Nat /\ Done \subseteq Nat /\ Piped \subseteq Nat
      /\ FovBit \in {0, 1} /\ (Fresh => HandFrame \in Nat)
      /\ IsFiniteSet(lost) /\ Cardinality(lost) \in Nat
  BY DeliveryTypes
<1>n. FovBit \in Nat
  BY <1>t
<1>2. Done' = Done /\ Fresh' = Fresh /\ ThreadStart' /\ LatestKept' /\ OnceEach'
  BY ThreadStill
<1>3. HandFrame' = HandFrame
  BY <1>1 DEF HandFrame
<1>4. NoEarlyRepeat'
  BY <1>1 DEF NoEarlyRepeat
<1>i. /\ Fresh => \A x \in Piped : HandFrame < x
      /\ \A c \in Done, x \in Pending : c < x
      /\ 1..arrived = Done \cup lost \cup Pending
      /\ lost \cap Done = {} /\ lost \cap Pending = {}
      /\ dropedrcvpkg + FovBit <= Cardinality(lost)
      /\ lost # {} => dropedrcvpkg + FovBit > 0
  BY DEF DeliveryInv, Delivered, InOrder, Partition, DropsCounted
<1>5. InOrder' /\ Partition' /\ DropsCounted' /\ Pending' \subseteq Pending
  <2>1. CASE Piped' = Piped /\ lost' = lost /\ dropedrcvpkg' = drops
    <3>1. Pending' = Pending
      BY <1>2, <1>3, <2>1 DEF Pending
    <3>2. InOrder' /\ Partition'
      BY <1>1, <1>2, <1>3, <1>i, <2>1, <3>1 DEF InOrder, Partition
    <3>3. DropsCounted'
      BY <1>t, <1>i, <2>1 DEF DropsCounted
    <3> QED BY <3>1, <3>2, <3>3
  <2>2. ASSUME NEW x \in Piped, Piped' = Piped \ {x}, lost' = lost \cup {x},
               dropedrcvpkg' = drops + 1
        PROVE  InOrder' /\ Partition' /\ DropsCounted' /\ Pending' \subseteq Pending
    <3>1. Fresh => HandFrame # x
      BY <1>t, <1>i, <2>2
    <3>2. Pending' = Pending \ {x} /\ x \in Pending
      BY <1>2, <1>3, <2>2, <3>1 DEF Pending
    <3>3. x \notin Done /\ x \notin lost
      <4>1. x \in Nat /\ ~(x < x)
        BY <1>t, <2>2
      <4> QED BY <1>i, <3>2, <4>1
    <3>4. InOrder'
      BY <1>1, <1>2, <1>3, <1>i, <2>2, <3>2 DEF InOrder
    <3>5. Partition'
      <4>1. 1..arrived' = Done' \cup lost' \cup Pending'
        BY <1>2, <1>i, <2>2, <3>2
      <4> QED BY <1>2, <1>i, <2>2, <3>2, <3>3, <4>1 DEF Partition
    <3>6. IsFiniteSet(lost') /\ Cardinality(lost') = Cardinality(lost) + 1
      BY <1>t, <2>2, <3>3, FS_AddElement
    <3>7. DropsCounted'
      <4>1. dropedrcvpkg' + FovBit' = (dropedrcvpkg + FovBit) + 1
        <5>1. dropedrcvpkg \in Nat /\ dropedrcvpkg' = drops + 1
          BY <1>t, <2>2
        <5>2. (drops + 1) + f = (dropedrcvpkg + FovBit) + 1
          BY <1>n, <5>1
        <5> QED BY <5>1, <5>2
      <4>2. /\ dropedrcvpkg' + FovBit' <= Cardinality(lost')
            /\ dropedrcvpkg' + FovBit' > 0
        BY <1>t, <1>i, <3>6, <4>1
      <4> QED BY <3>6, <4>2 DEF DropsCounted
    <3> QED BY <3>2, <3>4, <3>5, <3>7
  <2> QED BY <1>1, <2>1, <2>2
<1>6. ForeignGone'
  BY <1>5 DEF DeliveryInv, Delivered, ForeignGone, NoForeignFrameHandled
<1> QED BY <1>2, <1>4, <1>5, <1>6 DEF Delivered

\* A frame that arrives is the newest, and not for another device once the
\* filter is set.
LEMMA ArriveDelivers ==
    ASSUME DeliveryInv, NEW own \in BOOLEAN, Arrive(own)
    PROVE  Delivered'
<1> DEFINE e == arrived + 1
<1>1. /\ UNCHANGED <<boot, pc, held, msg_buff, handled, ignored, stale, data, uselist, sem,
                     dropedrcvpkg>>
      /\ arrived' = e /\ (own \/ ~FilterSet)
      /\ foreign' = IF own THEN foreign ELSE foreign \cup {e}
  BY DEF Arrive, fifoVars, thrVars, histVars
<1>t. /\ RxInv /\ arrived \in Nat /\ dropedrcvpkg \in Nat /\ Done \subseteq Nat
      /\ Piped \subseteq Nat /\ FovBit \in {0, 1} /\ (Fresh => HandFrame \in Nat)
      /\ IsFiniteSet(lost) /\ Cardinality(lost) \in Nat /\ Increasing(Pipe)
      /\ Pending \subseteq Nat
  BY DeliveryTypes
<1>i. /\ Fresh => \A x \in Piped : HandFrame < x
      /\ \A c \in Done, x \in Pending : c < x
      /\ 1..arrived = Done \cup lost \cup Pending
      /\ lost \cap Done = {} /\ lost \cap Pending = {}
      /\ dropedrcvpkg + FovBit <= Cardinality(lost)
      /\ lost # {} => dropedrcvpkg + FovBit > 0
  BY DEF DeliveryInv, Delivered, InOrder, Partition, DropsCounted
<1>2. /\ e \in Nat /\ 1..e = (1..arrived) \cup {e}
      /\ \A y \in 1..arrived : y < e
      /\ e \notin 1..arrived
  BY <1>t
<1> HIDE DEF e
<1>3. /\ \A y \in Done \cup lost \cup Pending : y < e
      /\ e \notin Done /\ e \notin lost /\ e \notin Pending
  BY <1>2, <1>i
<1>4. \A x \in Piped : x < e
  BY <1>3 DEF Pending
<1>5. /\ Increasing(Pipe')
      /\ \/ Piped' = Piped \cup {e} /\ lost' = lost /\ fov' = fov
         \/ /\ fov' = TRUE
            /\ \E x \in Piped : Piped' = (Piped \ {x}) \cup {e} /\ lost' = lost \cup {x}
  BY <1>t, <1>4, ArriveEffect DEF e
<1>6. Done' = Done /\ Fresh' = Fresh /\ ThreadStart' /\ LatestKept' /\ OnceEach'
  BY <1>1, ThreadStill
<1>7. HandFrame' = HandFrame
  BY <1>1 DEF HandFrame
<1>8. /\ Fresh => HandFrame < e
      /\ \A c \in Done : c < e
  BY <1>3 DEF Pending
<1>9. InOrder' /\ Partition' /\ DropsCounted' /\ Pending' \subseteq Pending \cup {e}
  <2>1. CASE Piped' = Piped \cup {e} /\ lost' = lost /\ fov' = fov
    <3>1. Pending' = Pending \cup {e}
      BY <1>6, <1>7, <2>1 DEF Pending
    <3>2. InOrder'
      BY <1>5, <1>6, <1>7, <1>8, <1>i, <2>1, <3>1 DEF InOrder
    <3>3. Partition'
      <4>1. 1..arrived' = Done' \cup lost' \cup Pending'
        BY <1>1, <1>2, <1>6, <1>i, <2>1, <3>1
      <4> QED BY <1>3, <1>6, <1>i, <2>1, <3>1, <4>1 DEF Partition
    <3>4. DropsCounted'
      BY <1>1, <1>t, <1>i, <2>1 DEF DropsCounted, FovBit
    <3> QED BY <3>1, <3>2, <3>3, <3>4
  <2>2. ASSUME fov' = TRUE, NEW x \in Piped, Piped' = (Piped \ {x}) \cup {e},
               lost' = lost \cup {x}
        PROVE  InOrder' /\ Partition' /\ DropsCounted' /\ Pending' \subseteq Pending \cup {e}
    <3>1. x \in Nat /\ ~(x < x) /\ x # e
      BY <1>t, <1>3, <2>2 DEF Pending
    <3>2. Fresh => HandFrame # x
      BY <1>i, <2>2, <3>1
    <3>3. Pending' = (Pending \ {x}) \cup {e} /\ x \in Pending
      BY <1>6, <1>7, <2>2, <3>2 DEF Pending
    <3>4. x \notin Done /\ x \notin lost
      BY <1>i, <3>1, <3>3
    <3>5. InOrder'
      BY <1>5, <1>6, <1>7, <1>8, <1>i, <2>2, <3>3 DEF InOrder
    <3>6. Partition'
      <4>1. 1..arrived' = Done' \cup lost' \cup Pending'
        BY <1>1, <1>2, <1>6, <1>i, <2>2, <3>3
      <4> QED BY <1>3, <1>6, <1>i, <2>2, <3>1, <3>3, <3>4, <4>1 DEF Partition
    <3>7. IsFiniteSet(lost') /\ Cardinality(lost') = Cardinality(lost) + 1
      BY <1>t, <2>2, <3>4, FS_AddElement
    <3>8. FovBit' = 1 /\ dropedrcvpkg' = dropedrcvpkg /\ FovBit \in Nat
      BY <1>1, <1>t, <2>2 DEF FovBit
    <3>9. /\ dropedrcvpkg' + FovBit' <= Cardinality(lost')
          /\ dropedrcvpkg' + FovBit' > 0
      <4>1. dropedrcvpkg <= Cardinality(lost)
        BY <1>t, <1>i, <3>8
      <4> QED BY <1>t, <3>7, <3>8, <4>1
    <3>10. DropsCounted'
      BY <3>7, <3>9 DEF DropsCounted
    <3> QED BY <3>3, <3>5, <3>6, <3>10
  <2> QED BY <1>5, <2>1, <2>2
<1>10. boot = "bound" => foreign' = foreign
  BY <1>1 DEF FilterSet
<1>11. NoEarlyRepeat'
  BY <1>1, <1>10 DEF DeliveryInv, Delivered, NoEarlyRepeat, Unfit, Wakeups
<1>12. ForeignGone'
  <2>1. foreign \subseteq 1..arrived /\ NoForeignFrameHandled
    BY DEF DeliveryInv, Delivered, ForeignGone
  <2>2. e \notin foreign /\ foreign' \subseteq 1..arrived'
    BY <1>1, <1>2, <2>1
  <2>3. boot = "bound" /\ pc # "none" =>
          Pending' \cap foreign' = {} /\ (pc = "callback" => msg_buff \notin foreign')
    BY <1>9, <1>10, <2>2 DEF DeliveryInv, Delivered, ForeignGone
  <2>4. e \notin Elems(handled)
    BY <1>3 DEF Done
  <2>5. NoForeignFrameHandled'
    BY <1>1, <2>1, <2>4 DEF NoForeignFrameHandled
  <2> QED BY <1>1, <2>2, <2>3, <2>5 DEF ForeignGone
<1> QED BY <1>6, <1>9, <1>11, <1>12 DEF Delivered

\* The pipe depends on the boxes in use and on the FIFO.
LEMMA PipeStill ==
    ASSUME UNCHANGED <<uselist, hwfifo, data>>
    PROVE  Pipe' = Pipe /\ Piped' = Piped
<1>1. Pipe' = Pipe
  BY DEF Pipe
<1> QED BY <1>1 DEF Piped

\* A step of the thread, or of main, that leaves the frames under way and those
\* delivered as they are.
LEMMA NothingMoves ==
    ASSUME DeliveryInv, Increasing(Pipe'), Done' = Done, Pending' = Pending,
           Fresh' => \A x \in Piped' : HandFrame' < x,
           UNCHANGED <<arrived, foreign, handled, lost, fov, dropedrcvpkg>>
    PROVE  InOrder' /\ Partition' /\ DropsCounted' /\ NoForeignFrameHandled'
<1>1. InOrder'
  BY DEF DeliveryInv, Delivered, InOrder
<1>2. Partition'
  BY DEF DeliveryInv, Delivered, Partition
<1>3. DropsCounted'
  BY DEF DeliveryInv, Delivered, DropsCounted, FovBit
<1>4. NoForeignFrameHandled'
  BY DEF DeliveryInv, Delivered, ForeignGone, NoForeignFrameHandled
<1> QED BY <1>1, <1>2, <1>3, <1>4

\* Taking the semaphore: the wakeup is in progress instead of counted.
LEMMA TakeDelivers == ASSUME DeliveryInv, TakeSem PROVE Delivered'
<1>1. /\ pc = "take" /\ pc' = "read" /\ sem' = sem - 1
      /\ UNCHANGED <<boot, uselist, hwfifo, data, msg_buff, arrived, foreign, handled,
                     ignored, lost, stale, fov, dropedrcvpkg>>
  BY DEF TakeSem, hwVars, fifoVars, busVars, histVars
<1>2. Done' = Done /\ Pipe' = Pipe /\ Piped' = Piped
  BY <1>1, PipeStill DEF Done
<1>3. ~Fresh /\ ~Fresh' /\ Again' = 0 /\ Again = 0
  BY <1>1 DEF Fresh, Again, AgainInHand
<1>4. Pending' = Pending
  BY <1>2, <1>3 DEF Pending
<1>5. InOrder' /\ Partition' /\ DropsCounted' /\ NoForeignFrameHandled'
  BY <1>1, <1>2, <1>3, <1>4, NothingMoves, DeliveryTypes
<1>6. Wakeups' = Wakeups
  BY <1>1, CountTypes DEF Wakeups, DeliveryInv, BoxInv, RxInv
<1>7. NoEarlyRepeat'
  BY <1>1, <1>6 DEF DeliveryInv, Delivered, NoEarlyRepeat, Unfit
<1>8. ThreadStart' /\ LatestKept' /\ OnceEach'
  BY <1>1, <1>2, <1>3 DEF DeliveryInv, Delivered, ThreadStart, LatestKept, OnceEach
<1>9. ForeignGone'
  BY <1>1, <1>4, <1>5 DEF DeliveryInv, Delivered, ForeignGone
<1> QED BY <1>5, <1>7, <1>8, <1>9 DEF Delivered

\* Detaching a box takes the oldest frame in hand; a wakeup that finds none
\* comes when the latest frame delivered is in msg_buff.
LEMMA DetachDelivers == ASSUME DeliveryInv, DetachBox PROVE Delivered'
<1>1. /\ pc = "read"
      /\ UNCHANGED <<boot, hwfifo, data, msg_buff, arrived, foreign, handled, sem,
                     ignored, lost, fov, dropedrcvpkg>>
  BY DEF DetachBox, hwVars, busVars
<1>2. Done' = Done /\ ~Fresh /\ Again = 0 /\ Pending = Piped
  BY <1>1 DEF Done, Fresh, Again, AgainInHand, Pending
<1>3. \/ msg_buff = NoFrame /\ Done = {}
      \/ msg_buff \in Done /\ \A c \in Done : c <= msg_buff
  BY <1>1 DEF DeliveryInv, Delivered, LatestKept
<1>4. CASE uselist # <<>>
  <2> DEFINE x == data[Head(uselist)]
  <2>1. /\ pc' = "copy" /\ held' = Head(uselist) /\ uselist' = Tail(uselist)
        /\ stale' = stale
    BY <1>4 DEF DetachBox
  <2>2. /\ Increasing(Pipe') /\ x \in Piped /\ Piped' = Piped \ {x}
        /\ \A y \in Piped' : x < y
    BY <1>1, <1>4, <2>1, DetachEffect, DeliveryTypes
  <2>3. Fresh' /\ HandFrame' = x /\ Again' = 0
    BY <1>1, <2>1 DEF Fresh, HandFrame, Again, AgainInHand
  <2> HIDE DEF x
  <2>4. Pending' = Pending
    BY <1>2, <2>2, <2>3 DEF Pending
  <2>5. InOrder' /\ Partition' /\ DropsCounted' /\ NoForeignFrameHandled'
    BY <1>1, <1>2, <2>2, <2>3, <2>4, NothingMoves
  <2>6. ThreadStart' /\ LatestKept' /\ NoEarlyRepeat'
    BY <1>1, <1>2, <1>3, <2>1
    DEF DeliveryInv, Delivered, ThreadStart, LatestKept, NoEarlyRepeat
  <2>7. OnceEach'
    BY <1>1, <1>2, <2>1, <2>3 DEF DeliveryInv, Delivered, OnceEach
  <2>8. ForeignGone'
    BY <1>1, <2>1, <2>4, <2>5 DEF DeliveryInv, Delivered, ForeignGone
  <2> QED BY <2>5, <2>6, <2>7, <2>8 DEF Delivered
<1>5. CASE uselist = <<>>
  <2>1. pc' = "callback" /\ stale' = stale + 1 /\ uselist' = uselist
    BY <1>5 DEF DetachBox
  <2>2. Pipe' = Pipe /\ Piped' = Piped
    BY <1>1, <2>1, PipeStill
  <2>3. Wakeups # 0
    <3>1. sem \in Nat
      BY CountTypes DEF DeliveryInv, BoxInv, RxInv
    <3> QED BY <1>1, <3>1 DEF Wakeups
  <2>4. ~Unfit
    BY <1>1, <1>5, <2>3 DEF DeliveryInv, Delivered, NoEarlyRepeat
  <2>5. msg_buff \in Done /\ \A c \in Done : c <= msg_buff
    BY <1>3, <2>4 DEF Unfit
  <2>6. ~Fresh' /\ Again' = 1
    BY <1>1, <1>2, <2>1, <2>5 DEF Fresh, Again, AgainInHand, Done
  <2>7. Pending' = Pending
    BY <1>2, <2>2, <2>6 DEF Pending
  <2>8. InOrder' /\ Partition' /\ DropsCounted' /\ NoForeignFrameHandled'
    BY <1>1, <1>2, <2>2, <2>6, <2>7, NothingMoves, DeliveryTypes
  <2>9. ThreadStart' /\ LatestKept' /\ NoEarlyRepeat'
    BY <1>1, <1>2, <2>1, <2>5
    DEF DeliveryInv, Delivered, ThreadStart, LatestKept, NoEarlyRepeat
  <2>10. OnceEach'
    <3>1. stale \in Nat /\ (stale = 0 => Distinct(handled))
      BY <1>2, DeliveryTypes DEF DeliveryInv, Delivered, OnceEach
    <3>2. Again' <= stale' /\ (stale' = Again' => stale = 0)
      BY <2>1, <2>6, <3>1
    <3> QED BY <1>1, <3>1, <3>2 DEF OnceEach, Distinct
  <2>11. ForeignGone'
    BY <1>1, <2>1, <2>4, <2>7, <2>8 DEF DeliveryInv, Delivered, ForeignGone, Unfit
  <2> QED BY <2>8, <2>9, <2>10, <2>11 DEF Delivered
<1> QED BY <1>4, <1>5

\* The copy puts the frame in hand into msg_buff.
LEMMA CopyDelivers == ASSUME DeliveryInv, CopyBox PROVE Delivered'
<1>1. /\ pc = "copy" /\ pc' = "release" /\ msg_buff' = data[held]
      /\ UNCHANGED <<boot, uselist, hwfifo, data, arrived, foreign, handled,
                     ignored, lost, stale, fov, dropedrcvpkg>>
  BY DEF CopyBox, hwVars, fifoVars, busVars, histVars
<1>2. Done' = Done /\ Pipe' = Pipe /\ Piped' = Piped
  BY <1>1, PipeStill DEF Done
<1>3. Fresh /\ Fresh' /\ HandFrame' = HandFrame /\ Again' = 0 /\ Again = 0
  BY <1>1 DEF Fresh, HandFrame, Again, AgainInHand
<1>4. Pending' = Pending
  BY <1>2, <1>3 DEF Pending
<1>5. Fresh' => \A x \in Piped' : HandFrame' < x
  BY <1>2, <1>3 DEF DeliveryInv, Delivered, InOrder
<1>6. InOrder' /\ Partition' /\ DropsCounted' /\ NoForeignFrameHandled'
  BY <1>1, <1>2, <1>4, <1>5, NothingMoves, DeliveryTypes
<1>7. ThreadStart' /\ LatestKept' /\ NoEarlyRepeat' /\ OnceEach'
  BY <1>1, <1>2, <1>3
  DEF DeliveryInv, Delivered, ThreadStart, LatestKept, NoEarlyRepeat, OnceEach
<1>8. ForeignGone'
  BY <1>1, <1>4, <1>6 DEF DeliveryInv, Delivered, ForeignGone
<1> QED BY <1>6, <1>7, <1>8 DEF Delivered

\* Giving the box back: the frame stays in msg_buff and has not been delivered.
LEMMA ReleaseDelivers == ASSUME DeliveryInv, ReleaseBox PROVE Delivered'
<1>1. /\ pc = "release" /\ pc' = "callback"
      /\ UNCHANGED <<boot, uselist, hwfifo, data, msg_buff, arrived, foreign, handled,
                     ignored, lost, stale, fov, dropedrcvpkg>>
  BY DEF ReleaseBox, hwVars, busVars, histVars
<1>2. Done' = Done /\ Pipe' = Pipe /\ Piped' = Piped
  BY <1>1, PipeStill DEF Done
<1>3. Fresh /\ HandFrame = msg_buff /\ msg_buff \in Pending
  BY <1>1 DEF Fresh, HandFrame, Pending
<1>4. msg_buff \notin Done
  <2>1. msg_buff \in Nat /\ ~(msg_buff < msg_buff)
    BY DeliveryTypes
  <2> QED BY <1>3, <2>1 DEF DeliveryInv, Delivered, InOrder
<1>5. Fresh' /\ HandFrame' = HandFrame /\ Again' = 0 /\ Again = 0
  BY <1>1, <1>2, <1>3, <1>4 DEF Fresh, HandFrame, Again, AgainInHand, Done
<1>6. Pending' = Pending
  BY <1>2, <1>3, <1>5 DEF Pending
<1>7. Fresh' => \A x \in Piped' : HandFrame' < x
  BY <1>2, <1>3, <1>5 DEF DeliveryInv, Delivered, InOrder
<1>8. InOrder' /\ Partition' /\ DropsCounted' /\ NoForeignFrameHandled'
  BY <1>1, <1>2, <1>6, <1>7, NothingMoves, DeliveryTypes
<1>9. ThreadStart' /\ LatestKept' /\ NoEarlyRepeat' /\ OnceEach'
  BY <1>1, <1>2, <1>4, <1>5
  DEF DeliveryInv, Delivered, ThreadStart, LatestKept, NoEarlyRepeat, OnceEach
<1>10. ForeignGone'
  BY <1>1, <1>3, <1>6, <1>8 DEF DeliveryInv, Delivered, ForeignGone
<1> QED BY <1>8, <1>9, <1>10 DEF Delivered

\* A frame appended to those handled.
LEMMA AppendElems ==
    ASSUME NEW s \in Seq(Nat), NEW m \in Nat
    PROVE  /\ Elems(Append(s, m)) = Elems(s) \cup {m}
           /\ Distinct(s) /\ m \notin Elems(s) => Distinct(Append(s, m))
<1> DEFINE a == Append(s, m)
           n == Len(s)
<1>1. n \in Nat /\ DOMAIN s = 1..n
  BY LenProperties
<1>2. /\ a \in Seq(Nat) /\ Len(a) = n + 1 /\ a[n + 1] = m
      /\ \A i \in 1..n : a[i] = s[i]
  BY AppendProperties
<1>3. DOMAIN a = 1..(n + 1)
  BY <1>2, LenProperties
<1>4. 1..(n + 1) = (1..n) \cup {n + 1} /\ n + 1 \notin 1..n
  BY <1>1
<1> HIDE DEF a, n
<1>5. Elems(a) = Elems(s) \cup {m}
  <2>1. Elems(s) = {s[i] : i \in 1..n} /\ Elems(a) = {a[i] : i \in (1..n) \cup {n + 1}}
    BY <1>1, <1>3, <1>4 DEF Elems
  <2> QED BY <1>2, <2>1
<1>6. Distinct(s) /\ m \notin Elems(s) => Distinct(a)
  BY <1>1, <1>2, <1>3, <1>4 DEF Distinct, Elems
<1> QED BY <1>5, <1>6 DEF a

\* The effect of the callback, bound or not.
LEMMA CallbackEffect ==
    ASSUME DeliveryInv, Callback
    PROVE  /\ pc = "callback" /\ pc' = "take"
           /\ UNCHANGED <<boot, uselist, hwfifo, data, msg_buff, arrived, foreign,
                          lost, stale, fov, dropedrcvpkg>>
           /\ \/ boot = "bound" /\ handled' = Append(handled, msg_buff) /\ ignored' = ignored
              \/ boot # "bound" /\ handled' = handled /\ ignored' = ignored \cup {msg_buff}
           /\ Done' = Done \cup {msg_buff}
           /\ Elems(handled') = IF boot = "bound" THEN Elems(handled) \cup {msg_buff}
                                ELSE Elems(handled)
           /\ Pipe' = Pipe /\ Piped' = Piped /\ Pending' = Piped /\ ~Fresh' /\ Again' = 0
<1>1. /\ pc = "callback" /\ pc' = "take"
      /\ UNCHANGED <<boot, uselist, hwfifo, data, msg_buff, arrived, foreign,
                     lost, stale, fov, dropedrcvpkg>>
      /\ \/ boot = "bound" /\ handled' = Append(handled, msg_buff) /\ ignored' = ignored
         \/ boot # "bound" /\ handled' = handled /\ ignored' = ignored \cup {msg_buff}
  BY DEF Callback, hwVars, fifoVars, busVars
<1>2. Elems(Append(handled, msg_buff)) = Elems(handled) \cup {msg_buff}
  BY AppendElems DEF DeliveryInv, BoxInv, RxInv, TypeInv, TypeOK
<1>3. Elems(handled') = IF boot = "bound" THEN Elems(handled) \cup {msg_buff}
                        ELSE Elems(handled)
  BY <1>1, <1>2
<1>4. Done' = Done \cup {msg_buff}
  BY <1>1, <1>3 DEF Done
<1>5. Pipe' = Pipe /\ Piped' = Piped
  BY <1>1, PipeStill
<1>6. Pending' = Piped /\ ~Fresh' /\ Again' = 0
  BY <1>1, <1>5 DEF Pending, Fresh, Again, AgainInHand
<1> QED BY <1>1, <1>3, <1>4, <1>5, <1>6

\* The callback delivers the frame in hand, or once more the latest one.
LEMMA CallbackDelivers == ASSUME DeliveryInv, Callback PROVE Delivered'
<1>1. /\ pc = "callback" /\ pc' = "take"
      /\ UNCHANGED <<boot, uselist, hwfifo, data, msg_buff, arrived, foreign,
                     lost, stale, fov, dropedrcvpkg>>
      /\ \/ boot = "bound" /\ handled' = Append(handled, msg_buff) /\ ignored' = ignored
         \/ boot # "bound" /\ handled' = handled /\ ignored' = ignored \cup {msg_buff}
  BY CallbackEffect
<1>2. /\ Done' = Done \cup {msg_buff}
      /\ Elems(handled') = IF boot = "bound" THEN Elems(handled) \cup {msg_buff}
                           ELSE Elems(handled)
      /\ Pipe' = Pipe /\ Piped' = Piped /\ Pending' = Piped /\ ~Fresh' /\ Again' = 0
  BY CallbackEffect
<1>t. /\ arrived \in Nat /\ Done \subseteq Nat /\ msg_buff \in Nat /\ stale \in Nat
      /\ Piped \subseteq Nat /\ Pending \subseteq Nat /\ Increasing(Pipe)
  BY DeliveryTypes
<1>i. /\ Fresh => \A x \in Piped : HandFrame < x
      /\ \A c \in Done, x \in Pending : c < x
      /\ 1..arrived = Done \cup lost \cup Pending
      /\ lost \cap Done = {} /\ lost \cap Pending = {}
  BY DEF DeliveryInv, Delivered, InOrder, Partition
<1>3. /\ InOrder' /\ Partition' /\ msg_buff \in 1..arrived
      /\ \A c \in Done' : c <= msg_buff
  <2>1. CASE msg_buff \notin Done
    <3>1. Fresh /\ HandFrame = msg_buff /\ Pending = Piped \cup {msg_buff}
      BY <1>1, <2>1 DEF Fresh, HandFrame, Pending
    <3>2. msg_buff \notin Piped /\ \A x \in Piped : msg_buff < x
      BY <1>t, <1>i, <3>1
    <3>3. \A c \in Done : c < msg_buff
      BY <1>i, <3>1
    <3>4. \A c \in Done', x \in Pending' : c < x
      BY <1>2, <1>i, <3>1, <3>2
    <3>5. InOrder'
      BY <1>2, <1>t, <3>4 DEF InOrder
    <3>6. 1..arrived' = Done' \cup lost' \cup Pending'
      BY <1>1, <1>2, <1>i, <3>1
    <3>7. Partition'
      BY <1>1, <1>2, <1>i, <3>1, <3>2, <3>6 DEF Partition
    <3>8. \A c \in Done' : c <= msg_buff
      BY <1>2, <1>t, <3>3
    <3> QED BY <1>i, <3>1, <3>5, <3>7, <3>8
  <2>2. CASE msg_buff \in Done
    <3>1. ~Fresh /\ Pending = Piped /\ Done' = Done
      BY <1>1, <1>2, <2>2 DEF Fresh, Pending
    <3>2. \A c \in Done : c <= msg_buff
      BY <1>1, <2>2 DEF DeliveryInv, Delivered, LatestKept
    <3>3. InOrder' /\ Partition'
      BY <1>1, <1>2, <1>t, <1>i, <3>1 DEF InOrder, Partition
    <3> QED BY <1>i, <2>2, <3>1, <3>2, <3>3
  <2> QED BY <2>1, <2>2
<1>4. LatestKept'
  BY <1>1, <1>2, <1>3 DEF LatestKept
<1>5. ThreadStart'
  BY <1>1 DEF DeliveryInv, Delivered, ThreadStart
<1>6. boot = "bound" => msg_buff \notin foreign
  BY <1>1 DEF DeliveryInv, Delivered, ForeignGone
<1>7. NoEarlyRepeat'
  <2>1. msg_buff # NoFrame
    BY <1>t, <1>3 DEF NoFrame
  <2> QED BY <1>1, <1>6, <2>1 DEF NoEarlyRepeat, Unfit
<1>8. DropsCounted'
  BY <1>1 DEF DeliveryInv, Delivered, DropsCounted, FovBit
<1>9. OnceEach'
  <2>1. Again <= stale /\ (stale = Again => Distinct(handled))
    BY DEF DeliveryInv, Delivered, OnceEach
  <2>2. CASE msg_buff \notin Done
    <3>1. Again = 0 /\ msg_buff \notin Elems(handled)
      BY <2>2 DEF Again, AgainInHand, Done
    <3>2. stale = 0 => Distinct(handled')
      BY <1>1, <1>t, <2>1, <3>1, AppendElems
      DEF DeliveryInv, BoxInv, RxInv, TypeInv, TypeOK
    <3> QED BY <1>1, <1>2, <1>t, <3>2 DEF OnceEach
  <2>3. CASE msg_buff \in Done
    <3>1. Again = 1
      BY <1>1, <2>3 DEF Again, AgainInHand, Done
    <3>2. stale' # 0 /\ 0 <= stale'
      BY <1>1, <1>t, <2>1, <3>1
    <3> QED BY <1>2, <3>2 DEF OnceEach
  <2> QED BY <2>2, <2>3
<1>10. ForeignGone'
  <2>1. NoForeignFrameHandled'
    BY <1>1, <1>2, <1>6 DEF DeliveryInv, Delivered, ForeignGone, NoForeignFrameHandled
  <2>2. Pending' \subseteq Pending
    BY <1>2 DEF Pending
  <2> QED BY <1>1, <2>1, <2>2 DEF DeliveryInv, Delivered, ForeignGone
<1> QED BY <1>3, <1>4, <1>5, <1>7, <1>8, <1>9, <1>10 DEF Delivered

\* main binds the callback when the thread is blocked and nothing is under way.
LEMMA MainDelivers == ASSUME DeliveryInv, Main PROVE Delivered'
<1>1. /\ IrqIdle /\ CanBlocked
      /\ UNCHANGED <<uselist, hwfifo, data, msg_buff, arrived, foreign, handled, sem,
                     ignored, lost, stale, fov, dropedrcvpkg>>
  BY DEF Main, MainStep, OpenDevice, SetIndicate, SetBaud, SetFilter, StartThread,
     SetCallback, SetParameter, hwVars, fifoVars, busVars, histVars
<1>2. /\ \/ boot = "closed" /\ boot' = "opened" /\ pc' = pc
         \/ boot = "opened" /\ boot' = "indicated" /\ pc' = pc
         \/ boot = "indicated" /\ boot' = "baud" /\ pc' = pc
         \/ boot = "baud" /\ boot' = "filtered" /\ pc' = pc
         \/ boot = "filtered" /\ boot' = "started" /\ pc' \in {"take", "none"}
         \/ boot = "started" /\ boot' = "callback" /\ pc' = pc
         \/ boot = "callback" /\ boot' = "bound" /\ pc' = pc
  BY DEF Main, MainStep, OpenDevice, SetIndicate, SetBaud, SetFilter, StartThread,
     SetCallback, SetParameter
<1>3. pc \in {"none", "take"} /\ pc' \in {"none", "take"} /\ (pc = "take" => sem = 0)
  BY <1>1, <1>2 DEF CanBlocked
<1>4. pc' = pc \/ (pc = "none" /\ pc' = "take" /\ boot' = "started")
  BY <1>2, <1>3 DEF DeliveryInv, Delivered, ThreadStart
<1>5. Done' = Done /\ Pipe' = Pipe /\ Piped' = Piped
  BY <1>1, PipeStill DEF Done
<1>6. ~Fresh /\ ~Fresh' /\ Again' = 0 /\ Again = 0
  BY <1>3 DEF Fresh, Again, AgainInHand
<1>7. Pending' = Pending
  BY <1>5, <1>6 DEF Pending
<1>8. InOrder' /\ Partition' /\ DropsCounted' /\ NoForeignFrameHandled'
  BY <1>1, <1>5, <1>6, <1>7, NothingMoves, DeliveryTypes
<1>9. ThreadStart'
  BY <1>1, <1>2, <1>4, <1>5 DEF DeliveryInv, Delivered, ThreadStart
<1>10. LatestKept' /\ OnceEach'
  BY <1>1, <1>3, <1>5, <1>6 DEF DeliveryInv, Delivered, LatestKept, OnceEach
<1>11. Wakeups' = Wakeups
  BY <1>1, <1>3 DEF Wakeups
<1>12. NoEarlyRepeat'
  <2>1. CASE pc = "take"
    BY <1>1, <1>3, <1>4, <1>11, <2>1 DEF NoEarlyRepeat, Wakeups
  <2>2. CASE pc = "none"
    <3>1. Unfit
      BY <2>2 DEF DeliveryInv, Delivered, ThreadStart, Unfit
    <3> QED BY <1>1, <1>11, <2>2, <3>1 DEF DeliveryInv, Delivered, NoEarlyRepeat
  <2> QED BY <1>3, <2>1, <2>2
<1>13. boot' = "bound" /\ pc' # "none" => Pending = {}
  <2> SUFFICES ASSUME boot' = "bound", pc' # "none" PROVE Pending = {}
    OBVIOUS
  <2>1. pc = "take" /\ sem = 0
    BY <1>3, <1>4
  <2>2. hwfifo = <<>> /\ Len(hwfifo) = 0
    BY <1>1 DEF IrqIdle
  <2>3. Len(uselist) \in Nat /\ Len(uselist) <= 0
    BY <2>1, CountTypes DEF DeliveryInv, BoxInv, RxInv, CountInv, NoLostWakeup, Wakeups
  <2>4. DOMAIN Pipe = 1..(Len(uselist) + Len(hwfifo)) /\ Len(uselist) + Len(hwfifo) = 0
    BY <2>2, <2>3 DEF Pipe
  <2>5. DOMAIN Pipe = {}
    BY <2>4
  <2> QED BY <1>6, <2>5 DEF Pending, Piped, Elems
<1>14. ForeignGone'
  BY <1>1, <1>3, <1>7, <1>8, <1>13 DEF DeliveryInv, Delivered, ForeignGone
<1> QED BY <1>8, <1>9, <1>10, <1>12, <1>14 DEF Delivered

\* Every step keeps the delivery invariant.
LEMMA DeliveryStep == DeliveryInv /\ [Next]_vars => Delivered'
<1> SUFFICES ASSUME DeliveryInv, [Next]_vars PROVE Delivered'
  OBVIOUS
<1>t. dropedrcvpkg \in Nat /\ FovBit \in Nat
  BY DeliveryTypes
<1>1. CASE IsrReceive
  <2>1. /\ hwfifo # <<>> /\ StoreFrame(dropedrcvpkg) /\ FovBit' = FovBit
        /\ UNCHANGED <<boot, pc, held, msg_buff, arrived, foreign, handled, ignored, stale>>
    BY <1>1 DEF IsrReceive, thrVars, busVars, histVars, FovBit
  <2> QED BY <1>t, <2>1, StoreDelivers
<1>2. CASE IsrOverrun
  <2>1. /\ FovBit' = 0
        /\ UNCHANGED <<boot, pc, held, msg_buff, arrived, foreign, handled, ignored, stale>>
    BY <1>2 DEF IsrOverrun, thrVars, busVars, histVars, FovBit
  <2>2. CASE fov /\ hwfifo # <<>>
    <3>1. StoreFrame(dropedrcvpkg + 1) /\ FovBit = 1
      BY <1>2, <2>2 DEF IsrOverrun, FovBit
    <3>2. dropedrcvpkg + 1 \in Nat /\ (dropedrcvpkg + 1) + 0 = dropedrcvpkg + FovBit
      BY <1>t, <3>1
    <3> QED BY <2>1, <2>2, <3>1, <3>2, StoreDelivers
  <2>3. CASE ~(fov /\ hwfifo # <<>>)
    <3>1. UNCHANGED <<hwfifo, uselist, data, sem, lost>>
      BY <1>2, <2>3 DEF IsrOverrun, fifoVars
    <3>2. dropedrcvpkg' = dropedrcvpkg + FovBit
      BY <1>2, <1>t, <2>3 DEF IsrOverrun, FovBit
    <3>3. Done' = Done /\ Fresh' = Fresh /\ ThreadStart' /\ LatestKept' /\ OnceEach'
      BY <2>1, ThreadStill
    <3>4. Pipe' = Pipe /\ Piped' = Piped /\ HandFrame' = HandFrame
      BY <2>1, <3>1, PipeStill DEF HandFrame
    <3>5. Pending' = Pending
      BY <3>3, <3>4 DEF Pending
    <3>6. InOrder' /\ Partition'
      BY <2>1, <3>1, <3>3, <3>4, <3>5 DEF DeliveryInv, Delivered, InOrder, Partition
    <3>7. DropsCounted'
      <4>1. dropedrcvpkg' + FovBit' = dropedrcvpkg + FovBit
        BY <1>t, <2>1, <3>2
      <4> QED BY <3>1, <4>1 DEF DeliveryInv, Delivered, DropsCounted
    <3>8. NoEarlyRepeat' /\ ForeignGone'
      BY <2>1, <3>1, <3>5 DEF DeliveryInv, Delivered, NoEarlyRepeat, Unfit, Wakeups,
         ForeignGone, NoForeignFrameHandled
    <3> QED BY <3>3, <3>6, <3>7, <3>8 DEF Delivered
  <2> QED BY <2>2, <2>3
<1>3. CASE UNCHANGED vars
  <2>1. UNCHANGED <<hwfifo, uselist, data, sem, lost, fov, dropedrcvpkg, boot, pc, held,
                    msg_buff, arrived, foreign, handled, ignored, stale>>
    BY <1>3 DEF vars, hwVars, fifoVars, thrVars, busVars, histVars
  <2>2. Done' = Done /\ Fresh' = Fresh /\ ThreadStart' /\ LatestKept' /\ OnceEach'
    BY <2>1, ThreadStill
  <2>3. Pipe' = Pipe /\ Piped' = Piped /\ HandFrame' = HandFrame
    BY <2>1, PipeStill DEF HandFrame
  <2>4. Pending' = Pending
    BY <2>2, <2>3 DEF Pending
  <2>5. InOrder' /\ Partition'
    BY <2>1, <2>2, <2>3, <2>4 DEF DeliveryInv, Delivered, InOrder, Partition
  <2>6. DropsCounted'
    BY <2>1 DEF DeliveryInv, Delivered, DropsCounted, FovBit
  <2>7. NoEarlyRepeat' /\ ForeignGone'
    BY <2>1, <2>4 DEF DeliveryInv, Delivered, NoEarlyRepeat, Unfit, Wakeups,
       ForeignGone, NoForeignFrameHandled
  <2> QED BY <2>2, <2>5, <2>6, <2>7 DEF Delivered
<1> QED
  BY <1>1, <1>2, <1>3, ArriveDelivers, TakeDelivers, DetachDelivers, CopyDelivers,
     ReleaseDelivers, CallbackDelivers, MainDelivers
  DEF Next, Bus, Isr, CanThread

\* Initially nothing is under way.
LEMMA DeliveryInit == Init => DeliveryInv
<1> SUFFICES ASSUME Init PROVE DeliveryInv
  OBVIOUS
<1>1. BoxInv
  BY CountInit, BoxInit DEF BoxInv
<1>2. /\ boot = "closed" /\ hwfifo = <<>> /\ uselist = <<>> /\ fov = FALSE /\ pc = "none"
      /\ arrived = 0 /\ foreign = {} /\ handled = <<>> /\ ignored = {} /\ lost = {}
      /\ stale = 0 /\ dropedrcvpkg = 0 /\ sem = 0 /\ msg_buff = NoFrame
  BY DEF Init
<1>3. DOMAIN Pipe = {} /\ Piped = {} /\ Increasing(Pipe)
  <2>1. DOMAIN Pipe = 1..(Len(uselist) + Len(hwfifo)) /\ Len(uselist) + Len(hwfifo) = 0
    BY <1>2 DEF Pipe
  <2>2. DOMAIN Pipe = {}
    BY <2>1
  <2> QED BY <2>2 DEF Piped, Elems, Increasing
<1>4. Elems(handled) = {} /\ Distinct(handled)
  BY <1>2 DEF Elems, Distinct
<1>5. Done = {} /\ ~Fresh /\ Pending = {} /\ Again = 0 /\ Wakeups = 0 /\ FovBit = 0
  BY <1>2, <1>3, <1>4 DEF Done, Fresh, Pending, Again, AgainInHand, Wakeups, FovBit
<1>6. InOrder /\ Partition
  BY <1>2, <1>3, <1>5 DEF InOrder, Partition
<1>7. DropsCounted
  BY <1>2, <1>5, FS_EmptySet DEF DropsCounted
<1>8. ThreadStart /\ LatestKept /\ NoEarlyRepeat /\ OnceEach
  BY <1>2, <1>4, <1>5 DEF ThreadStart, LatestKept, NoEarlyRepeat, OnceEach
<1>9. ForeignGone
  BY <1>2, <1>4 DEF ForeignGone, NoForeignFrameHandled
<1> QED BY <1>1, <1>6, <1>7, <1>8, <1>9 DEF DeliveryInv, Delivered

\* The delivery invariant holds in every state.
LEMMA DeliveryInvariance == Spec => []DeliveryInv
<1>1. DeliveryInv /\ [Next]_vars => DeliveryInv'
  BY TypeStep, CountStep, BoxStep, DeliveryStep DEF DeliveryInv, BoxInv, RxInv
<1> QED BY <1>1, DeliveryInit, PTL DEF Spec

-----------------------------------------------------------------------------
\* As long as the driver counted no drop and no overrun is pending, no frame is
\* handled twice and none is missing (rt_hw_can_isr, thread_can_rx).
THEOREM OnceUnlessDropped == Spec => []ExactlyOnceUnlessDropped
<1>1. DeliveryInv => ExactlyOnceUnlessDropped
  <2> SUFFICES ASSUME DeliveryInv, dropedrcvpkg = 0, ~fov
               PROVE  /\ lost = {}
                      /\ \A i, j \in DOMAIN handled : i # j => handled[i] # handled[j]
    BY DEF ExactlyOnceUnlessDropped
  <2>1. lost = {}
    BY DEF DeliveryInv, Delivered, DropsCounted, FovBit
  <2>2. stale = 0
    <3>1. Len(uselist) <= Wakeups /\ Wakeups + stale <= Len(uselist) + 0
      BY DEF DeliveryInv, BoxInv, RxInv, CountInv, NoLostWakeup, WakeupsPaid
    <3>2. Wakeups \in Nat /\ Len(uselist) \in Nat /\ stale \in Nat
      BY CountTypes DEF DeliveryInv, BoxInv, RxInv, Wakeups
    <3> QED BY <3>1, <3>2
  <2>3. Again \in {0, 1} /\ Again <= 0
    BY <2>2 DEF DeliveryInv, Delivered, OnceEach, Again
  <2>4. Distinct(handled)
    <3>1. stale = Again
      BY <2>2, <2>3
    <3> QED BY <3>1 DEF DeliveryInv, Delivered, OnceEach
  <2> QED BY <2>1, <2>4 DEF Distinct
<1> QED BY <1>1, DeliveryInvariance, PTL

\* No frame for another device is handled, although the filter is set after the
\* controller listens: main binds the callback only when the thread is blocked.
THEOREM OwnFramesOnly == Spec => []NoForeignFrameHandled
<1>1. DeliveryInv => NoForeignFrameHandled
  BY DEF DeliveryInv, Delivered, ForeignGone
<1> QED BY <1>1, DeliveryInvariance, PTL

-----------------------------------------------------------------------------
(***************************************************************************)
(* CanRx implements FrameDelivery.  A frame is consumed when the callback   *)
(* is run on it and waits from its arrival until then, unless it is lost.   *)
(***************************************************************************)
Repeats == stale - Again

\* The abstract variables in terms of the invariant.
LEMMA DeliveryMap ==
    ASSUME DeliveryInv
    PROVE  /\ Delivery!Consumed = Done
           /\ Delivery!Waiting = Pending
           /\ Repeats \in Nat
<1>1. Delivery!Consumed = Done
  BY DEF Delivery!Consumed, Done, Elems
<1>2. Done \cap Pending = {}
  <2>1. \A x \in Pending : ~(x < x)
    BY DeliveryTypes
  <2> QED BY <2>1 DEF DeliveryInv, Delivered, InOrder
<1>3. Delivery!Waiting = Pending
  BY <1>1, <1>2 DEF Delivery!Waiting, DeliveryInv, Delivered, Partition
<1>4. Repeats \in Nat
  BY DeliveryTypes DEF DeliveryInv, Delivered, OnceEach, Again, Repeats
<1> QED BY <1>1, <1>3, <1>4

\* The abstract variables, to which a step may leave all as it was.
LEMMA DeliveryStutter ==
    ASSUME (boot = "bound")' = (boot = "bound"), Again' = Again,
           UNCHANGED <<arrived, handled, ignored, lost, stale>>
    PROVE  UNCHANGED Delivery!vars
BY DEF Delivery!vars, Again

\* Repetitions are counted when the callback runs, not before.
LEMMA RepeatsKept ==
    ASSUME DeliveryInv, UNCHANGED <<pc, msg_buff, handled, ignored, stale>>
    PROVE  Again' = Again /\ Repeats' = Repeats
<1>1. Again' = Again
  BY DEF Again, AgainInHand
<1> QED BY <1>1 DEF Repeats

\* The interrupt loses a frame that waits, or none.
LEMMA StoreMaps ==
    ASSUME DeliveryInv, hwfifo # <<>>, NEW drops, StoreFrame(drops),
           UNCHANGED <<boot, pc, held, msg_buff, arrived, handled, ignored, stale>>
    PROVE  [Delivery!Next]_(Delivery!vars)
<1>1. \/ lost' = lost
      \/ \E x \in Piped : lost' = lost \cup {x}
  BY DeliveryTypes, StoreEffect
<1>2. Again' = Again
  BY RepeatsKept
<1>3. CASE lost' = lost
  BY <1>2, <1>3, DeliveryStutter
<1>4. ASSUME NEW x \in Piped, lost' = lost \cup {x} PROVE Delivery!Lose
  <2>1. x \in Delivery!Waiting
    BY DeliveryMap DEF Pending
  <2> QED BY <1>2, <1>4, <2>1 DEF Delivery!Lose, Again
<1> QED BY <1>1, <1>3, <1>4 DEF Delivery!Next

\* A frame arrives and may push out one that waits.
LEMMA ArriveMaps ==
    ASSUME DeliveryInv, NEW own \in BOOLEAN, Arrive(own)
    PROVE  Delivery!Arrive
<1>1. /\ UNCHANGED <<boot, pc, msg_buff, handled, ignored, stale>>
      /\ arrived' = arrived + 1
  BY DEF Arrive, thrVars, histVars
<1>2. \A x \in Piped : x < arrived + 1
  <2>1. \A x \in Piped : x \in 1..arrived
    BY DEF DeliveryInv, Delivered, Partition, Pending
  <2> QED BY <2>1, DeliveryTypes
<1>3. \/ lost' = lost
      \/ \E x \in Piped : lost' = lost \cup {x}
  BY <1>2, DeliveryTypes, ArriveEffect
<1>4. lost' = lost \/ \E x \in Delivery!Waiting : lost' = lost \cup {x}
  BY <1>3, DeliveryMap DEF Pending
<1>5. Again' = Again
  BY <1>1, RepeatsKept
<1> QED BY <1>1, <1>4, <1>5 DEF Delivery!Arrive, Again

\* The callback is run on the oldest frame that waits, or once more on the
\* latest one, which a lost frame has paid for.
LEMMA CallbackMaps ==
    ASSUME DeliveryInv, Callback
    PROVE  Delivery!Handle \/ Delivery!Repeat
<1>1. /\ pc = "callback" /\ Again' = 0
      /\ UNCHANGED <<boot, arrived, lost, stale>>
      /\ \/ boot = "bound" /\ handled' = Append(handled, msg_buff) /\ ignored' = ignored
         \/ boot # "bound" /\ handled' = handled /\ ignored' = ignored \cup {msg_buff}
  BY CallbackEffect
<1>2. Delivery!Deliver(msg_buff)
  BY <1>1 DEF Delivery!Deliver
<1>3. Delivery!Consumed = Done /\ Delivery!Waiting = Pending
  BY DeliveryMap
<1>4. CASE msg_buff \notin Done
  <2>1. Fresh /\ HandFrame = msg_buff /\ Pending = Piped \cup {msg_buff}
    BY <1>1, <1>4 DEF Fresh, HandFrame, Pending
  <2>2. \A g \in Pending : msg_buff <= g
    <3>1. \A x \in Piped : msg_buff < x
      BY <2>1 DEF DeliveryInv, Delivered, InOrder
    <3>2. msg_buff \in Nat /\ Piped \subseteq Nat
      BY DeliveryTypes
    <3> QED BY <2>1, <3>1, <3>2
  <2>3. Again = 0
    BY <1>4 DEF Again, AgainInHand, Done
  <2> QED BY <1>1, <1>2, <1>3, <2>1, <2>2, <2>3 DEF Delivery!Handle, Again
<1>5. CASE msg_buff \in Done
  <2>1. \A g \in Done : g <= msg_buff
    BY <1>1, <1>5 DEF DeliveryInv, Delivered, LatestKept
  <2>2. Again = 1
    BY <1>1, <1>5 DEF Again, AgainInHand, Done
  <2>3. stale \in Nat /\ stale <= dropedrcvpkg /\ dropedrcvpkg <= Cardinality(lost)
        /\ dropedrcvpkg \in Nat /\ Cardinality(lost) \in Nat
    <3>1. Len(uselist) <= Wakeups /\ Wakeups + stale <= Len(uselist) + dropedrcvpkg
      BY DEF DeliveryInv, BoxInv, RxInv, CountInv, NoLostWakeup, WakeupsPaid
    <3>2. /\ Wakeups \in Nat /\ Len(uselist) \in Nat /\ stale \in Nat
          /\ dropedrcvpkg \in Nat
      BY CountTypes DEF DeliveryInv, BoxInv, RxInv, Wakeups
    <3>3. FovBit \in Nat /\ Cardinality(lost) \in Nat
      BY DeliveryTypes
    <3>4. dropedrcvpkg + FovBit <= Cardinality(lost)
      BY DEF DeliveryInv, Delivered, DropsCounted
    <3>5. stale <= dropedrcvpkg
      BY <3>1, <3>2
    <3>6. dropedrcvpkg <= Cardinality(lost)
      BY <3>2, <3>3, <3>4
    <3> QED BY <3>2, <3>3, <3>5, <3>6
  <2>4. Repeats < Cardinality(lost) /\ Repeats' = Repeats + 1
    BY <1>1, <2>2, <2>3 DEF Repeats
  <2>5. \E f \in Delivery!Consumed :
            (\A g \in Delivery!Consumed : g <= f) /\ Delivery!Deliver(f)
    BY <1>2, <1>3, <1>5, <2>1
  <2>6. UNCHANGED <<boot = "bound", arrived, lost>>
    BY <1>1
  <2>7. /\ stale - (IF AgainInHand THEN 1 ELSE 0) < Cardinality(lost)
        /\ (stale - (IF AgainInHand THEN 1 ELSE 0))'
             = (stale - (IF AgainInHand THEN 1 ELSE 0)) + 1
    BY <2>4 DEF Repeats, Again
  <2>8. Delivery!Cardinality(lost) = Cardinality(lost)
    BY Zenon DEF Delivery!Cardinality, Cardinality
  <2> QED BY <2>5, <2>6, <2>7, <2>8 DEF Delivery!Repeat
<1> QED BY <1>4, <1>5

\* main binds the callback; its other steps are invisible.
LEMMA MainMaps ==
    ASSUME DeliveryInv, Main
    PROVE  [Delivery!Next]_(Delivery!vars)
<1>1. UNCHANGED <<arrived, handled, ignored, lost, stale>>
  BY DEF Main, MainStep, OpenDevice, SetIndicate, SetBaud, SetFilter, StartThread,
     SetCallback, SetParameter, busVars, histVars
<1>2. pc \in {"none", "take"} /\ pc' \in {"none", "take"}
  BY DEF Main, MainStep, OpenDevice, SetIndicate, SetBaud, SetFilter, StartThread,
     SetCallback, SetParameter, CanBlocked
<1>3. Again = 0 /\ Again' = 0
  BY <1>2 DEF Again, AgainInHand
<1>4. boot # "bound"
  BY DEF Main, MainStep, OpenDevice, SetIndicate, SetBaud, SetFilter, StartThread,
     SetCallback, SetParameter
<1>5. CASE boot' = "bound"
  BY <1>1, <1>3, <1>4, <1>5 DEF Delivery!Next, Delivery!Bind, Again
<1>6. CASE boot' # "bound"
  BY <1>1, <1>3, <1>4, <1>6, DeliveryStutter
<1> QED BY <1>5, <1>6

\* The other steps of the thread are invisible: taking the semaphore, detaching
\* a box, copying it and giving it back.
LEMMA ThreadMaps ==
    ASSUME DeliveryInv, TakeSem \/ DetachBox \/ CopyBox \/ ReleaseBox
    PROVE  UNCHANGED Delivery!vars
<1>1. UNCHANGED <<boot, arrived, handled, ignored, lost>>
  BY DEF TakeSem, DetachBox, CopyBox, ReleaseBox, busVars, histVars
<1>2. CASE TakeSem \/ CopyBox \/ (DetachBox /\ uselist # <<>>)
  <2>1. stale' = stale /\ pc # "callback" /\ pc' # "callback"
    BY <1>2 DEF TakeSem, CopyBox, DetachBox, histVars
  <2>2. Again' = Again
    BY <2>1 DEF Again, AgainInHand
  <2> QED BY <1>1, <2>1, <2>2, DeliveryStutter
<1>3. CASE ReleaseBox
  <2>1. stale' = stale /\ pc = "release" /\ pc' = "callback" /\ msg_buff' = msg_buff
    BY <1>3 DEF ReleaseBox, histVars
  <2>2. msg_buff \in Pending
    BY <2>1 DEF Pending, Fresh, HandFrame
  <2>3. msg_buff \notin Done
    <3>1. ~(msg_buff < msg_buff)
      BY DeliveryTypes
    <3> QED BY <2>2, <3>1 DEF DeliveryInv, Delivered, InOrder
  <2>4. Again' = Again
    BY <1>1, <2>1, <2>3 DEF Again, AgainInHand, Done
  <2> QED BY <1>1, <2>1, <2>4, DeliveryStutter
<1>4. CASE DetachBox /\ uselist = <<>>
  <2>1. stale' = stale + 1 /\ pc = "read" /\ pc' = "callback" /\ msg_buff' = msg_buff
    BY <1>4 DEF DetachBox
  <2>2. Wakeups # 0
    <3>1. sem \in Nat
      BY CountTypes DEF DeliveryInv, BoxInv, RxInv
    <3> QED BY <2>1, <3>1 DEF Wakeups
  <2>3. msg_buff # NoFrame
    BY <1>4, <2>1, <2>2 DEF DeliveryInv, Delivered, NoEarlyRepeat, Unfit
  <2>4. msg_buff \in Done
    BY <2>1, <2>3 DEF DeliveryInv, Delivered, LatestKept
  <2>5. Again = 0 /\ Again' = 1
    BY <1>1, <2>1, <2>4 DEF Again, AgainInHand, Done
  <2>6. stale' - Again' = stale - Again
    BY <2>1, <2>5, DeliveryTypes
  <2> QED BY <1>1, <2>6 DEF Delivery!vars, Again
<1> QED BY <1>2, <1>3, <1>4

\* Every step of CanRx is a step of FrameDelivery or invisible.
LEMMA DeliveryMaps == DeliveryInv /\ [Next]_vars => [Delivery!Next]_(Delivery!vars)
<1> SUFFICES ASSUME DeliveryInv, [Next]_vars PROVE [Delivery!Next]_(Delivery!vars)
  OBVIOUS
<1>1. ASSUME NEW own \in BOOLEAN, Arrive(own) PROVE Delivery!Next
  BY <1>1, ArriveMaps DEF Delivery!Next
<1>2. CASE IsrReceive
  BY <1>2, StoreMaps DEF IsrReceive, thrVars, busVars, histVars
<1>3. CASE IsrOverrun
  <2>1. UNCHANGED <<boot, pc, held, msg_buff, arrived, handled, ignored, stale>>
    BY <1>3 DEF IsrOverrun, thrVars, busVars, histVars
  <2>2. CASE fov /\ hwfifo # <<>>
    BY <1>3, <2>1, <2>2, StoreMaps DEF IsrOverrun
  <2>3. CASE ~(fov /\ hwfifo # <<>>)
    <3>1. lost' = lost
      BY <1>3, <2>3 DEF IsrOverrun
    <3> QED BY <2>1, <3>1, RepeatsKept, DeliveryStutter
  <2> QED BY <2>2, <2>3
<1>4. CASE TakeSem \/ DetachBox \/ CopyBox \/ ReleaseBox
  BY <1>4, ThreadMaps
<1>5. CASE Callback
  BY <1>5, CallbackMaps DEF Delivery!Next
<1>6. CASE Main
  BY <1>6, MainMaps
<1>7. CASE UNCHANGED vars
  <2>1. UNCHANGED <<boot, pc, msg_buff, arrived, handled, ignored, lost, stale>>
    BY <1>7 DEF vars, thrVars, busVars, histVars
  <2> QED BY <2>1, RepeatsKept, DeliveryStutter
<1> QED
  BY <1>1, <1>2, <1>3, <1>4, <1>5, <1>6, <1>7 DEF Next, Bus, Isr, CanThread

\* The initial states of CanRx are initial for FrameDelivery.
LEMMA DeliveryMapsInit == Init => Delivery!Init
<1> SUFFICES ASSUME Init PROVE Delivery!Init
  OBVIOUS
<1>1. Again = 0
  BY DEF Init, Again, AgainInHand
<1>2. stale = 0 /\ (IF AgainInHand THEN 1 ELSE 0) = 0 /\ 0 - 0 = 0
  BY <1>1 DEF Init, Again
<1>3. (boot = "bound") = FALSE
  BY DEF Init
<1> QED BY <1>2, <1>3 DEF Init, Delivery!Init

\* Boxes, interrupts, semaphore and thread together deliver frames in order,
\* once each unless a frame was lost, and skip none silently.
THEOREM RxImplementsDelivery == Spec => ImplementsDelivery
BY DeliveryMapsInit, DeliveryMaps, DeliveryInvariance, PTL
DEF Spec, ImplementsDelivery, Delivery!Spec

=============================================================================
