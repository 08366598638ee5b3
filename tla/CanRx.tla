-------------------------------- MODULE CanRx --------------------------------
(***************************************************************************)
(* The receive path of the CAN channel: the controller's three-deep        *)
(* hardware FIFO, the RX0 interrupt, the driver's list of message boxes,    *)
(* the "can rx" semaphore, the "can" thread and the callback that main      *)
(* binds.  The steps by which main opens the channel are here too, because  *)
(* frames can arrive between any two of them.                               *)
(*                                                                         *)
(* A frame is the number of its arrival: what it carries is the subject of  *)
(* other modules, here only its identity, its order and whether it was      *)
(* addressed to this device matter.                                         *)
(*                                                                         *)
(* One CPU runs interrupts before threads and the "can" thread (priority 5) *)
(* before main (priority 10): a thread steps only when no receive interrupt *)
(* is pending, main only when the "can" thread is blocked as well.          *)
(***************************************************************************)
EXTENDS Integers, Sequences, FiniteSets

CONSTANTS MsgBoxSz,     \* config.msgboxsz: RT_CANMSG_BOX_SZ, 16 in the build
          HwFifoSz,     \* depth of the receive FIFO of the controller: 3
          SemMax,       \* RT_SEM_VALUE_MAX
          MaxFrames     \* bound on the frames that arrive

ASSUME RxAssumption ==
    /\ MsgBoxSz \in Nat /\ MsgBoxSz >= 2
    /\ HwFifoSz \in Nat /\ HwFifoSz >= 1
    /\ SemMax \in Nat /\ SemMax >= MsgBoxSz
    /\ MaxFrames \in Nat

VARIABLES
    boot,           \* how far main has come in opening the channel
    hwfifo, fov,    \* the controller: received frames, overrun flag FOV0
    isr,            \* where the RX0 handler is
    uselist, freelist, data, freenumbers,   \* struct rt_can_rx_fifo
    dropedrcvpkg,   \* can->status.dropedrcvpkg
    sem,            \* value of the "can rx" semaphore
    pc, held,       \* the "can" thread and the box it is copying from
    msg_buff,       \* self.msg_buff of can_channel.c
    arrived, foreign,               \* history: frames seen, those not for us
    handled, ignored, lost, stale   \* history: what became of them

hwVars   == <<hwfifo, fov>>
fifoVars == <<uselist, freelist, data, freenumbers>>
thrVars  == <<pc, held, msg_buff>>
histVars == <<handled, ignored, stale>>
busVars  == <<arrived, foreign>>
vars == <<boot, hwVars, isr, fifoVars, dropedrcvpkg, sem, thrVars, busVars,
          histVars, lost>>

Box     == 1..MsgBoxSz
NoBox   == 0
NoFrame == 0
Frame   == 1..MaxFrames

\* The statements of can_channel_open and main, by the one executed last.
BootSteps == {"closed", "opened", "indicated", "baud", "filtered", "started",
              "callback", "bound"}

Init ==
    /\ boot = "closed"
    /\ hwfifo = <<>> /\ fov = FALSE /\ isr = "idle"
    /\ uselist = <<>> /\ freelist = [i \in Box |-> i]
    /\ data = [b \in Box |-> NoFrame] /\ freenumbers = MsgBoxSz
    /\ dropedrcvpkg = 0 /\ sem = 0
    /\ pc = "none" /\ held = NoBox /\ msg_buff = NoFrame
    /\ arrived = 0 /\ foreign = {}
    /\ handled = <<>> /\ ignored = {} /\ lost = {} /\ stale = 0

(***************************************************************************)
(* The controller.  Until SET_BAUD it samples a 20 kBaud bus at 1 MBaud and *)
(* receives nothing; until SET_FILTER its default filter (mask 0) accepts   *)
(* every identifier.  The FIFO is not locked, so a frame that finds it full *)
(* overwrites the newest one and raises FOV0.                               *)
(***************************************************************************)
Listening == boot \notin {"closed", "opened", "indicated"}
FilterSet == boot \in {"filtered", "started", "callback", "bound"}

Arrive(own) ==
    /\ Listening /\ (own \/ ~FilterSet)
    /\ arrived < MaxFrames
    /\ arrived' = arrived + 1
    /\ foreign' = IF own THEN foreign ELSE foreign \cup {arrived + 1}
    /\ IF Len(hwfifo) < HwFifoSz
       THEN /\ hwfifo' = Append(hwfifo, arrived + 1)
            /\ UNCHANGED <<fov, lost>>
       ELSE /\ hwfifo' = [hwfifo EXCEPT ![Len(hwfifo)] = arrived + 1]
            /\ fov' = TRUE
            /\ lost' = lost \cup {hwfifo[Len(hwfifo)]}
    /\ UNCHANGED <<boot, isr, fifoVars, dropedrcvpkg, sem, thrVars, histVars>>

(***************************************************************************)
(* rt_hw_can_isr, RT_CAN_EVENT_RX_IND: the frame goes to a free box, or to  *)
(* the box of the oldest unread frame, which is dropped; rx_indicate then   *)
(* releases the semaphore whether or not a frame was dropped.               *)
(***************************************************************************)
IndicateSet_AfterFilter == FilterSet
IndicateSet == boot \notin {"closed", "opened"}

can_rx_call_Uncapped ==
    sem' = IF IndicateSet /\ uselist' # <<>> THEN sem + 1 ELSE sem
can_rx_call_Twice ==
    sem' = IF IndicateSet /\ uselist' # <<>> /\ sem + 1 < SemMax THEN sem + 2 ELSE sem
can_rx_call ==
    sem' = IF IndicateSet /\ uselist' # <<>> /\ sem < SemMax THEN sem + 1 ELSE sem

\* rt_list_insert_before the head of a list puts a node at its tail.
insert_before_Front(list, b) == <<b>> \o list
insert_before(list, b) == Append(list, b)

StoreFrame(drops) ==
    LET f == Head(hwfifo) IN
    /\ hwfifo' = Tail(hwfifo)
    /\ IF freelist # <<>>
       THEN /\ freelist' = Tail(freelist)
            /\ freenumbers' = freenumbers - 1
            /\ uselist' = insert_before(uselist, Head(freelist))
            /\ data' = [data EXCEPT ![Head(freelist)] = f]
            /\ dropedrcvpkg' = drops
            /\ UNCHANGED lost
       ELSE IF uselist # <<>>
       THEN /\ uselist' = insert_before(Tail(uselist), Head(uselist))
            /\ data' = [data EXCEPT ![Head(uselist)] = f]
            /\ dropedrcvpkg' = drops + 1
            /\ lost' = lost \cup {data[Head(uselist)]}
            /\ UNCHANGED <<freelist, freenumbers>>
       ELSE /\ dropedrcvpkg' = drops
            /\ lost' = lost \cup {f}
            /\ UNCHANGED fifoVars
    /\ can_rx_call

\* _can_rx_isr: one frame per interrupt ...
IsrReceive ==
    /\ isr = "idle" /\ hwfifo # <<>>
    /\ StoreFrame(dropedrcvpkg)
    /\ isr' = "overrun"
    /\ UNCHANGED <<boot, fov, thrVars, busVars, histVars>>

\* ... and one more, by RT_CAN_EVENT_RXOF_IND, when the FIFO had overrun.
IsrOverrun_Uncounted ==
    /\ isr = "overrun"
    /\ isr' = "idle"
    /\ fov' = FALSE
    /\ IF fov /\ hwfifo # <<>>
       THEN StoreFrame(dropedrcvpkg)
       ELSE UNCHANGED <<hwfifo, fifoVars, dropedrcvpkg, sem, lost>>
    /\ UNCHANGED <<boot, thrVars, busVars, histVars>>

IsrOverrun ==
    /\ isr = "overrun"
    /\ isr' = "idle"
    /\ fov' = FALSE
    /\ IF fov
       THEN IF hwfifo # <<>>
            THEN StoreFrame(dropedrcvpkg + 1)
            ELSE /\ dropedrcvpkg' = dropedrcvpkg + 1
                 /\ UNCHANGED <<hwfifo, fifoVars, sem, lost>>
       ELSE UNCHANGED <<hwfifo, fifoVars, dropedrcvpkg, sem, lost>>
    /\ UNCHANGED <<boot, thrVars, busVars, histVars>>

IrqIdle    == isr = "idle" /\ hwfifo = <<>>
CanBlocked_Never == TRUE
CanBlocked == pc = "none" \/ (pc = "take" /\ sem = 0)

(***************************************************************************)
(* thread_can_rx.  rt_device_read's result is ignored, so a wakeup that     *)
(* finds uselist empty goes on with the frame already in msg_buff.          *)
(***************************************************************************)
TakeSem_Drain ==
    /\ IrqIdle /\ pc = "take" /\ sem > 0
    /\ sem' = 0
    /\ pc' = "read"
    /\ UNCHANGED <<boot, hwVars, isr, fifoVars, dropedrcvpkg, held, msg_buff,
                   busVars, histVars, lost>>

TakeSem ==
    /\ IrqIdle /\ pc = "take" /\ sem > 0
    /\ sem' = sem - 1
    /\ pc' = "read"
    /\ UNCHANGED <<boot, hwVars, isr, fifoVars, dropedrcvpkg, held, msg_buff,
                   busVars, histVars, lost>>

\* _can_int_rx, first critical section: detach the oldest box.
DetachBox ==
    /\ IrqIdle /\ pc = "read"
    /\ IF uselist # <<>>
       THEN /\ held' = Head(uselist)
            /\ uselist' = Tail(uselist)
            /\ pc' = "copy"
            /\ UNCHANGED stale
       ELSE /\ pc' = "callback"
            /\ stale' = stale + 1
            /\ UNCHANGED <<held, uselist>>
    /\ UNCHANGED <<boot, hwVars, isr, freelist, data, freenumbers, dropedrcvpkg,
                   sem, msg_buff, busVars, handled, ignored, lost>>

\* The copy runs with interrupts enabled.
CopyBox ==
    /\ IrqIdle /\ pc = "copy"
    /\ msg_buff' = data[held]
    /\ pc' = "release"
    /\ UNCHANGED <<boot, hwVars, isr, fifoVars, dropedrcvpkg, sem, held, busVars,
                   histVars, lost>>

\* _can_int_rx, second critical section.
ReleaseBox_Leak ==
    /\ IrqIdle /\ pc = "release"
    /\ held' = NoBox
    /\ pc' = "callback"
    /\ UNCHANGED <<boot, hwVars, isr, fifoVars, dropedrcvpkg, sem, msg_buff,
                   busVars, histVars, lost>>

ReleaseBox_Uncounted ==
    /\ IrqIdle /\ pc = "release"
    /\ freelist' = insert_before(freelist, held)
    /\ held' = NoBox
    /\ pc' = "callback"
    /\ UNCHANGED <<boot, hwVars, isr, uselist, data, freenumbers, dropedrcvpkg,
                   sem, msg_buff, busVars, histVars, lost>>

ReleaseBox ==
    /\ IrqIdle /\ pc = "release"
    /\ freelist' = insert_before(freelist, held)
    /\ freenumbers' = freenumbers + 1
    /\ held' = NoBox
    /\ pc' = "callback"
    /\ UNCHANGED <<boot, hwVars, isr, uselist, data, dropedrcvpkg, sem, msg_buff,
                   busVars, histVars, lost>>

\* A frame met by no callback, or by rx_cb with a NULL parameter, is ignored.
Callback ==
    /\ IrqIdle /\ pc = "callback"
    /\ pc' = "take"
    /\ IF boot = "bound"
       THEN /\ handled' = Append(handled, msg_buff)
            /\ UNCHANGED ignored
       ELSE /\ ignored' = ignored \cup {msg_buff}
            /\ UNCHANGED handled
    /\ UNCHANGED <<boot, hwVars, isr, fifoVars, dropedrcvpkg, sem, held, msg_buff,
                   busVars, lost, stale>>

(***************************************************************************)
(* main: can_channel_open, statement by statement, then the two assignments *)
(* of set_rx_callback.  Creating the thread may fail, which main ignores.   *)
(***************************************************************************)
MainStep(from, to) ==
    /\ IrqIdle /\ CanBlocked
    /\ boot = from
    /\ boot' = to
    /\ UNCHANGED <<hwVars, isr, fifoVars, dropedrcvpkg, sem, held, msg_buff,
                   busVars, histVars, lost>>

OpenDevice   == MainStep("closed", "opened")      /\ UNCHANGED pc
SetIndicate  == MainStep("opened", "indicated")   /\ UNCHANGED pc
SetBaud      == MainStep("indicated", "baud")     /\ UNCHANGED pc
SetFilter    == MainStep("baud", "filtered")      /\ UNCHANGED pc
StartThread  == MainStep("filtered", "started")   /\ pc' \in {"take", "none"}
SetCallback  == MainStep("started", "callback")   /\ UNCHANGED pc
SetParameter == MainStep("callback", "bound")     /\ UNCHANGED pc

CanThread == TakeSem \/ DetachBox \/ CopyBox \/ ReleaseBox \/ Callback
Isr       == IsrReceive \/ IsrOverrun
Main      == \/ OpenDevice \/ SetIndicate \/ SetBaud \/ SetFilter
             \/ StartThread \/ SetCallback \/ SetParameter
Bus       == \E own \in BOOLEAN : Arrive(own)

Next == Bus \/ Isr \/ CanThread \/ Main

Spec == Init /\ [][Next]_vars

(***************************************************************************)
(* Interrupts are served, and a thread that stays ready runs: MaxFrames     *)
(* ends the arrivals, as the 20 kBaud bus spaces them out in reality.       *)
(***************************************************************************)
FairSpec == Spec /\ WF_vars(Isr) /\ WF_vars(CanThread) /\ WF_vars(Main)
-----------------------------------------------------------------------------
Elems(s) == {s[i] : i \in DOMAIN s}
Distinct(s) == \A i, j \in DOMAIN s : s[i] = s[j] => i = j

\* Every variable of the receive path has a value of its C type.
TypeOK ==
    /\ boot \in BootSteps
    /\ hwfifo \in Seq(Nat) /\ fov \in BOOLEAN /\ isr \in {"idle", "overrun"}
    /\ uselist \in Seq(Box) /\ freelist \in Seq(Box)
    /\ data \in [Box -> Nat] /\ freenumbers \in Int
    /\ dropedrcvpkg \in Nat /\ sem \in 0..SemMax
    /\ pc \in {"none", "take", "read", "copy", "release", "callback"}
    /\ held \in Box \cup {NoBox} /\ msg_buff \in Nat
    /\ arrived \in Nat /\ foreign \subseteq Nat
    /\ handled \in Seq(Nat) /\ ignored \subseteq Nat /\ lost \subseteq Nat
    /\ stale \in Nat

\* Wakeups the "can" thread still has to act on.
Wakeups == sem + (IF pc = "read" THEN 1 ELSE 0)

\* No lost wakeup: the semaphore, with the wakeup in progress, covers every
\* frame in uselist (rx_indicate is set before the first frame can arrive), so
\* the thread never blocks while a frame waits.
NoLostWakeup == Len(uselist) <= Wakeups

\* A wakeup that finds uselist empty makes the callback run again on the frame
\* in msg_buff; that happens at most once for each frame the driver counted as
\* dropped when its boxes ran out.
DuplicatesBounded == stale <= dropedrcvpkg

\* The boxes are conserved: each is in uselist, in freelist or in the hands of
\* the thread, in one place only, and freenumbers counts freelist.  Without
\* this the interrupt could overwrite a box that is queued or being copied.
BoxesConserved ==
    /\ freenumbers = Len(freelist)
    /\ Distinct(uselist) /\ Distinct(freelist)
    /\ Elems(uselist) \cap Elems(freelist) = {}
    /\ Elems(uselist) \cup Elems(freelist)
         = Box \ (IF pc \in {"copy", "release"} THEN {held} ELSE {})
    /\ (held # NoBox) <=> (pc \in {"copy", "release"})

\* The interrupt always finds a box, free or recyclable, even while the thread
\* has one: the branch with listmsg = NULL, which would lose the new frame and
\* index can->hdr with an uninitialised hdr, is never taken.
IsrFindsBox == freelist # <<>> \/ uselist # <<>>

\* As long as the driver reports no dropped frame, no frame is handled twice
\* and none is missing.
ExactlyOnceUnlessDropped ==
    dropedrcvpkg = 0 /\ ~fov =>
        /\ lost = {}
        /\ \A i, j \in DOMAIN handled : i # j => handled[i] # handled[j]

\* No frame addressed to another device is handled, although the filter lets
\* every frame in between SET_BAUD and SET_FILTER: the thread consumes them
\* before main can bind the callback.
NoForeignFrameHandled == Elems(handled) \cap foreign = {}

\* Once the thread runs, every frame that has arrived is handled, ignored or
\* lost in the end.
FramesSettle ==
    \A f \in Frame :
        (f <= arrived /\ pc # "none") ~> (f \in Elems(handled) \cup ignored \cup lost)

=============================================================================
