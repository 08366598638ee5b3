-------------------------------- MODULE Button --------------------------------
(***************************************************************************)
(* What a press of the button does: the event FLEX_BTN_PRESS_DOWN in the    *)
(* thread "flex_btn", the callback that main binds, the mutex "btn" and the *)
(* thread "btn" created for each press, which asks the master to switch.    *)
(* The statements by which main binds the callback and creates the mutex    *)
(* are here as well: "flex_btn" already runs when main gets there.          *)
(*                                                                         *)
(* "flex_btn" and main have priority 10 and share the processor in slices;  *)
(* a "btn" thread has priority 6, so neither of them runs while one is      *)
(* ready.  It is not ready only while it waits for the CAN channel, which   *)
(* is modelled in CanTx.  The type of the device may change at any time, by *)
(* a frame that the "can" thread (priority 5) handles.                      *)
(***************************************************************************)
EXTENDS Integers, FiniteSets

NoThread == "none"
FlexBtn  == "flex_btn"

CONSTANTS Slot,         \* room on the heap for the objects of "btn" threads
          HoldMax,      \* RT_MUTEX_HOLD_MAX: 255 in the build
          MaxPresses    \* bound on the presses

ASSUME ButtonAssumption ==
    /\ IsFiniteSet(Slot) /\ Slot # {}
    /\ NoThread \notin Slot /\ FlexBtn \notin Slot
    /\ HoldMax \in Nat \ {0}
    /\ MaxPresses \in Nat

VARIABLES
    boot,       \* main: "start", "bound" (btn_cb is set), "ready" (mutex too)
    scanner,    \* "flex_btn": scanning, in the callback, or in an assertion
    mutex,      \* the mutex: existence, owner and number of holds
    btn,        \* the thread objects, by their room on the heap
    avc_switch, \* lock->info->lock_type = AVC_SWITCH
    hist        \* history: what became of the presses

vars == <<boot, scanner, mutex, btn, avc_switch, hist>>

Init ==
    /\ boot = "start" /\ scanner = "scan"
    /\ mutex = [made |-> FALSE, owner |-> NoThread, hold |-> 0]
    /\ btn = [s \in Slot |-> "free"]
    /\ avc_switch \in BOOLEAN
    /\ hist = [presses |-> 0, sent |-> 0, refused |-> 0]

\* A "btn" thread that is not waiting for the channel runs before priority 10.
BtnBlocked == \A s \in Slot : btn[s] \notin {"start", "release"}

(***************************************************************************)
(* rt_mutex_take without waiting, and rt_mutex_release, called by thread t: *)
(* the mutex after the call and the result, which only the first caller     *)
(* looks at.                                                                *)
(***************************************************************************)
rt_mutex_take_Uncapped(t) ==
    [m |-> [mutex EXCEPT !.owner = t, !.hold = @ + 1], res |-> "RT_EOK"]

rt_mutex_take(t) ==
    IF mutex.owner = t
    THEN IF mutex.hold < HoldMax
         THEN [m |-> [mutex EXCEPT !.hold = @ + 1], res |-> "RT_EOK"]
         ELSE [m |-> mutex, res |-> "-RT_EFULL"]
    ELSE IF mutex.owner = NoThread
         THEN [m |-> [mutex EXCEPT !.owner = t, !.hold = 1], res |-> "RT_EOK"]
         ELSE [m |-> mutex, res |-> "-RT_ETIMEOUT"]

rt_mutex_release_AnyOwner(t) ==
    [mutex EXCEPT !.hold = @ - 1, !.owner = IF mutex.hold = 1 THEN NoThread ELSE @]

rt_mutex_release(t) ==
    IF mutex.owner # t THEN mutex
    ELSE [mutex EXCEPT !.hold = @ - 1, !.owner = IF mutex.hold = 1 THEN NoThread ELSE @]

-----------------------------------------------------------------------------
(***************************************************************************)
(* main's last two statements.  The heap has room for the mutex at boot.     *)
(***************************************************************************)
bind_button_press_event ==
    /\ BtnBlocked /\ boot = "start"
    /\ boot' = "bound"
    /\ UNCHANGED <<scanner, mutex, btn, avc_switch, hist>>

rt_mutex_create ==
    /\ BtnBlocked /\ boot = "bound"
    /\ boot' = "ready"
    /\ mutex' = [mutex EXCEPT !.made = TRUE]
    /\ UNCHANGED <<scanner, btn, avc_switch, hist>>

(***************************************************************************)
(* "flex_btn".  A press before btn_cb is bound is no more than logged.      *)
(***************************************************************************)
button_event_cb ==
    /\ BtnBlocked /\ scanner = "scan"
    /\ boot # "start"
    /\ hist.presses < MaxPresses
    /\ scanner' = "take"
    /\ hist' = [hist EXCEPT !.presses = @ + 1]
    /\ UNCHANGED <<boot, mutex, btn, avc_switch>>

\* btn_press_cb compares the result with RT_ERROR, which is 1: no error is.
GivesUp_OnError(res) == res # "RT_EOK"
GivesUp(res) == res = "RT_ERROR"

TakeMutex ==
    /\ BtnBlocked /\ scanner = "take"
    /\ IF ~mutex.made
       THEN scanner' = "assert_mutex" /\ UNCHANGED mutex
       ELSE LET take == rt_mutex_take(FlexBtn) IN
            /\ mutex' = take.m
            /\ scanner' = IF GivesUp(take.res) THEN "scan" ELSE "create"
    /\ UNCHANGED <<boot, btn, avc_switch, hist>>

\* rt_thread_create returns NULL when the heap has no room, which
\* rt_thread_startup asserts it does not.
CreateThread ==
    /\ BtnBlocked /\ scanner = "create"
    /\ IF \A s \in Slot : btn[s] # "free"
       THEN scanner' = "assert_thread" /\ UNCHANGED btn
       ELSE /\ \E s \in Slot : btn[s] = "free" /\ btn' = [btn EXCEPT ![s] = "start"]
            /\ scanner' = "scan"
    /\ UNCHANGED <<boot, mutex, avc_switch, hist>>

(***************************************************************************)
(* thread_btn_press: a device of another type returns at once, without      *)
(* releasing; others build the request and write it to the channel.         *)
(***************************************************************************)
thread_btn_press(s) ==
    /\ btn[s] = "start"
    /\ IF avc_switch
       THEN btn' = [btn EXCEPT ![s] = "write"] /\ UNCHANGED hist
       ELSE /\ btn' = [btn EXCEPT ![s] = "defunct"]
            /\ hist' = [hist EXCEPT !.refused = @ + 1]
    /\ UNCHANGED <<boot, scanner, mutex, avc_switch>>

\* channel->write returns (CanTx: it does); its result is ignored.
WriteReturns(s) ==
    /\ btn[s] = "write"
    /\ btn' = [btn EXCEPT ![s] = "release"]
    /\ hist' = [hist EXCEPT !.sent = @ + 1]
    /\ UNCHANGED <<boot, scanner, mutex, avc_switch>>

ReleaseMutex(s) ==
    /\ btn[s] = "release"
    /\ mutex' = rt_mutex_release(s)
    /\ btn' = [btn EXCEPT ![s] = "defunct"]
    /\ UNCHANGED <<boot, scanner, avc_switch, hist>>

\* The idle thread frees what is left of a thread that has returned.
IdleFrees(s) ==
    /\ BtnBlocked /\ btn[s] = "defunct"
    /\ scanner = "scan"
    /\ btn' = [btn EXCEPT ![s] = "free"]
    /\ UNCHANGED <<boot, scanner, mutex, avc_switch, hist>>

\* 0x07, 0x33 and 0x37 change the type of the device.
ChangeType ==
    /\ avc_switch' = ~avc_switch
    /\ UNCHANGED <<boot, scanner, mutex, btn, hist>>

Main     == bind_button_press_event \/ rt_mutex_create
Callback == TakeMutex \/ CreateThread
BtnThread(s) == thread_btn_press(s) \/ WriteReturns(s) \/ ReleaseMutex(s)

Next ==
    \/ Main \/ button_event_cb \/ Callback \/ ChangeType
    \/ \E s \in Slot : BtnThread(s) \/ IdleFrees(s)

Spec == Init /\ [][Next]_vars

(***************************************************************************)
(* A "btn" thread runs whenever it is ready, its write returns, and the     *)
(* threads of priority 10 and the idle thread run when nothing above them   *)
(* is ready, which is most of the time.  Nobody has to press the button.    *)
(***************************************************************************)
FairSpec ==
    /\ Spec
    /\ SF_vars(Callback)
    /\ \A s \in Slot : WF_vars(BtnThread(s)) /\ SF_vars(IdleFrees(s))
-----------------------------------------------------------------------------
\* Every variable has a value of its C type.
TypeOK ==
    /\ boot \in {"start", "bound", "ready"}
    /\ scanner \in {"scan", "take", "create", "assert_mutex", "assert_thread"}
    /\ mutex \in [made : BOOLEAN, owner : Slot \cup {NoThread, FlexBtn}, hold : 0..HoldMax]
    /\ btn \in [Slot -> {"free", "start", "write", "release", "defunct"}]
    /\ avc_switch \in BOOLEAN
    /\ hist \in [presses : Nat, sent : Nat, refused : Nat]

\* Presses that are on their way: in btn_press_cb or in a "btn" thread that has
\* not written yet.
Started == {s \in Slot : btn[s] \in {"start", "write"}}
InHand  == Cardinality(Started) + (IF scanner = "scan" THEN 0 ELSE 1)

\* No press is lost or doubled: each is a request that was sent, or a refusal
\* by a device that is no AVC switch, or still on its way.  This holds after
\* any number of presses only because btn_press_cb never gives up: from the
\* (HoldMax + 1)-th press on the mutex cannot be taken.
NoPressLost == hist.presses = hist.sent + hist.refused + InHand

\* The mutex excludes nothing: once "flex_btn" has taken it, it owns it for
\* good, since no release by a "btn" thread succeeds, and each further press
\* adds a hold.  Only the first press can come between the binding of the
\* callback and the creation of the mutex, and stop the scanner for good.
HeldForGood ==
    LET taken == hist.presses - (IF scanner \in {"take", "assert_mutex"} THEN 1 ELSE 0) IN
    /\ mutex.owner = (IF taken > 0 THEN FlexBtn ELSE NoThread)
    /\ mutex.hold = (IF taken <= HoldMax THEN taken ELSE HoldMax)
    /\ scanner = "assert_mutex" => hist.presses = 1

\* Once a press is seen it is answered by a request or refused, unless the
\* scanner has run into an assertion, and its thread is freed again.
PressAnswered ==
    \A n \in 1..MaxPresses :
        hist.presses >= n ~>
            \/ hist.sent + hist.refused >= n /\ \A s \in Slot : btn[s] # "defunct"
            \/ scanner \in {"assert_mutex", "assert_thread"}

=============================================================================
