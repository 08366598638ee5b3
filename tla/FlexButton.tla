------------------------------ MODULE FlexButton ------------------------------
(***************************************************************************)
(* The scanner of the button: the state machine of flex_button_scan, run    *)
(* every 20 ms by the thread "flex_btn", for the one button that button.c   *)
(* registers.  Times are counted in scans.  The pin may change any number   *)
(* of times between two scans; what counts is its level at the scan.        *)
(***************************************************************************)
EXTENDS Integers, Sequences

CONSTANTS Interval,     \* MAX_MULTIPLE_CLICKS_INTERVAL: 15 scans
          ShortTick,    \* short_press_start_tick: 75 scans
          LongTick,     \* long_press_start_tick: 150 scans
          HoldTick,     \* long_hold_start_tick: 225 scans
          CntMod,       \* 2^16: scan_cnt and click_cnt are uint16_t
          MaxClicks     \* bound on the clicks of one gesture

ASSUME FlexAssumption ==
    /\ Interval \in Nat /\ ShortTick \in Nat /\ LongTick \in Nat
    /\ HoldTick \in Nat /\ CntMod \in Nat /\ MaxClicks \in Nat
    /\ 0 < Interval /\ Interval + 1 < ShortTick /\ ShortTick < LongTick
    /\ LongTick < HoldTick /\ HoldTick < CntMod - 1
    /\ MaxClicks < CntMod

\* flex_button_event_t.
PRESS_DOWN == 0
REPEAT_CLICK == 3
SHORT_START == 4
SHORT_UP == 5
LONG_START == 6
LONG_UP == 7
LONG_HOLD == 8
LONG_HOLD_UP == 9
NONE == 11

VARIABLES
    pin,        \* the button is pressed: the level of PIN_KEY0
    status,     \* FLEX_BTN_STAGE_*
    scan_cnt, click_cnt, event,     \* of flex_button_t
    sampled,    \* history: the pin at the last scan
    owed,       \* history: presses seen by a scan and not yet reported
    log         \* history: events since the last press down or click report

btnVars == <<status, scan_cnt, click_cnt, event>>
vars == <<pin, btnVars, sampled, owed, log>>

\* flex_button_register.
Init ==
    /\ pin = FALSE
    /\ status = "DEFAULT" /\ scan_cnt = 0 /\ click_cnt = 0 /\ event = NONE
    /\ sampled = FALSE /\ owed = 0 /\ log = <<>>

\* The finger.  The bound on clicks is a bound on this environment.
Move ==
    /\ pin \/ status = "DEFAULT" \/ click_cnt < MaxClicks
    /\ pin' = ~pin
    /\ UNCHANGED <<btnVars, sampled, owed, log>>

-----------------------------------------------------------------------------
\* scan_cnt is counted at the start of a scan, and is not let wrap.
Counted_Wraps == (scan_cnt + 1) % CntMod
Counted == LET c == (scan_cnt + 1) % CntMod
           IN  IF c >= CntMod - 1 THEN HoldTick ELSE c

\* EVENT_SET_AND_EXEC_CB; only PRESS_DOWN makes button_event_cb do something.
Report(e) ==
    /\ event' = e
    /\ log' = IF e <= REPEAT_CLICK THEN <<e>> ELSE Append(log, e)

Silent == UNCHANGED <<event, log>>

\* A scan that sees the pin: a press is new if the last scan saw none.
SeesPress(reported) ==
    owed' = owed + (IF pin /\ ~sampled THEN 1 ELSE 0) - reported

ClickEvent == IF click_cnt < REPEAT_CLICK THEN click_cnt ELSE REPEAT_CLICK

StageDefault ==
    /\ status = "DEFAULT"
    /\ IF pin
       THEN /\ scan_cnt' = 0 /\ click_cnt' = 0
            /\ Report(PRESS_DOWN)
            /\ status' = "DOWN"
       ELSE /\ event' = NONE
            /\ UNCHANGED <<status, scan_cnt, click_cnt, log>>
    /\ SeesPress(0)

\* What a press that has lasted c scans is called when it goes on and when it
\* ends; NONE while it is still a click.
StartOf(c) == CASE c >= HoldTick  -> LONG_HOLD
                [] c >= LongTick  -> LONG_START
                [] c >= ShortTick -> SHORT_START
                [] OTHER          -> NONE
UpOf(c) == CASE c >= HoldTick  -> LONG_HOLD_UP
             [] c >= LongTick  -> LONG_UP
             [] c >= ShortTick -> SHORT_UP
             [] OTHER          -> NONE

\* Each start is reported at the first scan that finds it.
NewStart_Always(c) == StartOf(c) # NONE
NewStart(c) == StartOf(c) \notin {NONE, event}

DownPressed(c) ==
    IF click_cnt > 0
    THEN IF c > Interval
         THEN /\ Report(ClickEvent)
              /\ scan_cnt' = 0 /\ click_cnt' = 0 /\ status' = "DOWN"
              /\ SeesPress(click_cnt)
         ELSE Silent /\ scan_cnt' = c /\ UNCHANGED <<status, click_cnt>> /\ SeesPress(0)
    ELSE /\ IF NewStart(c) THEN Report(StartOf(c)) ELSE Silent
         /\ scan_cnt' = c /\ UNCHANGED <<status, click_cnt>>
         /\ SeesPress(0)

DownReleased(c) ==
    /\ scan_cnt' = c
    /\ IF UpOf(c) # NONE
       THEN /\ Report(UpOf(c))
            /\ status' = "DEFAULT"
            /\ UNCHANGED click_cnt
            /\ SeesPress(1)
       ELSE /\ Silent
            /\ status' = "MULTIPLE_CLICK"
            /\ click_cnt' = (click_cnt + 1) % CntMod
            /\ SeesPress(0)

StageDown ==
    /\ status = "DOWN"
    /\ IF pin THEN DownPressed(Counted) ELSE DownReleased(Counted)

MultiplePressed_Forgets ==
    /\ status' = "DOWN" /\ scan_cnt' = 0 /\ click_cnt' = 0
    /\ Silent /\ SeesPress(0)
MultiplePressed ==
    /\ status' = "DOWN" /\ scan_cnt' = 0
    /\ UNCHANGED click_cnt
    /\ Silent /\ SeesPress(0)

MultipleReleased_Waits(c) ==
    scan_cnt' = c /\ UNCHANGED <<status, click_cnt>> /\ Silent /\ SeesPress(0)
MultipleReleased(c) ==
    /\ scan_cnt' = c /\ UNCHANGED click_cnt
    /\ IF c > Interval
       THEN Report(ClickEvent) /\ status' = "DEFAULT" /\ SeesPress(click_cnt)
       ELSE Silent /\ UNCHANGED status /\ SeesPress(0)

StageMultipleClick ==
    /\ status = "MULTIPLE_CLICK"
    /\ IF pin THEN MultiplePressed ELSE MultipleReleased(Counted)

\* flex_button_scan: flex_button_read, then flex_button_process.
Scan ==
    /\ StageDefault \/ StageDown \/ StageMultipleClick
    /\ sampled' = pin
    /\ UNCHANGED pin

Next == Scan \/ Move

Spec == Init /\ [][Next]_vars

\* button_scan calls flex_button_scan every 20 ms for ever; the button may or
\* may not move.
FairSpec == Spec /\ WF_vars(Scan)
-----------------------------------------------------------------------------
\* Every variable has a value of its C type, and scan_cnt never gets to its
\* largest value.
TypeOK ==
    /\ pin \in BOOLEAN /\ sampled \in BOOLEAN
    /\ status \in {"DEFAULT", "DOWN", "MULTIPLE_CLICK"}
    /\ scan_cnt \in 0..(CntMod - 2) /\ click_cnt \in 0..(CntMod - 1)
    /\ event \in 0..11 /\ owed \in Int /\ log \in Seq(0..11)

\* How far a press has got: a click or less, a short, a long, a held press.
Class(e) == CASE e <= REPEAT_CLICK -> 0
              [] e \in {SHORT_START, SHORT_UP} -> 1
              [] e \in {LONG_START, LONG_UP} -> 2
              [] OTHER -> 3

\* The events of a press come in their order and each once, even when the
\* button is held for so long that scan_cnt is set back to HoldTick, and no
\* class is skipped.  A press may end in the class above the one that was
\* reported as started, since the scan that finds it released counts as well.
EventsInOrder ==
    /\ \A i, j \in DOMAIN log : i < j => log[i] < log[j]
    /\ \A i \in 1..(Len(log) - 1) : Class(log[i + 1]) <= Class(log[i]) + 1

\* Every press that a scan sees is reported once, as part of a click count or
\* by an event of its end: what is not reported yet is in click_cnt or is the
\* press that is going on.
PressesAccounted ==
    owed = (IF status = "DEFAULT" THEN 0 ELSE click_cnt) +
           (IF status = "DOWN" THEN 1 ELSE 0)

\* A button that comes to rest settles its gesture: if it stays released the
\* clicks are reported and the next press is a new one, if it stays pressed it
\* is reported as held.
GestureSettles ==
    /\ ~pin ~> (pin \/ (status = "DEFAULT" /\ owed = 0))
    /\ pin ~> (~pin \/ event = LONG_HOLD)

=============================================================================
