--------------------------- MODULE FlexButtonProofs ---------------------------
(***************************************************************************)
(* Theorems about the scanner of the button, for any ticks in the order     *)
(* that FlexAssumption demands and any width of the counters.               *)
(***************************************************************************)
EXTENDS FlexButton, TLAPS

\* The counter of clicks has room for the press that is going on, and the
\* finger starts no press beyond the bound.
ClickRoom ==
    /\ status = "DOWN" => click_cnt + 1 < CntMod
    /\ status = "MULTIPLE_CLICK" => click_cnt > 0 /\ (pin => click_cnt < MaxClicks)

\* The stage tells what the last scan saw.
StageSampled == sampled <=> (status = "DOWN")

\* A press that follows clicks is told apart from them before it can be taken
\* for a short one.
ClicksFirst == status = "DOWN" /\ click_cnt > 0 => scan_cnt <= Interval

\* While a press goes on, event is the last one reported, and is the one that
\* belongs to the scans counted so far.
EventOfPress ==
    status = "DOWN" /\ click_cnt = 0 =>
        /\ log # <<>> /\ event = log[Len(log)]
        /\ scan_cnt < ShortTick => event <= REPEAT_CLICK
        /\ scan_cnt >= ShortTick => event = StartOf(scan_cnt)

FlexInv ==
    /\ TypeOK /\ ClickRoom /\ StageSampled /\ ClicksFirst
    /\ PressesAccounted /\ EventOfPress /\ EventsInOrder

-----------------------------------------------------------------------------
\* The events above clicks, by the number of scans.
LEMMA StartsAndEnds ==
    ASSUME NEW c \in Nat
    PROVE  /\ StartOf(c) \in 0..11 /\ UpOf(c) \in 0..11
           /\ c < ShortTick => StartOf(c) = NONE /\ UpOf(c) = NONE
           /\ c >= ShortTick => /\ StartOf(c) \in {SHORT_START, LONG_START, LONG_HOLD}
                                /\ StartOf(c) # NONE /\ UpOf(c) # NONE
                                /\ UpOf(c) = StartOf(c) + 1
                                /\ StartOf(c) > REPEAT_CLICK
  BY FlexAssumption DEF StartOf, UpOf, NONE, SHORT_START, LONG_START, LONG_HOLD,
       SHORT_UP, LONG_UP, LONG_HOLD_UP, REPEAT_CLICK

LEMMA StartsGrow ==
    ASSUME NEW c \in Nat, NEW d \in Nat, ShortTick <= c,
           c <= d \/ (HoldTick <= c /\ HoldTick <= d)
    PROVE  StartOf(c) <= StartOf(d)
  BY FlexAssumption DEF StartOf, NONE, SHORT_START, LONG_START, LONG_HOLD

\* A press gets at most one class further from one scan to the next.
LEMMA ClassesInSteps ==
    ASSUME NEW c \in Nat, NEW d \in Nat, ShortTick <= d,
           d = c + 1 \/ (HoldTick <= c /\ d = HoldTick)
    PROVE  /\ c >= ShortTick => /\ Class(StartOf(d)) <= Class(StartOf(c)) + 1
                                /\ Class(UpOf(d)) <= Class(StartOf(c)) + 1
           /\ c < ShortTick => \A e \in 0..REPEAT_CLICK :
                /\ Class(StartOf(d)) <= Class(e) + 1
                /\ Class(UpOf(d)) <= Class(e) + 1
  BY FlexAssumption
  DEF StartOf, UpOf, Class, NONE, SHORT_START, LONG_START, LONG_HOLD, SHORT_UP, LONG_UP,
      LONG_HOLD_UP, REPEAT_CLICK

\* The count of a scan goes up by one, or stays above HoldTick.
LEMMA CountedGrows ==
    ASSUME TypeOK
    PROVE  /\ Counted \in 0..(CntMod - 2)
           /\ Counted = scan_cnt + 1 \/ (scan_cnt >= HoldTick /\ Counted = HoldTick)
  <1>1. scan_cnt + 1 \in Nat /\ scan_cnt + 1 < CntMod /\ CntMod \in Nat /\ CntMod > 0
    BY FlexAssumption DEF TypeOK
  <1>2. (scan_cnt + 1) % CntMod = scan_cnt + 1
    BY <1>1, SMT
  <1> QED
    BY <1>1, <1>2, FlexAssumption DEF Counted, TypeOK

\* The order that EventsInOrder asks of a log.
Ordered(s) ==
    /\ \A i, j \in DOMAIN s : i < j => s[i] < s[j]
    /\ \A i \in 1..(Len(s) - 1) : Class(s[i + 1]) <= Class(s[i]) + 1

\* Appending an event above the last one, of its class or the next, keeps a
\* log in order.
LEMMA AppendKeepsOrder ==
    ASSUME NEW s \in Seq(0..11), NEW e \in 0..11, s # <<>>, s[Len(s)] < e,
           Class(e) <= Class(s[Len(s)]) + 1, Ordered(s)
    PROVE  LET t == Append(s, e) IN
           /\ t \in Seq(0..11) /\ t # <<>> /\ t[Len(t)] = e
           /\ Ordered(t)
  <1> DEFINE t == Append(s, e)
  <1>1. /\ t \in Seq(0..11) /\ t # <<>> /\ t[Len(t)] = e /\ Len(t) = Len(s) + 1
        /\ Len(s) \in Nat /\ Len(s) > 0
    OBVIOUS
  <1>2. \A i \in 1..Len(s) : t[i] = s[i] /\ s[i] \in 0..11
    OBVIOUS
  <1>d. DOMAIN t = 1..(Len(s) + 1) /\ DOMAIN s = 1..Len(s)
    OBVIOUS
  <1>3. ASSUME NEW i \in 1..Len(s) PROVE s[i] <= s[Len(s)]
    <2>1. Len(s) \in 1..Len(s) /\ (i = Len(s) \/ i < Len(s))
      BY <1>1
    <2>2. s[i] \in 0..11 /\ s[Len(s)] \in 0..11
      BY <1>1, <1>2
    <2>3. \A j, k \in DOMAIN s : j < k => s[j] < s[k]
      BY DEF Ordered
    <2>4. CASE i < Len(s)
      <3>1. s[i] < s[Len(s)] BY <1>d, <2>1, <2>3, <2>4
      <3> QED BY <2>2, <3>1
    <2>5. CASE i = Len(s) BY <2>2, <2>5
    <2> QED BY <2>1, <2>4, <2>5
  <1>4. ASSUME NEW i \in DOMAIN t, NEW j \in DOMAIN t, i < j PROVE t[i] < t[j]
    <2>1. i \in 1..Len(s) /\ j \in 1..(Len(s) + 1) BY <1>1, <1>4, <1>d
    <2>2. CASE j = Len(s) + 1
      <3>1. t[j] = e BY <1>1, <2>2
      <3>2. t[i] = s[i] /\ s[i] <= s[Len(s)] /\ s[i] \in 0..11 /\ s[Len(s)] \in 0..11
        BY <1>1, <1>2, <1>3, <2>1
      <3> HIDE DEF t
      <3> QED BY <3>1, <3>2
    <2>3. CASE j # Len(s) + 1
      <3>1. j \in 1..Len(s) BY <1>1, <2>1, <2>3
      <3>2. t[i] = s[i] /\ t[j] = s[j] BY <1>2, <2>1, <3>1
      <3> HIDE DEF t
      <3> QED BY <1>4, <1>d, <2>1, <3>1, <3>2 DEF Ordered
    <2> QED BY <2>2, <2>3
  <1>5. ASSUME NEW i \in 1..(Len(t) - 1) PROVE Class(t[i + 1]) <= Class(t[i]) + 1
    <2>1. i \in 1..Len(s) BY <1>1
    <2>2. CASE i = Len(s)
      BY <1>1, <1>2, <2>1, <2>2
    <2>3. CASE i # Len(s)
      <3>1. i \in 1..(Len(s) - 1) /\ i + 1 \in 1..Len(s) BY <1>1, <2>1, <2>3
      <3>2. t[i] = s[i] /\ t[i + 1] = s[i + 1] BY <1>2, <2>1, <3>1
      <3> HIDE DEF t
      <3> QED BY <3>1, <3>2 DEF Ordered
    <2> QED BY <2>2, <2>3
  <1> HIDE DEF t
  <1>6. Ordered(t) BY <1>4, <1>5 DEF Ordered
  <1> QED BY <1>1, <1>6 DEF t

LEMMA OneEventOrdered ==
    ASSUME NEW e \in 0..11
    PROVE  <<e>> \in Seq(0..11) /\ <<e>> # <<>> /\ <<e>>[Len(<<e>>)] = e /\ Ordered(<<e>>)
  BY DEF Ordered

LEMMA EventsOrderedLog == EventsInOrder <=> Ordered(log)
  BY DEF EventsInOrder, Ordered

-----------------------------------------------------------------------------
LEMMA InitFlex == Init => FlexInv
  <1> SUFFICES ASSUME Init PROVE FlexInv
    OBVIOUS
  <1>1. TypeOK
    <2>1. pin \in BOOLEAN /\ sampled \in BOOLEAN
      BY Zenon DEF Init
    <2>2. /\ scan_cnt \in 0..(CntMod - 2) /\ click_cnt \in 0..(CntMod - 1)
          /\ event \in 0..11 /\ owed \in Int
      BY FlexAssumption DEF Init, NONE
    <2>3. log \in Seq(0..11) /\ status \in {"DEFAULT", "DOWN", "MULTIPLE_CLICK"}
      BY DEF Init
    <2> QED BY <2>1, <2>2, <2>3 DEF TypeOK
  <1>2. ClickRoom /\ StageSampled /\ ClicksFirst /\ PressesAccounted /\ EventOfPress
    BY DEF Init, ClickRoom, StageSampled, ClicksFirst, PressesAccounted, EventOfPress
  <1>3. EventsInOrder
    <2>1. log = <<>> /\ DOMAIN log = {} /\ 1..(Len(log) - 1) = {} BY DEF Init
    <2> QED BY <2>1 DEF EventsInOrder
  <1> QED BY <1>1, <1>2, <1>3 DEF FlexInv

\* The scan that counts one more of a press.
LEMMA PressedStep ==
    ASSUME FlexInv, status = "DOWN", pin, DownPressed(Counted), sampled' = pin, UNCHANGED pin
    PROVE  FlexInv'
  <1> DEFINE c == Counted
  <1>0. TypeOK /\ ClickRoom /\ StageSampled /\ ClicksFirst /\ PressesAccounted
        /\ EventOfPress /\ EventsInOrder
    BY DEF FlexInv
  <1>c. c \in 0..(CntMod - 2) /\ c \in Nat
        /\ (c = scan_cnt + 1 \/ (scan_cnt >= HoldTick /\ c = HoldTick))
    BY <1>0, CountedGrows, FlexAssumption
  <1> HIDE DEF c
  <1>1. CASE click_cnt > 0 /\ c > Interval
    <2>1. /\ event' = ClickEvent /\ log' = <<ClickEvent>> /\ scan_cnt' = 0
          /\ click_cnt' = 0 /\ status' = "DOWN" /\ owed' = 1
          /\ ClickEvent \in 0..REPEAT_CLICK /\ pin' = pin /\ sampled' = TRUE
      BY <1>0, <1>1, FlexAssumption
      DEF c, DownPressed, Report, ClickEvent, SeesPress, TypeOK, StageSampled,
          PressesAccounted, REPEAT_CLICK
    <2> QED
      BY <1>0, <2>1, FlexAssumption
      DEF FlexInv, TypeOK, ClickRoom, StageSampled, ClicksFirst, PressesAccounted,
          EventOfPress, EventsInOrder, REPEAT_CLICK
  <1>2. CASE click_cnt > 0 /\ ~(c > Interval)
    BY <1>0, <1>2, <1>c, FlexAssumption
    DEF c, DownPressed, Silent, SeesPress, FlexInv, TypeOK, ClickRoom, StageSampled,
        ClicksFirst, PressesAccounted, EventOfPress, EventsInOrder
  <1>3. CASE ~(click_cnt > 0)
    <2>1. /\ IF NewStart(c) THEN Report(StartOf(c)) ELSE Silent
          /\ scan_cnt' = c /\ status' = status /\ click_cnt' = click_cnt /\ click_cnt = 0
          /\ owed' = owed /\ pin' = pin /\ sampled' = sampled
      BY <1>0, <1>3 DEF c, DownPressed, SeesPress, TypeOK, StageSampled
    <2>2. /\ event' \in 0..11 /\ log' \in Seq(0..11) /\ EventsInOrder'
          /\ log' # <<>> /\ event' = log'[Len(log')]
          /\ c < ShortTick => event' <= REPEAT_CLICK
          /\ c >= ShortTick => event' = StartOf(c)
      <3>0. /\ log # <<>> /\ event = log[Len(log)] /\ log \in Seq(0..11) /\ event \in 0..11
            /\ scan_cnt < ShortTick => event <= REPEAT_CLICK
            /\ scan_cnt >= ShortTick => event = StartOf(scan_cnt)
            /\ scan_cnt \in Nat
        BY <1>0, <2>1 DEF EventOfPress, TypeOK
      <3>1. CASE NewStart(c)
        <4>1. c >= ShortTick /\ StartOf(c) # event
          BY <1>c, <3>1, StartsAndEnds, FlexAssumption DEF NewStart
        <4>2. /\ StartOf(c) \in 0..11 /\ StartOf(c) > REPEAT_CLICK
          BY <1>c, <4>1, StartsAndEnds
        <4>3. event < StartOf(c)
          <5>1. CASE scan_cnt < ShortTick
            BY <3>0, <4>2, <5>1 DEF REPEAT_CLICK
          <5>2. CASE scan_cnt >= ShortTick
            <6>1. StartOf(scan_cnt) <= StartOf(c)
              BY <1>c, <3>0, <5>2, StartsGrow, FlexAssumption
            <6> QED BY <3>0, <4>1, <4>2, <5>2, <6>1
          <5> QED BY <3>0, <5>1, <5>2, FlexAssumption
        <4>4. event' = StartOf(c) /\ log' = Append(log, StartOf(c))
          BY <2>1, <3>1, <4>2 DEF Report, REPEAT_CLICK
        <4>5. Class(StartOf(c)) <= Class(event) + 1
          <5>1. CASE scan_cnt < ShortTick
            <6>1. event \in 0..REPEAT_CLICK BY <3>0, <5>1 DEF REPEAT_CLICK
            <6> QED BY <1>c, <3>0, <4>1, <5>1, <6>1, ClassesInSteps
          <5>2. CASE scan_cnt >= ShortTick
            BY <1>c, <3>0, <4>1, <5>2, ClassesInSteps
          <5> QED BY <3>0, <5>1, <5>2, FlexAssumption
        <4>6. Ordered(log) BY <1>0, EventsOrderedLog
        <4>7. log' \in Seq(0..11) /\ log' # <<>> /\ log'[Len(log')] = StartOf(c) /\ Ordered(log')
          BY <3>0, <4>2, <4>3, <4>4, <4>5, <4>6, AppendKeepsOrder
        <4>8. EventsInOrder' BY <4>7 DEF EventsInOrder, Ordered
        <4> QED BY <1>c, <4>1, <4>2, <4>4, <4>7, <4>8, FlexAssumption
      <3>2. CASE ~NewStart(c)
        <4>1. event' = event /\ log' = log BY <2>1, <3>2 DEF Silent
        <4>2. StartOf(c) \in {NONE, event} BY <3>2 DEF NewStart
        <4>3. c < ShortTick => scan_cnt < ShortTick
          BY <1>c, <3>0, FlexAssumption
        <4>4. c >= ShortTick => event = StartOf(c)
          BY <1>c, <4>2, StartsAndEnds
        <4> QED BY <1>0, <3>0, <4>1, <4>3, <4>4 DEF EventsInOrder
      <3> QED BY <3>1, <3>2
    <2> QED
      BY <1>0, <1>c, <2>1, <2>2, FlexAssumption
      DEF FlexInv, TypeOK, ClickRoom, StageSampled, ClicksFirst, PressesAccounted,
          EventOfPress
  <1> QED BY <1>1, <1>2, <1>3

\* The scan that finds the button released.
LEMMA ReleasedStep ==
    ASSUME FlexInv, status = "DOWN", ~pin, DownReleased(Counted), sampled' = pin, UNCHANGED pin
    PROVE  FlexInv'
  <1> DEFINE c == Counted
  <1>0. TypeOK /\ ClickRoom /\ StageSampled /\ ClicksFirst /\ PressesAccounted
        /\ EventOfPress /\ EventsInOrder
    BY DEF FlexInv
  <1>c. c \in 0..(CntMod - 2) /\ c \in Nat
        /\ (c = scan_cnt + 1 \/ (scan_cnt >= HoldTick /\ c = HoldTick))
    BY <1>0, CountedGrows, FlexAssumption
  <1> HIDE DEF c
  <1>1. CASE UpOf(c) # NONE
    <2>1. c >= ShortTick
      BY <1>1, <1>c, StartsAndEnds, FlexAssumption
    <2>2. click_cnt = 0
      BY <1>0, <1>c, <2>1, FlexAssumption DEF ClicksFirst, TypeOK
    <2>3. /\ log # <<>> /\ event = log[Len(log)] /\ log \in Seq(0..11) /\ event \in 0..11
          /\ scan_cnt < ShortTick => event <= REPEAT_CLICK
          /\ scan_cnt >= ShortTick => event = StartOf(scan_cnt)
          /\ scan_cnt \in Nat
      BY <1>0, <2>2 DEF EventOfPress, TypeOK
    <2>4. UpOf(c) = StartOf(c) + 1 /\ StartOf(c) > REPEAT_CLICK /\ UpOf(c) \in 0..11
          /\ StartOf(c) \in 0..11
      BY <1>c, <2>1, StartsAndEnds
    <2>5. event < UpOf(c)
      <3>1. CASE scan_cnt < ShortTick
        BY <2>3, <2>4, <3>1 DEF REPEAT_CLICK
      <3>2. CASE scan_cnt >= ShortTick
        <4>1. StartOf(scan_cnt) <= StartOf(c)
          BY <1>c, <2>3, <3>2, StartsGrow, FlexAssumption
        <4> QED BY <2>3, <2>4, <3>2, <4>1
      <3> QED BY <2>3, <3>1, <3>2, FlexAssumption
    <2>6. event' = UpOf(c) /\ log' = Append(log, UpOf(c))
      BY <1>1, <2>4 DEF c, DownReleased, Report, REPEAT_CLICK
    <2>7. log' \in Seq(0..11) /\ EventsInOrder'
      <3>1. Class(UpOf(c)) <= Class(event) + 1
        <4>1. CASE scan_cnt < ShortTick
          <5>1. event \in 0..REPEAT_CLICK BY <2>3, <4>1 DEF REPEAT_CLICK
          <5> QED BY <1>c, <2>1, <2>3, <4>1, <5>1, ClassesInSteps
        <4>2. CASE scan_cnt >= ShortTick
          BY <1>c, <2>1, <2>3, <4>2, ClassesInSteps
        <4> QED BY <2>3, <4>1, <4>2, FlexAssumption
      <3>2. Ordered(log) BY <1>0, EventsOrderedLog
      <3>3. log' \in Seq(0..11) /\ Ordered(log')
        BY <2>3, <2>4, <2>5, <2>6, <3>1, <3>2, AppendKeepsOrder
      <3> QED BY <3>3 DEF EventsInOrder, Ordered
    <2>8. /\ scan_cnt' = c /\ status' = "DEFAULT" /\ click_cnt' = click_cnt
          /\ owed' = owed - 1 /\ pin' = pin /\ sampled' = FALSE
      BY <1>0, <1>1 DEF c, DownReleased, SeesPress, TypeOK
    <2> QED
      BY <1>0, <1>c, <2>2, <2>4, <2>6, <2>7, <2>8, FlexAssumption
      DEF FlexInv, TypeOK, ClickRoom, StageSampled, ClicksFirst, PressesAccounted,
          EventOfPress
  <1>2. CASE UpOf(c) = NONE
    <2>1. click_cnt + 1 < CntMod /\ click_cnt \in Nat /\ CntMod \in Nat
      BY <1>0, FlexAssumption DEF ClickRoom, TypeOK
    <2>2. (click_cnt + 1) % CntMod = click_cnt + 1
      BY <2>1, SMT
    <2>3. /\ scan_cnt' = c /\ status' = "MULTIPLE_CLICK" /\ click_cnt' = click_cnt + 1
          /\ owed' = owed /\ pin' = pin /\ sampled' = FALSE /\ event' = event /\ log' = log
      BY <1>0, <1>2, <2>2 DEF c, DownReleased, SeesPress, Silent, TypeOK
    <2> QED
      BY <1>0, <1>c, <2>1, <2>3, FlexAssumption
      DEF FlexInv, TypeOK, ClickRoom, StageSampled, ClicksFirst, PressesAccounted,
          EventOfPress, EventsInOrder
  <1> QED BY <1>1, <1>2

LEMMA NextFlex == FlexInv /\ [Next]_vars => FlexInv'
  <1> SUFFICES ASSUME FlexInv, [Next]_vars PROVE FlexInv'
    OBVIOUS
  <1>0. TypeOK /\ ClickRoom /\ StageSampled /\ ClicksFirst /\ PressesAccounted
        /\ EventOfPress /\ EventsInOrder
    BY DEF FlexInv
  <1>1. CASE Move
    BY <1>0, <1>1, FlexAssumption
    DEF Move, btnVars, FlexInv, TypeOK, ClickRoom, StageSampled, ClicksFirst,
        PressesAccounted, EventOfPress, EventsInOrder
  <1>2. CASE Scan
    <2>0. sampled' = pin /\ pin' = pin BY <1>2 DEF Scan
    <2>1. CASE StageDefault
      <3>1. CASE pin
        <4>1. /\ scan_cnt' = 0 /\ click_cnt' = 0 /\ event' = 0 /\ log' = <<0>>
              /\ status' = "DOWN" /\ owed' = 1
          BY <1>0, <2>1, <3>1
          DEF StageDefault, Report, SeesPress, PRESS_DOWN, REPEAT_CLICK, TypeOK,
              StageSampled, PressesAccounted
        <4> QED
          BY <1>0, <2>0, <3>1, <4>1, FlexAssumption
          DEF FlexInv, TypeOK, ClickRoom, StageSampled, ClicksFirst, PressesAccounted,
              EventOfPress, EventsInOrder, REPEAT_CLICK
      <3>2. CASE ~pin
        BY <1>0, <2>0, <2>1, <3>2, FlexAssumption
        DEF StageDefault, SeesPress, NONE, FlexInv, TypeOK, ClickRoom, StageSampled,
            ClicksFirst, PressesAccounted, EventOfPress, EventsInOrder
      <3> QED BY <3>1, <3>2
    <2>2. CASE StageDown
      <3>1. CASE pin BY <2>0, <2>2, <3>1, PressedStep DEF StageDown
      <3>2. CASE ~pin BY <2>0, <2>2, <3>2, ReleasedStep DEF StageDown
      <3> QED BY <3>1, <3>2
    <2>3. CASE StageMultipleClick
      <3>1. CASE pin
        BY <1>0, <2>0, <2>3, <3>1, FlexAssumption
        DEF StageMultipleClick, MultiplePressed, Silent, SeesPress, FlexInv, TypeOK,
            ClickRoom, StageSampled, ClicksFirst, PressesAccounted, EventOfPress,
            EventsInOrder
      <3>2. CASE ~pin
        <4>1. Counted \in 0..(CntMod - 2) BY <1>0, CountedGrows
        <4>2. CASE Counted > Interval
          <5>1. /\ scan_cnt' = Counted /\ click_cnt' = click_cnt /\ event' = ClickEvent
                /\ log' = <<ClickEvent>> /\ status' = "DEFAULT" /\ owed' = 0
                /\ ClickEvent \in 0..11
            BY <1>0, <2>3, <3>2, <4>2
            DEF StageMultipleClick, MultipleReleased, Report, ClickEvent, SeesPress,
                TypeOK, PressesAccounted, REPEAT_CLICK
          <5> QED
            BY <1>0, <2>0, <3>2, <4>1, <5>1, FlexAssumption
            DEF FlexInv, TypeOK, ClickRoom, StageSampled, ClicksFirst, PressesAccounted,
                EventOfPress, EventsInOrder
        <4>3. CASE ~(Counted > Interval)
          BY <1>0, <2>0, <2>3, <3>2, <4>1, <4>3, FlexAssumption
          DEF StageMultipleClick, MultipleReleased, Silent, SeesPress, FlexInv, TypeOK,
              ClickRoom, StageSampled, ClicksFirst, PressesAccounted, EventOfPress,
              EventsInOrder
        <4> QED BY <4>2, <4>3
      <3> QED BY <3>1, <3>2
    <2> QED BY <1>2, <2>1, <2>2, <2>3 DEF Scan
  <1>3. CASE UNCHANGED vars
    BY <1>0, <1>3
    DEF vars, btnVars, FlexInv, TypeOK, ClickRoom, StageSampled, ClicksFirst,
        PressesAccounted, EventOfPress, EventsInOrder
  <1> QED BY <1>1, <1>2, <1>3 DEF Next

LEMMA FlexInvariant == Spec => []FlexInv
  BY InitFlex, NextFlex, PTL DEF Spec

\* flex_button_process keeps its counters in range: scan_cnt never wraps.
THEOREM FlexTypeCorrect == Spec => []TypeOK
  <1>1. FlexInv => TypeOK BY DEF FlexInv
  <1> QED BY <1>1, FlexInvariant, PTL

\* Every press that a scan sees is reported exactly once.
THEOREM PressesReported == Spec => []PressesAccounted
  <1>1. FlexInv => PressesAccounted BY DEF FlexInv
  <1> QED BY <1>1, FlexInvariant, PTL

\* The events of a press come in order and each once, however long it lasts.
THEOREM EventsOrdered == Spec => []EventsInOrder
  <1>1. FlexInv => EventsInOrder BY DEF FlexInv
  <1> QED BY <1>1, FlexInvariant, PTL

=============================================================================
