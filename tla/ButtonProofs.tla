----------------------------- MODULE ButtonProofs -----------------------------
(***************************************************************************)
(* Theorems about the presses of the button, for any number of presses and  *)
(* of threads that the heap has room for.                                   *)
(***************************************************************************)
EXTENDS Button, FiniteSetTheorems, TLAPS

\* The mutex belongs to nobody before it is made, and nobody else than the
\* scanner ever takes it.
MutexOwner ==
    /\ mutex.owner \in {NoThread, FlexBtn}
    /\ ~mutex.made => mutex.owner = NoThread
    /\ scanner = "assert_mutex" => hist.presses >= 1 /\ mutex.owner = NoThread
    /\ scanner = "take" => hist.presses >= 1

ButtonInv == TypeOK /\ MutexOwner /\ HeldForGood /\ NoPressLost

-----------------------------------------------------------------------------
\* A thread that starts is one more on its way, one that has written or refused
\* is one less.
LEMMA StartedGrows ==
    ASSUME TypeOK, NEW s \in Slot, btn[s] \notin {"start", "write"},
           btn' = [btn EXCEPT ![s] = "start"]
    PROVE  /\ Cardinality(Started') = Cardinality(Started) + 1
           /\ Cardinality(Started) \in Nat
  <1>1. IsFiniteSet(Started)
    BY ButtonAssumption, FS_Subset DEF Started
  <1>2. Started' = Started \cup {s} /\ s \notin Started
    BY DEF Started, TypeOK
  <1> QED BY <1>1, <1>2, FS_AddElement, FS_CardinalityType

LEMMA StartedShrinks ==
    ASSUME TypeOK, NEW s \in Slot, btn[s] \in {"start", "write"}, NEW to,
           to \notin {"start", "write"}, btn' = [btn EXCEPT ![s] = to]
    PROVE  /\ Cardinality(Started') = Cardinality(Started) - 1
           /\ Cardinality(Started) \in Nat
  <1>1. IsFiniteSet(Started)
    BY ButtonAssumption, FS_Subset DEF Started
  <1>2. Started' = Started \ {s} /\ s \in Started
    BY DEF Started, TypeOK
  <1> QED BY <1>1, <1>2, FS_RemoveElement, FS_CardinalityType

LEMMA StartedSame ==
    ASSUME TypeOK, NEW s \in Slot, NEW to, btn' = [btn EXCEPT ![s] = to],
           (btn[s] \in {"start", "write"}) <=> (to \in {"start", "write"})
    PROVE  Started' = Started
  BY DEF Started, TypeOK

LEMMA StartedType == Cardinality(Started) \in Nat
  <1>1. IsFiniteSet(Started)
    BY ButtonAssumption, FS_Subset DEF Started
  <1> QED BY <1>1, FS_CardinalityType

-----------------------------------------------------------------------------
LEMMA InitButton == Init => ButtonInv
  <1> SUFFICES ASSUME Init PROVE ButtonInv
    OBVIOUS
  <1>1. TypeOK BY ButtonAssumption DEF Init, TypeOK
  <1>2. MutexOwner /\ HeldForGood
    BY ButtonAssumption DEF Init, MutexOwner, HeldForGood
  <1>3. NoPressLost
    <2>1. Started = {} BY DEF Init, Started
    <2>2. Cardinality(Started) = 0 BY <2>1, FS_EmptySet
    <2> QED BY <2>2 DEF Init, NoPressLost, InHand
  <1> QED BY <1>1, <1>2, <1>3 DEF ButtonInv

LEMMA NextButton == ButtonInv /\ [Next]_vars => ButtonInv'
  <1> SUFFICES ASSUME ButtonInv, [Next]_vars PROVE ButtonInv'
    OBVIOUS
  <1>0. TypeOK /\ MutexOwner /\ HeldForGood /\ NoPressLost
    BY DEF ButtonInv
  <1>t. /\ hist \in [presses : Nat, sent : Nat, refused : Nat]
        /\ mutex \in [made : BOOLEAN, owner : Slot \cup {NoThread, FlexBtn}, hold : 0..HoldMax]
        /\ hist.presses \in Nat /\ hist.sent \in Nat /\ hist.refused \in Nat
        /\ mutex.hold \in 0..HoldMax /\ HoldMax \in Nat /\ HoldMax > 0
        /\ Cardinality(Started) \in Nat
    BY <1>0, StartedType, ButtonAssumption DEF TypeOK
  <1>1. CASE bind_button_press_event
    <2>1. Started' = Started BY <1>1 DEF bind_button_press_event, Started
    <2> QED
      BY <1>0, <1>1, <2>1
      DEF bind_button_press_event, ButtonInv, TypeOK, MutexOwner, HeldForGood, NoPressLost, InHand
  <1>2. CASE rt_mutex_create
    <2>1. Started' = Started BY <1>2 DEF rt_mutex_create, Started
    <2>2. /\ mutex' \in [made : BOOLEAN, owner : Slot \cup {NoThread, FlexBtn}, hold : 0..HoldMax]
          /\ mutex'.made /\ mutex'.owner = mutex.owner /\ mutex'.hold = mutex.hold
          /\ boot' = "ready" /\ scanner' = scanner /\ btn' = btn /\ hist' = hist
          /\ avc_switch' = avc_switch
      BY <1>t, <1>2 DEF rt_mutex_create
    <2> QED
      BY <1>0, <2>1, <2>2
      DEF ButtonInv, TypeOK, MutexOwner, HeldForGood, NoPressLost, InHand
  <1>3. CASE button_event_cb
    <2>1. Started' = Started BY <1>3 DEF button_event_cb, Started
    <2>2. /\ hist' \in [presses : Nat, sent : Nat, refused : Nat]
          /\ hist'.presses = hist.presses + 1 /\ hist'.sent = hist.sent
          /\ hist'.refused = hist.refused /\ scanner = "scan" /\ scanner' = "take"
          /\ boot' = boot /\ mutex' = mutex /\ btn' = btn /\ avc_switch' = avc_switch
      BY <1>t, <1>3 DEF button_event_cb
    <2>3. TypeOK' /\ MutexOwner'
      BY <1>0, <1>t, <2>2 DEF TypeOK, MutexOwner
    <2>4. HeldForGood'
      BY <1>0, <1>t, <2>2 DEF HeldForGood
    <2>5. NoPressLost'
      BY <1>0, <1>t, <2>1, <2>2 DEF NoPressLost, InHand
    <2> QED BY <2>3, <2>4, <2>5 DEF ButtonInv
  <1>4. CASE TakeMutex
    <2>1. Started' = Started BY <1>4 DEF TakeMutex, Started
    <2>2. /\ scanner = "take" /\ boot' = boot /\ btn' = btn /\ avc_switch' = avc_switch
          /\ hist' = hist
      BY <1>4 DEF TakeMutex
    <2>3. CASE ~mutex.made
      <3>1. scanner' = "assert_mutex" /\ mutex' = mutex BY <1>4, <2>3 DEF TakeMutex
      <3>2. mutex.owner = NoThread BY <1>0, <2>3 DEF MutexOwner
      <3>3. hist.presses = 1
        BY <1>0, <1>t, <2>2, <3>2 DEF HeldForGood, MutexOwner, NoThread, FlexBtn
      <3> QED
        BY <1>0, <1>t, <2>1, <2>2, <3>1, <3>2, <3>3
        DEF ButtonInv, TypeOK, MutexOwner, HeldForGood, NoPressLost, InHand
    <2>4. CASE mutex.made
      <3>1. mutex' = rt_mutex_take(FlexBtn).m /\ scanner' = "create"
        BY <1>0, <1>4, <2>4 DEF TakeMutex, GivesUp, rt_mutex_take, MutexOwner
      <3>2. /\ mutex' \in [made : BOOLEAN, owner : Slot \cup {NoThread, FlexBtn}, hold : 0..HoldMax]
            /\ mutex'.made = mutex.made /\ mutex'.owner = FlexBtn
            /\ mutex'.hold = IF mutex.owner = FlexBtn
                             THEN IF mutex.hold < HoldMax THEN mutex.hold + 1 ELSE mutex.hold
                             ELSE 1
        <4>1. CASE mutex.owner = FlexBtn /\ mutex.hold < HoldMax
          <5>1. mutex' = [mutex EXCEPT !.hold = @ + 1] BY <3>1, <4>1 DEF rt_mutex_take
          <5> QED BY <1>t, <4>1, <5>1
        <4>2. CASE mutex.owner = FlexBtn /\ ~(mutex.hold < HoldMax)
          <5>1. mutex' = mutex BY <3>1, <4>2 DEF rt_mutex_take
          <5> QED BY <1>t, <4>2, <5>1
        <4>3. CASE mutex.owner # FlexBtn
          <5>1. mutex.owner = NoThread BY <1>0, <4>3 DEF MutexOwner
          <5>2. mutex' = [mutex EXCEPT !.owner = FlexBtn, !.hold = 1]
            BY <3>1, <4>3, <5>1 DEF rt_mutex_take
          <5>3. mutex' = [made |-> mutex.made, owner |-> FlexBtn, hold |-> 1]
            BY <1>t, <5>2
          <5>4. mutex.made \in BOOLEAN /\ 1 \in 0..HoldMax BY <1>t
          <5> QED BY <4>3, <5>3, <5>4
        <4> QED BY <4>1, <4>2, <4>3
      <3>3. TypeOK' /\ MutexOwner'
        BY <1>0, <1>t, <2>2, <2>4, <3>1, <3>2 DEF TypeOK, MutexOwner
      <3>4. HeldForGood'
        BY <1>0, <1>t, <2>2, <3>1, <3>2 DEF HeldForGood, MutexOwner, NoThread, FlexBtn
      <3>5. NoPressLost'
        BY <1>0, <1>t, <2>1, <2>2, <3>1 DEF NoPressLost, InHand
      <3> QED BY <3>3, <3>4, <3>5 DEF ButtonInv
    <2> QED BY <2>3, <2>4
  <1>5. CASE CreateThread
    <2>1. /\ scanner = "create" /\ boot' = boot /\ mutex' = mutex
          /\ avc_switch' = avc_switch /\ hist' = hist
      BY <1>5 DEF CreateThread
    <2>2. CASE \A s \in Slot : btn[s] # "free"
      <3>1. scanner' = "assert_thread" /\ btn' = btn BY <1>5, <2>2 DEF CreateThread
      <3>2. Started' = Started BY <3>1 DEF Started
      <3> QED
        BY <1>0, <1>t, <2>1, <3>1, <3>2
        DEF ButtonInv, TypeOK, MutexOwner, HeldForGood, NoPressLost, InHand
    <2>3. CASE ~ \A s \in Slot : btn[s] # "free"
      <3>1. scanner' = "scan" BY <1>5, <2>3 DEF CreateThread
      <3>2. PICK s \in Slot : btn[s] = "free" /\ btn' = [btn EXCEPT ![s] = "start"]
        BY <1>5, <2>3 DEF CreateThread
      <3>3. Cardinality(Started') = Cardinality(Started) + 1
        BY <1>0, <3>2, StartedGrows
      <3>4. TypeOK' /\ MutexOwner' /\ HeldForGood'
        BY <1>0, <1>t, <2>1, <3>1, <3>2 DEF TypeOK, MutexOwner, HeldForGood
      <3>5. NoPressLost'
        BY <1>0, <1>t, <2>1, <3>1, <3>3 DEF NoPressLost, InHand
      <3> QED BY <3>4, <3>5 DEF ButtonInv
    <2> QED BY <2>2, <2>3
  <1>6. CASE ChangeType
    <2>1. Started' = Started BY <1>6 DEF ChangeType, Started
    <2> QED
      BY <1>0, <1>6, <2>1
      DEF ChangeType, ButtonInv, TypeOK, MutexOwner, HeldForGood, NoPressLost, InHand
  <1>7. ASSUME NEW s \in Slot, thread_btn_press(s) PROVE ButtonInv'
    <2>1. /\ btn[s] = "start" /\ boot' = boot /\ scanner' = scanner /\ mutex' = mutex
          /\ avc_switch' = avc_switch
      BY <1>7 DEF thread_btn_press
    <2>2. CASE avc_switch
      <3>1. btn' = [btn EXCEPT ![s] = "write"] /\ hist' = hist
        BY <1>7, <2>2 DEF thread_btn_press
      <3>2. Started' = Started BY <1>0, <2>1, <3>1, StartedSame
      <3> QED
        BY <1>0, <1>t, <2>1, <3>1, <3>2
        DEF ButtonInv, TypeOK, MutexOwner, HeldForGood, NoPressLost, InHand
    <2>3. CASE ~avc_switch
      <3>1. /\ btn' = [btn EXCEPT ![s] = "defunct"]
            /\ hist' = [hist EXCEPT !.refused = @ + 1]
        BY <1>7, <2>3 DEF thread_btn_press
      <3>2. /\ hist' \in [presses : Nat, sent : Nat, refused : Nat]
            /\ hist'.presses = hist.presses /\ hist'.sent = hist.sent
            /\ hist'.refused = hist.refused + 1
        BY <1>t, <3>1
      <3>3. Cardinality(Started') = Cardinality(Started) - 1
        BY <1>0, <2>1, <3>1, StartedShrinks
      <3>4. TypeOK' /\ MutexOwner' /\ HeldForGood'
        BY <1>0, <1>t, <2>1, <3>1, <3>2 DEF TypeOK, MutexOwner, HeldForGood
      <3>5. NoPressLost'
        BY <1>0, <1>t, <2>1, <3>2, <3>3 DEF NoPressLost, InHand
      <3> QED BY <3>4, <3>5 DEF ButtonInv
    <2> QED BY <2>2, <2>3
  <1>8. ASSUME NEW s \in Slot, WriteReturns(s) PROVE ButtonInv'
    <2>1. /\ btn[s] = "write" /\ boot' = boot /\ scanner' = scanner /\ mutex' = mutex
          /\ avc_switch' = avc_switch /\ btn' = [btn EXCEPT ![s] = "release"]
          /\ hist' = [hist EXCEPT !.sent = @ + 1]
      BY <1>8 DEF WriteReturns
    <2>2. /\ hist' \in [presses : Nat, sent : Nat, refused : Nat]
          /\ hist'.presses = hist.presses /\ hist'.sent = hist.sent + 1
          /\ hist'.refused = hist.refused
      BY <1>t, <2>1
    <2>3. Cardinality(Started') = Cardinality(Started) - 1
      BY <1>0, <2>1, StartedShrinks
    <2>4. TypeOK' /\ MutexOwner' /\ HeldForGood'
      BY <1>0, <1>t, <2>1, <2>2 DEF TypeOK, MutexOwner, HeldForGood
    <2>5. NoPressLost'
      BY <1>0, <1>t, <2>1, <2>2, <2>3 DEF NoPressLost, InHand
    <2> QED BY <2>4, <2>5 DEF ButtonInv
  <1>9. ASSUME NEW s \in Slot, ReleaseMutex(s) PROVE ButtonInv'
    <2>1. /\ btn[s] = "release" /\ boot' = boot /\ scanner' = scanner
          /\ avc_switch' = avc_switch /\ btn' = [btn EXCEPT ![s] = "defunct"] /\ hist' = hist
      BY <1>9 DEF ReleaseMutex
    <2>2. mutex.owner # s
      BY <1>0, ButtonAssumption DEF MutexOwner
    <2>3. mutex' = mutex BY <1>9, <2>2 DEF ReleaseMutex, rt_mutex_release
    <2>4. Started' = Started BY <1>0, <2>1, StartedSame
    <2> QED
      BY <1>0, <1>t, <2>1, <2>3, <2>4
      DEF ButtonInv, TypeOK, MutexOwner, HeldForGood, NoPressLost, InHand
  <1>10. ASSUME NEW s \in Slot, IdleFrees(s) PROVE ButtonInv'
    <2>1. /\ btn[s] = "defunct" /\ boot' = boot /\ scanner' = scanner /\ mutex' = mutex
          /\ avc_switch' = avc_switch /\ btn' = [btn EXCEPT ![s] = "free"] /\ hist' = hist
      BY <1>10 DEF IdleFrees
    <2>2. Started' = Started BY <1>0, <2>1, StartedSame
    <2> QED
      BY <1>0, <1>t, <2>1, <2>2
      DEF ButtonInv, TypeOK, MutexOwner, HeldForGood, NoPressLost, InHand
  <1>11. CASE UNCHANGED vars
    <2>1. Started' = Started BY <1>11 DEF vars, Started
    <2> QED
      BY <1>0, <1>11, <2>1
      DEF vars, ButtonInv, TypeOK, MutexOwner, HeldForGood, NoPressLost, InHand
  <1> QED
    BY <1>1, <1>2, <1>3, <1>4, <1>5, <1>6, <1>7, <1>8, <1>9, <1>10, <1>11
    DEF Next, Main, Callback, BtnThread

LEMMA ButtonInvariant == Spec => []ButtonInv
  BY InitButton, NextButton, PTL DEF Spec

\* The state of btn_press_cb, its mutex and its threads is well typed: the holds
\* of the mutex stop at RT_MUTEX_HOLD_MAX.
THEOREM ButtonTypeCorrect == Spec => []TypeOK
  <1>1. ButtonInv => TypeOK BY DEF ButtonInv
  <1> QED BY <1>1, ButtonInvariant, PTL

\* btn_press_cb and thread_btn_press lose no press, after any number of them.
THEOREM PressesKept == Spec => []NoPressLost
  <1>1. ButtonInv => NoPressLost BY DEF ButtonInv
  <1> QED BY <1>1, ButtonInvariant, PTL

\* No rt_mutex_release of thread_btn_press ever gives the mutex back.
THEOREM MutexNeverReleased == Spec => []HeldForGood
  <1>1. ButtonInv => HeldForGood BY DEF ButtonInv
  <1> QED BY <1>1, ButtonInvariant, PTL

=============================================================================
