----------------------------- MODULE ConfigStore -----------------------------
(***************************************************************************)
(* The configuration store: the record in the EEPROM, the copy of it that   *)
(* config.c keeps in RAM (config_get reads the EEPROM into that copy,       *)
(* config_modify starts from it), and lock->info, which lock_info_update    *)
(* fills with three gets.  No lock protects any of them: a thread can be    *)
(* preempted, or block in a transfer, between any two of the steps below.   *)
(* Transfers fail, and power can go at any moment, in a transfer too.       *)
(*                                                                         *)
(* A step ends at each point where a thread enters or leaves a transfer.    *)
(* The priorities of the threads allow fewer interleavings than the model.  *)
(***************************************************************************)
EXTENDS Integers, Sequences, FiniteSets

CONSTANTS Thread,       \* threads that call the operations
          Modifier,     \* those that call modify_*, the others only get_*
          Main,         \* the main thread, which boots
          Field,        \* fields of struct info
          InfoFields,   \* the ones lock_info_update gets, in its order
          MaxValue,     \* the largest value of a field
          MaxFaults     \* bound on failed transfers and resets

ASSUME StoreAssumption ==
    /\ Modifier \subseteq Thread
    /\ Main \notin Thread
    /\ InfoFields \in Seq(Field) /\ InfoFields # <<>>
    /\ MaxValue \in Nat /\ MaxValue >= 1
    /\ MaxFaults \in Nat

Actor   == Thread \cup {Main}
Value   == 0..MaxValue
Record  == [Field -> Value]
InfoSet == {InfoFields[i] : i \in DOMAIN InfoFields}

VARIABLES
    ee,             \* the EEPROM
    ram,            \* self.config.info
    info,           \* lock->info
    booted,         \* main has left lock_init
    pc,             \* per thread: place
    call,           \* per thread: the call in progress and its locals
    faults,         \* failed transfers and resets so far
    allowed,        \* history: values a field may have, by what was acknowledged
    synced, blind,  \* history: ram read since the reset; a modify began without
    clean           \* history: no failed transfer since the reset

histVars == <<allowed, synced, blind>>
vars == <<ee, ram, info, booted, pc, call, faults, histVars, clean>>

Zero == [f \in Field |-> 0]

\* The call in progress: arguments, the local record of config_modify, the
\* fields still to get and the values got; seen is history: the values the
\* EEPROM has held for each field since the call began.
NoCall  == [job |-> "none"]
Call(j, f, v, s, fs) ==
    [job |-> j, fld |-> f, val |-> v, snap |-> s, todo |-> fs, got |-> Zero,
     seen |-> [g \in Field |-> {ee[g]}]]

\* A transfer that fails, or that power cuts off, may have moved any part.
Mix(a, b) == {[f \in Field |-> IF f \in S THEN b[f] ELSE a[f]]
                : S \in SUBSET {f \in Field : a[f] # b[f]}}

Init ==
    /\ ee \in Record
    /\ ram = Zero /\ info = Zero
    /\ booted = FALSE
    /\ pc = [t \in Actor |-> IF t = Main THEN "init" ELSE "idle"]
    /\ call = [t \in Actor |-> NoCall]
    /\ faults = 0
    /\ allowed = [f \in Field |-> {ee[f]}]
    /\ synced = FALSE /\ blind = FALSE /\ clean = TRUE

Goto(t, place) == pc' = [pc EXCEPT ![t] = place]
Return(t) == Goto(t, "idle") /\ call' = [call EXCEPT ![t] = NoCall]
Fault == faults < MaxFaults /\ faults' = faults + 1 /\ clean' = FALSE

\* The EEPROM holds new from now on: noted in the calls in progress.
Hold(calls, new) ==
    /\ ee' = new
    /\ call' = [t \in Actor |->
                  IF calls[t].job = "none" THEN calls[t]
                  ELSE [calls[t] EXCEPT !.seen = [f \in Field |-> @[f] \cup {new[f]}]]]

(***************************************************************************)
(* config_init: the record is read into a local variable whose contents are *)
(* arbitrary if the read fails; only the fields of lock->info are copied,   *)
(* with 1 in place of 0.  lock_init then runs lock_info_update.             *)
(***************************************************************************)
Sanitise_OffByOne(r) ==
    [f \in Field |-> IF f \notin InfoSet THEN 0
                     ELSE IF r[f] = 0 THEN MaxValue + 1 ELSE r[f]]

Sanitise(r) ==
    [f \in Field |-> IF f \notin InfoSet THEN 0 ELSE IF r[f] = 0 THEN 1 ELSE r[f]]

config_init ==
    /\ pc[Main] = "init"
    /\ \/ ram' = Sanitise(ee) /\ UNCHANGED <<faults, clean>>
       \/ Fault /\ \E junk \in Record : ram' = Sanitise(junk)
    /\ Goto(Main, "read")
    /\ call' = [call EXCEPT ![Main] = Call("boot", InfoFields[1], 0, Zero, InfoFields)]
    /\ UNCHANGED <<ee, info, booted, histVars>>

(***************************************************************************)
(* config_get reads the whole record into ram and then takes the field from *)
(* there.  The getters of operation.c return an uninitialised local if it   *)
(* fails, and lock_info_update goes on with that.                           *)
(***************************************************************************)
get(t, f) ==
    /\ booted /\ pc[t] = "idle"
    /\ Goto(t, "read")
    /\ call' = [call EXCEPT ![t] = Call("get", f, 0, Zero, <<f>>)]
    /\ UNCHANGED <<ee, ram, info, booted, faults, histVars, clean>>

ReadRecord(t) ==
    /\ pc[t] = "read"
    /\ ram' = ee
    /\ synced' = TRUE
    /\ Goto(t, "field")
    /\ UNCHANGED <<ee, info, booted, call, faults, allowed, blind, clean>>

\* The getter returns v; what follows depends on the call.
NextField(t, v) ==
    LET c == call[t] IN
    /\ call' = [call EXCEPT ![t].got[Head(c.todo)] = v, ![t].todo = Tail(c.todo)]
    /\ Goto(t, IF Len(c.todo) > 1 THEN "read"
               ELSE IF c.job = "get" THEN "return" ELSE "publish")

TakeField(t) ==
    /\ pc[t] = "field"
    /\ NextField(t, ram[Head(call[t].todo)])
    /\ UNCHANGED <<ee, ram, info, booted, faults, histVars, clean>>

ReadFails(t) ==
    /\ pc[t] = "read"
    /\ Fault
    /\ ram' \in Mix(ram, ee)
    /\ IF call[t].job = "get" THEN Return(t) ELSE \E junk \in Value : NextField(t, junk)
    /\ UNCHANGED <<ee, info, booted, histVars>>

GetReturns(t) ==
    /\ pc[t] = "return"
    /\ Return(t)
    /\ UNCHANGED <<ee, ram, info, booted, faults, histVars, clean>>

(***************************************************************************)
(* config_modify: copy ram, change the field, write the whole record; if    *)
(* the write is acknowledged ram becomes the copy and lock->info is updated *)
(* from the EEPROM.                                                         *)
(***************************************************************************)
Snapshot_Empty(f, v) == [Zero EXCEPT ![f] = v]
Snapshot(f, v) == [ram EXCEPT ![f] = v]

modify(t, f, v) ==
    /\ booted /\ pc[t] = "idle" /\ t \in Modifier
    /\ Goto(t, "write")
    /\ call' = [call EXCEPT ![t] = Call("modify", f, v, Snapshot(f, v), InfoFields)]
    /\ allowed' = [allowed EXCEPT ![f] = @ \cup {v}]
    /\ blind' = (blind \/ ~synced)
    /\ UNCHANGED <<ee, ram, info, booted, faults, synced, clean>>

WriteRecord(t) ==
    /\ pc[t] = "write"
    /\ Hold(call, call[t].snap)
    /\ Goto(t, "copy")
    /\ UNCHANGED <<ram, info, booted, faults, histVars, clean>>

WriteFails_Copied(t) ==
    /\ pc[t] = "write"
    /\ Fault
    /\ \E r \in Mix(ee, call[t].snap) : Hold([call EXCEPT ![t] = NoCall], r)
    /\ ram' = call[t].snap
    /\ Goto(t, "idle")
    /\ UNCHANGED <<info, booted, histVars>>

WriteFails(t) ==
    /\ pc[t] = "write"
    /\ Fault
    /\ \E r \in Mix(ee, call[t].snap) : Hold([call EXCEPT ![t] = NoCall], r)
    /\ Goto(t, "idle")
    /\ UNCHANGED <<ram, info, booted, histVars>>

CopyRecord_NoUpdate(t) ==
    /\ pc[t] = "copy"
    /\ ram' = call[t].snap
    /\ allowed' = [allowed EXCEPT ![call[t].fld] = {call[t].val}]
    /\ Return(t)
    /\ UNCHANGED <<ee, info, booted, faults, synced, blind, clean>>

CopyRecord(t) ==
    /\ pc[t] = "copy"
    /\ ram' = call[t].snap
    /\ Goto(t, "read")
    /\ UNCHANGED <<ee, info, booted, call, faults, histVars, clean>>

\* lock_info_update assigns lock->info; a modify has then been acknowledged.
Publish(t) ==
    /\ pc[t] = "publish"
    /\ info' = [f \in Field |-> IF f \in InfoSet THEN call[t].got[f] ELSE 0]
    /\ IF call[t].job = "boot"
       THEN booted' = TRUE /\ UNCHANGED allowed
       ELSE /\ allowed' = [allowed EXCEPT ![call[t].fld] = {call[t].val}]
            /\ UNCHANGED booted
    /\ Return(t)
    /\ UNCHANGED <<ee, ram, faults, synced, blind, clean>>

(***************************************************************************)
(* A reset (rt_hw_cpu_reset in func_yk_modify_addr, or a loss of power) at  *)
(* any moment; a write in progress is cut off.                              *)
(***************************************************************************)
Reset ==
    /\ faults < MaxFaults /\ faults' = faults + 1
    /\ \/ UNCHANGED ee
       \/ \E t \in Modifier : pc[t] = "write" /\ ee' \in Mix(ee, call[t].snap)
    /\ ram' = Zero /\ info' = Zero
    /\ booted' = FALSE
    /\ pc' = [t \in Actor |-> IF t = Main THEN "init" ELSE "idle"]
    /\ call' = [t \in Actor |-> NoCall]
    /\ synced' = FALSE /\ clean' = TRUE
    /\ UNCHANGED <<allowed, blind>>

Step(t) ==
    \/ ReadRecord(t) \/ ReadFails(t) \/ TakeField(t) \/ GetReturns(t)
    \/ WriteRecord(t) \/ WriteFails(t) \/ CopyRecord(t) \/ Publish(t)

Next ==
    \/ config_init
    \/ \E t \in Thread, f \in Field : get(t, f)
    \/ \E t \in Modifier, f \in Field, v \in Value : modify(t, f, v)
    \/ \E t \in Actor : Step(t)
    \/ Reset

Spec == Init /\ [][Next]_vars
-----------------------------------------------------------------------------
Calls == [job : {"none"}] \cup
         [job : {"boot", "get", "modify"}, fld : Field, val : Value, snap : Record,
          todo : Seq(Field), got : Record, seen : [Field -> SUBSET Value]]

\* Every variable of the store has a value of its C type.
TypeOK ==
    /\ ee \in Record /\ ram \in Record /\ info \in Record
    /\ booted \in BOOLEAN
    /\ pc \in [Actor -> {"init", "idle", "read", "field", "return", "write", "copy",
                         "publish"}]
    /\ \A t \in Actor : call[t] \in Calls
    /\ faults \in 0..MaxFaults
    /\ allowed \in [Field -> SUBSET Value]
    /\ synced \in BOOLEAN /\ blind \in BOOLEAN /\ clean \in BOOLEAN

\* What was acknowledged lasts: each field of the EEPROM has the value of its
\* last acknowledged modification, or that of a later one that failed or was cut
\* off, through resets and failed transfers, unless a modify started from a
\* copy that no read had filled since the reset.
AckedPersists == ~blind => \A f \in Field : ee[f] \in allowed[f]

\* A get returns a value that the EEPROM held for that field during the call,
\* although it takes the field from the shared copy some time after its read.
GetReturnsHeld ==
    \A t \in Actor : pc[t] = "return" =>
        call[t].got[call[t].fld] \in call[t].seen[call[t].fld]

\* As long as no transfer failed since the reset, whenever no modification is in
\* progress the copy in RAM and lock->info agree with the EEPROM.
CachesCoherent ==
    clean /\ booted /\ (\A t \in Thread : call[t].job # "modify") =>
        /\ ram = ee
        /\ \A f \in InfoSet : info[f] = ee[f]

=============================================================================
