-------------------------- MODULE ConfigStoreProofs --------------------------
(***************************************************************************)
(* Proofs about ConfigStore for any threads, fields and values.  Nothing    *)
(* protects the copy in RAM, so what is proved beyond the types is proved   *)
(* for one thread that modifies and any number that read: then a snapshot   *)
(* can only be stale because nothing was read since the reset.              *)
(***************************************************************************)
EXTENDS ConfigStore, SequenceTheorems, TLAPS

\* One thread calls modify_*, as long as nobody uses the shell.
OneModifier == \A s, t \in Modifier : s = t

Left(c) == {c.todo[i] : i \in DOMAIN c.todo}

\* Where a thread is tells which call it makes and how far it has come.
PlaceOK(t) ==
    /\ pc[t] = "init" => t = Main
    /\ pc[t] \in {"init", "idle"} <=> call[t].job = "none"
    /\ pc[t] \in {"read", "field"} => call[t].todo # <<>>
    /\ pc[t] = "return" => call[t].job = "get"
    /\ pc[t] \in {"write", "copy"} => call[t].job = "modify" /\ call[t].todo = InfoFields
    /\ pc[t] = "publish" => call[t].job \in {"boot", "modify"} /\ call[t].todo = <<>>
    /\ call[t].job = "modify" => t \in Modifier
    /\ call[t].job = "get" => t \in Thread
    /\ call[t].job = "get" /\ pc[t] \in {"read", "field"} => call[t].todo = <<call[t].fld>>
    /\ t = Main => call[t].job \in {"none", "boot"}
    /\ t # Main => call[t].job # "boot"

Places ==
    /\ call \in [Actor -> Calls]
    /\ \A t \in Actor : PlaceOK(t)
    /\ booted => pc[Main] = "idle"
    /\ ~booted => pc[Main] # "idle" /\ \A t \in Thread : pc[t] = "idle"

TypeInv == TypeOK /\ Places

-----------------------------------------------------------------------------
\* The values of the EEPROM are noted in the calls in progress; so are those of
\* the copy, once a call has read it.
Noted ==
    /\ \A t \in Actor : call[t].job # "none" => \A f \in Field : ee[f] \in call[t].seen[f]
    /\ \A t \in Actor : pc[t] = "field" => \A f \in Field : ram[f] \in call[t].seen[f]

\* Between the write and the end of a modify the EEPROM holds the snapshot, and
\* after the copy the copy in RAM does too.
Written ==
    \A t \in Modifier : call[t].job = "modify" =>
        /\ call[t].snap[call[t].fld] = call[t].val
        /\ pc[t] # "write" => ee = call[t].snap
        /\ pc[t] \in {"read", "field", "publish"} => ram = call[t].snap

\* The copy, once read, and a snapshot made from it are as good as the EEPROM.
Trusted ==
    /\ pc[Main] = "init" => ~synced
    /\ ~blind /\ synced => \A f \in Field : ram[f] \in allowed[f]
    /\ ~blind => \A t \in Modifier : pc[t] = "write" =>
                    \A f \in Field : call[t].snap[f] \in allowed[f]

\* Without failed transfers, the fields got so far are those of the EEPROM.
Fetched ==
    clean =>
        /\ pc[Main] \in {"field", "publish"} => synced
        /\ ~booted /\ synced => ram = ee
        /\ \A t \in Actor :
              call[t].job \in {"boot", "modify"} /\ pc[t] # "write" =>
                  \A f \in InfoSet : f \in Left(call[t]) \/ call[t].got[f] = ee[f]

StoreInv ==
    /\ TypeInv /\ Noted /\ Written /\ Trusted /\ Fetched
    /\ AckedPersists /\ GetReturnsHeld /\ CachesCoherent

-----------------------------------------------------------------------------
(***************************************************************************)
(* Calls.                                                                   *)
(***************************************************************************)
\* The parts of a call in progress.
LEMMA CallParts ==
    ASSUME NEW c \in Calls, c.job # "none"
    PROVE  /\ c \in [job : {"boot", "get", "modify"}, fld : Field, val : Value,
                     snap : Record, todo : Seq(Field), got : Record,
                     seen : [Field -> SUBSET Value]]
           /\ c.job \in {"boot", "get", "modify"} /\ c.fld \in Field /\ c.val \in Value
           /\ c.snap \in Record /\ c.todo \in Seq(Field) /\ c.got \in Record
           /\ c.seen \in [Field -> SUBSET Value]
<1>1. c \notin [job : {"none"}]
  OBVIOUS
<1>2. c \in [job : {"boot", "get", "modify"}, fld : Field, val : Value,
             snap : Record, todo : Seq(Field), got : Record,
             seen : [Field -> SUBSET Value]]
  BY <1>1 DEF Calls
<1> QED BY <1>2

\* What the getter's return does to the call.
LEMMA NextFieldEffect ==
    ASSUME TypeInv, NEW t \in Actor, NEW v \in Value, call[t].job # "none",
           call[t].todo # <<>>, NextField(t, v)
    PROVE  LET c == call[t]
               d == call'[t] IN
           /\ call' \in [Actor -> Calls] /\ \A u \in Actor : u # t => call'[u] = call[u]
           /\ d.job = c.job /\ d.fld = c.fld /\ d.val = c.val /\ d.snap = c.snap
           /\ d.seen = c.seen /\ d.todo = Tail(c.todo)
           /\ d.got = [c.got EXCEPT ![Head(c.todo)] = v]
<1> DEFINE c == call[t]
           d == [c EXCEPT !.got = [c.got EXCEPT ![Head(c.todo)] = v], !.todo = Tail(c.todo)]
<1>1. call \in [Actor -> Calls] /\ c \in Calls
  BY DEF TypeInv, Places
<1>2. call' = [call EXCEPT ![t] = d]
  BY <1>1 DEF NextField
<1>3. /\ c \in [job : {"boot", "get", "modify"}, fld : Field, val : Value,
                snap : Record, todo : Seq(Field), got : Record,
                seen : [Field -> SUBSET Value]]
      /\ c.todo \in Seq(Field) /\ c.got \in Record
  BY <1>1, CallParts
<1>4. Head(c.todo) \in Field /\ Tail(c.todo) \in Seq(Field)
  BY <1>3, HeadTailProperties
<1>5. [c.got EXCEPT ![Head(c.todo)] = v] \in Record
  BY <1>3, <1>4 DEF Record
<1>6. /\ d \in [job : {"boot", "get", "modify"}, fld : Field, val : Value,
                snap : Record, todo : Seq(Field), got : Record,
                seen : [Field -> SUBSET Value]]
      /\ d.job = c.job /\ d.fld = c.fld /\ d.val = c.val /\ d.snap = c.snap
      /\ d.seen = c.seen /\ d.todo = Tail(c.todo)
      /\ d.got = [c.got EXCEPT ![Head(c.todo)] = v]
  BY <1>3, <1>4, <1>5
<1>7. d \in Calls
  BY <1>6 DEF Calls
<1> HIDE DEF d
<1> QED BY <1>1, <1>2, <1>6, <1>7

\* What a new content of the EEPROM does to the calls.
LEMMA HoldEffect ==
    ASSUME NEW calls \in [Actor -> Calls], NEW new \in Record, Hold(calls, new)
    PROVE  /\ ee' = new /\ call' \in [Actor -> Calls]
           /\ \A u \in Actor : LET c == calls[u]
                                   d == call'[u] IN
                 /\ d.job = c.job
                 /\ c.job = "none" => d = c
                 /\ c.job # "none" =>
                      /\ d.fld = c.fld /\ d.val = c.val /\ d.snap = c.snap
                      /\ d.todo = c.todo /\ d.got = c.got
                      /\ \A f \in Field : d.seen[f] = c.seen[f] \cup {new[f]}
<1>1. ASSUME NEW u \in Actor
      PROVE  /\ call'[u] \in Calls /\ call'[u].job = calls[u].job
             /\ calls[u].job = "none" => call'[u] = calls[u]
             /\ calls[u].job # "none" =>
                  /\ call'[u].fld = calls[u].fld /\ call'[u].val = calls[u].val
                  /\ call'[u].snap = calls[u].snap /\ call'[u].todo = calls[u].todo
                  /\ call'[u].got = calls[u].got
                  /\ \A f \in Field : call'[u].seen[f] = calls[u].seen[f] \cup {new[f]}
  <2> DEFINE c == calls[u]
             s == [f \in Field |-> c.seen[f] \cup {new[f]}]
             d == [c EXCEPT !.seen = s]
  <2>1. c \in Calls /\ call'[u] = IF c.job = "none" THEN c ELSE d
    BY DEF Hold
  <2>2. CASE c.job = "none"
    BY <2>1, <2>2
  <2>3. CASE c.job # "none"
    <3>1. /\ c \in [job : {"boot", "get", "modify"}, fld : Field, val : Value,
                    snap : Record, todo : Seq(Field), got : Record,
                    seen : [Field -> SUBSET Value]]
          /\ c.seen \in [Field -> SUBSET Value]
      BY <2>1, <2>3, CallParts
    <3>2. s \in [Field -> SUBSET Value]
      BY <3>1 DEF Record
    <3>3. /\ d \in [job : {"boot", "get", "modify"}, fld : Field, val : Value,
                    snap : Record, todo : Seq(Field), got : Record,
                    seen : [Field -> SUBSET Value]]
          /\ d.job = c.job /\ d.fld = c.fld /\ d.val = c.val /\ d.snap = c.snap
          /\ d.todo = c.todo /\ d.got = c.got /\ d.seen = s
      BY <3>1, <3>2
    <3>4. d \in Calls
      BY <3>3 DEF Calls
    <3>5. \A f \in Field : s[f] = c.seen[f] \cup {new[f]}
      OBVIOUS
    <3> HIDE DEF d, s
    <3> QED BY <2>1, <2>3, <3>3, <3>4, <3>5
  <2> QED BY <2>2, <2>3
<1>2. call' \in [Actor -> Calls]
  <2>1. call' = [u \in Actor |-> call'[u]]
    BY DEF Hold
  <2> QED BY <1>1, <2>1
<1> QED BY <1>1, <1>2 DEF Hold

\* A call that begins.
LEMMA CallType ==
    ASSUME ee \in Record, NEW j \in {"boot", "get", "modify"}, NEW f \in Field,
           NEW v \in Value, NEW s \in Record, NEW fs \in Seq(Field)
    PROVE  LET c == Call(j, f, v, s, fs) IN
           /\ c \in Calls /\ c.job = j /\ c.fld = f /\ c.val = v /\ c.snap = s
           /\ c.todo = fs /\ c.job # "none"
           /\ \A g \in Field : ee[g] \in c.seen[g]
<1>1. Zero \in Record
  BY StoreAssumption DEF Zero, Record, Value
<1>2. [g \in Field |-> {ee[g]}] \in [Field -> SUBSET Value]
  BY DEF Record
<1> DEFINE c == Call(j, f, v, s, fs)
<1>3. /\ c.job = j /\ c.fld = f /\ c.val = v /\ c.snap = s /\ c.todo = fs
      /\ c.seen = [g \in Field |-> {ee[g]}]
  BY DEF Call
<1>4. c \in Calls
  BY <1>1, <1>2 DEF Call, Calls
<1>5. \A g \in Field : ee[g] \in c.seen[g]
  BY <1>3
<1> HIDE DEF c
<1> QED BY <1>3, <1>4, <1>5 DEF c

-----------------------------------------------------------------------------
(***************************************************************************)
(* Type correctness and places.                                             *)
(***************************************************************************)
\* Main runs before the device has booted, the threads after.
LEMMA Running ==
    ASSUME TypeInv, NEW t \in Actor, pc[t] \notin {"init", "idle"}
    PROVE  /\ booted <=> t # Main
           /\ call[t].job # "none" /\ call[t] \in Calls /\ PlaceOK(t)
<1>1. PlaceOK(t) /\ call[t] \in Calls
  BY DEF TypeInv, Places
<1>2. t # Main => t \in Thread
  BY DEF Actor
<1> QED BY <1>1, <1>2 DEF TypeInv, Places, PlaceOK

\* The place of a thread that does not move; at most its history changes.
LEMMA PlaceKept ==
    ASSUME NEW u, PlaceOK(u), pc'[u] = pc[u], call'[u].job = call[u].job,
           call[u].job # "none" => call'[u].todo = call[u].todo /\ call'[u].fld = call[u].fld
    PROVE  PlaceOK(u)'
BY DEF PlaceOK

\* A step of one call keeps the places of the others.
LEMMA StepPlaces ==
    ASSUME TypeInv, NEW t \in Actor, pc[t] \notin {"init", "idle"},
           NEW p \in {"read", "field", "return", "write", "copy", "publish", "idle"},
           pc' = [pc EXCEPT ![t] = p], call' \in [Actor -> Calls],
           \A u \in Actor : u # t =>
               /\ call'[u].job = call[u].job
               /\ call[u].job # "none" =>
                    call'[u].todo = call[u].todo /\ call'[u].fld = call[u].fld,
           pc'[t] = p => PlaceOK(t)',
           p # "idle" => booted' = booted, p = "idle" => booted' = TRUE
    PROVE  Places' /\ pc' \in [Actor -> {"init", "idle", "read", "field", "return", "write",
                                        "copy", "publish"}]
<1>1. /\ pc \in [Actor -> {"init", "idle", "read", "field", "return", "write", "copy",
                           "publish"}]
      /\ Main \in Actor /\ Thread \subseteq Actor /\ Main \notin Thread
  BY StoreAssumption DEF TypeInv, TypeOK, Actor
<1>2. pc'[t] = p /\ \A u \in Actor : u # t => pc'[u] = pc[u]
  BY <1>1
<1>3. \A u \in Actor : PlaceOK(u)'
  <2> SUFFICES ASSUME NEW u \in Actor, u # t PROVE PlaceOK(u)'
    BY <1>2
  <2>1. PlaceOK(u)
    BY DEF TypeInv, Places
  <2> QED BY <1>2, <2>1, PlaceKept
<1>4. booted <=> t # Main
  BY Running
<1>5. booted' => pc'[Main] = "idle"
  BY <1>1, <1>2, <1>4 DEF TypeInv, Places
<1>6. ~booted' => pc'[Main] # "idle" /\ \A u \in Thread : pc'[u] = "idle"
  BY <1>1, <1>2, <1>4 DEF TypeInv, Places
<1> QED BY <1>1, <1>3, <1>5, <1>6 DEF Places

\* The next place after the getter has returned.
LEMMA NextFieldPlaces ==
    ASSUME TypeInv, NEW t \in Actor, NEW v \in Value, pc[t] \in {"read", "field"},
           NextField(t, v), booted' = booted
    PROVE  /\ Places' /\ pc' \in [Actor -> {"init", "idle", "read", "field", "return",
                                           "write", "copy", "publish"}]
           /\ \E p \in {"read", "return", "publish"} : pc' = [pc EXCEPT ![t] = p]
           /\ pc'[t] = "read" => call[t].job # "get"
<1> DEFINE c == call[t]
           d == call'[t]
<1>1. /\ PlaceOK(t) /\ c.job # "none" /\ c \in Calls /\ c.todo # <<>>
      /\ c.todo \in Seq(Field)
  BY Running, CallParts DEF PlaceOK
<1>2. /\ call' \in [Actor -> Calls] /\ \A u \in Actor : u # t => call'[u] = call[u]
      /\ d.job = c.job /\ d.fld = c.fld /\ d.todo = Tail(c.todo)
  BY <1>1, NextFieldEffect
<1>3. PICK p \in {"read", "return", "publish"} :
         /\ pc' = [pc EXCEPT ![t] = p]
         /\ p = IF Len(c.todo) > 1 THEN "read" ELSE IF c.job = "get" THEN "return" ELSE "publish"
  BY DEF NextField, Goto
<1>4. pc'[t] = p
  BY <1>3 DEF TypeInv, TypeOK
<1>5. c.job = "get" => Len(c.todo) = 1
  <2>1. c.job = "get" => c.todo = <<c.fld>>
    BY <1>1 DEF PlaceOK
  <2>2. Len(<<c.fld>>) = 1
    OBVIOUS
  <2> QED BY <2>1, <2>2
<1>l. /\ d.todo \in Seq(Field) /\ Len(c.todo) \in Nat \ {0} /\ Len(d.todo) = Len(c.todo) - 1
  BY <1>1, <1>2, HeadTailProperties, EmptySeq
<1>z. d.todo = <<>> <=> Len(d.todo) = 0
  BY <1>l, EmptySeq
<1> DEFINE n == Len(c.todo)
           m == Len(d.todo)
<1>m. n \in Nat \ {0} /\ m = n - 1
  BY <1>l
<1>n. m = 0 <=> ~(n > 1)
  <2> HIDE DEF n, m
  <2> QED BY <1>m
<1>6. Len(c.todo) > 1 <=> d.todo # <<>>
  BY <1>z, <1>n
<1>7. /\ PlaceOK(t) /\ pc[t] \in {"read", "field"} /\ c.job # "none" /\ pc'[t] = p
      /\ p = "read" => d.todo # <<>> /\ c.job # "get"
      /\ p = "return" => c.job = "get"
      /\ p = "publish" => c.job # "get" /\ d.todo = <<>>
      /\ c.job \in {"boot", "get", "modify"}
  <2>1. c.job \in {"boot", "get", "modify"}
    BY <1>1, CallParts
  <2>2. c.job = "get" => ~(Len(c.todo) > 1)
    <3>1. c.job = "get" => n = 1
      BY <1>5
    <3>2. c.job = "get" => ~(n > 1)
      <4> HIDE DEF n
      <4> QED BY <3>1
    <3> QED BY <3>2
  <2> HIDE DEF c, d
  <2> QED BY <1>1, <1>3, <1>4, <1>6, <2>1, <2>2
<1> HIDE DEF c, d
<1>8. PlaceOK(t)'
  BY <1>2, <1>7 DEF PlaceOK, c, d
<1>9. /\ Places' /\ pc' \in [Actor -> {"init", "idle", "read", "field", "return", "write",
                                       "copy", "publish"}]
  BY <1>2, <1>3, <1>8, StepPlaces
<1> QED BY <1>3, <1>7, <1>9 DEF c

\* The parts of TypeOK, with the functions that Places adds.
LEMMA TypeParts ==
    ASSUME TypeInv
    PROVE  /\ ee \in Record /\ ram \in Record /\ info \in Record /\ booted \in BOOLEAN
           /\ pc \in [Actor -> {"init", "idle", "read", "field", "return", "write", "copy",
                                "publish"}]
           /\ call \in [Actor -> Calls] /\ faults \in 0..MaxFaults /\ faults \in Nat
           /\ allowed \in [Field -> SUBSET Value]
           /\ synced \in BOOLEAN /\ blind \in BOOLEAN /\ clean \in BOOLEAN
           /\ Main \in Actor /\ Thread \subseteq Actor /\ Main \notin Thread
           /\ Modifier \subseteq Thread /\ Zero \in Record
           /\ InfoFields \in Seq(Field) /\ InfoFields # <<>> /\ InfoFields[1] \in Field
           /\ 0 \in Value
<1>1. InfoFields[1] \in Field
  BY StoreAssumption, EmptySeq, ElementOfSeq
<1>2. Zero \in Record /\ 0 \in Value
  BY StoreAssumption DEF Zero, Record, Value
<1>3. Main \in Actor /\ Thread \subseteq Actor
  BY DEF Actor
<1> QED BY <1>1, <1>2, <1>3, StoreAssumption DEF TypeInv, TypeOK, Places

\* A transfer that fails leaves in each field one of the two values.
LEMMA MixParts ==
    ASSUME NEW a \in Record, NEW b \in Record, NEW r \in Mix(a, b)
    PROVE  r \in Record /\ \A f \in Field : r[f] = a[f] \/ r[f] = b[f]
<1>1. PICK S \in SUBSET {f \in Field : a[f] # b[f]} :
         r = [f \in Field |-> IF f \in S THEN b[f] ELSE a[f]]
  BY DEF Mix
<1> QED BY <1>1 DEF Record

\* A fault is counted.
LEMMA FaultParts ==
    ASSUME TypeInv, Fault
    PROVE  faults' \in 0..MaxFaults /\ clean' = FALSE
BY StoreAssumption DEF Fault, TypeInv, TypeOK

\* A call begins: one thread leaves "idle", or Main "init".
LEMMA BeginPlaces ==
    ASSUME TypeInv, NEW t \in Actor, pc[t] \in {"init", "idle"}, booted <=> t # Main,
           NEW p \in {"read", "write"}, pc' = [pc EXCEPT ![t] = p],
           NEW c \in Calls, call' = [call EXCEPT ![t] = c], c.todo # <<>>,
           booted' = booted,
           IF t = Main THEN c.job = "boot" /\ p = "read"
           ELSE \/ c.job = "get" /\ p = "read" /\ c.todo = <<c.fld>>
                \/ c.job = "modify" /\ p = "write" /\ t \in Modifier /\ c.todo = InfoFields
    PROVE  /\ Places' /\ pc' \in [Actor -> {"init", "idle", "read", "field", "return",
                                           "write", "copy", "publish"}]
           /\ pc'[t] = p /\ call'[t] = c
           /\ \A u \in Actor : u # t => pc'[u] = pc[u] /\ call'[u] = call[u]
<1>1. /\ pc \in [Actor -> {"init", "idle", "read", "field", "return", "write", "copy",
                           "publish"}]
      /\ call \in [Actor -> Calls] /\ Main \in Actor /\ Thread \subseteq Actor
      /\ Main \notin Thread
  BY TypeParts
<1>2. /\ pc'[t] = p /\ call'[t] = c /\ call' \in [Actor -> Calls]
      /\ \A u \in Actor : u # t => pc'[u] = pc[u] /\ call'[u] = call[u]
  BY <1>1
<1>3. t # Main => t \in Thread
  BY DEF Actor
<1>4. PlaceOK(t)'
  BY <1>2, <1>3 DEF PlaceOK
<1>5. \A u \in Actor : u # t => PlaceOK(u)'
  <2> SUFFICES ASSUME NEW u \in Actor, u # t PROVE PlaceOK(u)'
    OBVIOUS
  <2>1. PlaceOK(u)
    BY DEF TypeInv, Places
  <2> QED BY <1>2, <2>1, PlaceKept
<1>6. booted' => pc'[Main] = "idle"
  BY <1>1, <1>2 DEF TypeInv, Places
<1>7. ~booted' => pc'[Main] # "idle" /\ \A u \in Thread : pc'[u] = "idle"
  BY <1>1, <1>2 DEF TypeInv, Places
<1>8. Places'
  BY <1>2, <1>4, <1>5, <1>6, <1>7 DEF Places
<1> QED BY <1>1, <1>2, <1>8

\* config_init fills the copy with something and starts lock_info_update.
LEMMA InitEffect ==
    ASSUME TypeInv, config_init
    PROVE  /\ TypeInv' /\ pc[Main] = "init" /\ ~booted /\ pc'[Main] = "read"
           /\ call'[Main].job = "boot" /\ call'[Main].todo = InfoFields
           /\ \A f \in Field : ee[f] \in call'[Main].seen[f]
           /\ \A u \in Actor : u # Main => pc'[u] = pc[u] /\ call'[u] = call[u]
           /\ UNCHANGED <<ee, info, booted, allowed, synced, blind>>
           /\ clean' => clean
<1> DEFINE c == Call("boot", InfoFields[1], 0, Zero, InfoFields)
<1>p. /\ ee \in Record /\ Main \in Actor /\ Zero \in Record
      /\ InfoFields \in Seq(Field) /\ InfoFields # <<>> /\ InfoFields[1] \in Field
      /\ 0 \in Value /\ clean \in BOOLEAN
  BY TypeParts
<1>1. /\ pc[Main] = "init" /\ pc' = [pc EXCEPT ![Main] = "read"]
      /\ call' = [call EXCEPT ![Main] = c]
      /\ UNCHANGED <<ee, info, booted, allowed, synced, blind>>
      /\ \/ ram' = Sanitise(ee) /\ UNCHANGED <<faults, clean>>
         \/ Fault /\ \E junk \in Record : ram' = Sanitise(junk)
  BY DEF config_init, Goto, histVars
<1>2. /\ c \in Calls /\ c.job = "boot" /\ c.todo = InfoFields
      /\ \A f \in Field : ee[f] \in c.seen[f]
  BY <1>p, CallType
<1>3. ~booted
  BY <1>1 DEF TypeInv, Places
<1>4. \A r \in Record : Sanitise(r) \in Record
  BY StoreAssumption DEF Sanitise, Record, Value
<1>5. ram' \in Record /\ faults' \in 0..MaxFaults /\ clean' \in BOOLEAN /\ (clean' => clean)
  <2>1. CASE ram' = Sanitise(ee) /\ UNCHANGED <<faults, clean>>
    BY <1>p, <1>4, <2>1, TypeParts
  <2>2. ASSUME Fault, NEW junk \in Record, ram' = Sanitise(junk)
        PROVE  ram' \in Record /\ faults' \in 0..MaxFaults /\ clean' = FALSE
    BY <1>4, <2>2, FaultParts
  <2> QED BY <1>1, <2>1, <2>2
<1> HIDE DEF c
<1>6. /\ Places' /\ pc' \in [Actor -> {"init", "idle", "read", "field", "return",
                                       "write", "copy", "publish"}]
      /\ pc'[Main] = "read" /\ call'[Main] = c
      /\ \A u \in Actor : u # Main => pc'[u] = pc[u] /\ call'[u] = call[u]
  BY <1>p, <1>1, <1>2, <1>3, BeginPlaces
<1>7. TypeOK'
  BY <1>1, <1>5, <1>6 DEF TypeInv, TypeOK, Places
<1> QED BY <1>1, <1>2, <1>3, <1>5, <1>6, <1>7 DEF TypeInv

\* A get begins.
LEMMA GetEffect ==
    ASSUME TypeInv, NEW t \in Thread, NEW f \in Field, get(t, f)
    PROVE  /\ TypeInv' /\ pc[t] = "idle" /\ booted /\ pc'[t] = "read"
           /\ call'[t].job = "get"
           /\ \A g \in Field : ee[g] \in call'[t].seen[g]
           /\ \A u \in Actor : u # t => pc'[u] = pc[u] /\ call'[u] = call[u]
           /\ UNCHANGED <<ee, ram, info, booted, allowed, synced, blind, clean>>
<1> DEFINE fs == <<f>>
           c == Call("get", f, 0, Zero, fs)
<1>p. /\ ee \in Record /\ t \in Actor /\ t # Main /\ Zero \in Record /\ 0 \in Value
  BY TypeParts
<1>1. /\ booted /\ pc[t] = "idle" /\ pc' = [pc EXCEPT ![t] = "read"]
      /\ call' = [call EXCEPT ![t] = c]
      /\ UNCHANGED <<ee, ram, info, booted, faults, allowed, synced, blind, clean>>
  BY DEF get, Goto, histVars
<1>s. fs \in Seq(Field) /\ fs # <<>>
  OBVIOUS
<1> HIDE DEF fs
<1>2. /\ c \in Calls /\ c.job = "get" /\ c.todo = fs /\ c.fld = f
      /\ \A g \in Field : ee[g] \in c.seen[g]
  BY <1>p, <1>s, CallType
<1>3. c.todo # <<>> /\ c.todo = <<c.fld>>
  BY <1>2, <1>s DEF fs
<1> HIDE DEF c
<1>4. /\ Places' /\ pc' \in [Actor -> {"init", "idle", "read", "field", "return",
                                       "write", "copy", "publish"}]
      /\ pc'[t] = "read" /\ call'[t] = c
      /\ \A u \in Actor : u # t => pc'[u] = pc[u] /\ call'[u] = call[u]
  BY <1>p, <1>1, <1>2, <1>3, BeginPlaces
<1>5. TypeOK'
  BY <1>1, <1>4 DEF TypeInv, TypeOK, Places
<1> QED BY <1>1, <1>2, <1>4, <1>5 DEF TypeInv

\* A modify begins with a snapshot of the copy.
LEMMA ModifyEffect ==
    ASSUME TypeInv, NEW t \in Modifier, NEW f \in Field, NEW v \in Value, modify(t, f, v)
    PROVE  /\ TypeInv' /\ pc[t] = "idle" /\ booted /\ pc'[t] = "write"
           /\ call'[t].job = "modify" /\ call'[t].fld = f /\ call'[t].val = v
           /\ call'[t].snap = [ram EXCEPT ![f] = v]
           /\ \A g \in Field : ee[g] \in call'[t].seen[g]
           /\ \A u \in Actor : u # t => pc'[u] = pc[u] /\ call'[u] = call[u]
           /\ allowed' = [allowed EXCEPT ![f] = @ \cup {v}]
           /\ blind' = (blind \/ ~synced)
           /\ UNCHANGED <<ee, ram, info, booted, synced, clean>>
<1> DEFINE s == [ram EXCEPT ![f] = v]
           c == Call("modify", f, v, s, InfoFields)
<1>p. /\ ee \in Record /\ ram \in Record /\ t \in Actor /\ t # Main
      /\ InfoFields \in Seq(Field) /\ InfoFields # <<>>
      /\ allowed \in [Field -> SUBSET Value] /\ blind \in BOOLEAN /\ synced \in BOOLEAN
  BY TypeParts
<1>1. /\ booted /\ pc[t] = "idle" /\ pc' = [pc EXCEPT ![t] = "write"]
      /\ call' = [call EXCEPT ![t] = c]
      /\ allowed' = [allowed EXCEPT ![f] = @ \cup {v}]
      /\ blind' = (blind \/ ~synced)
      /\ UNCHANGED <<ee, ram, info, booted, faults, synced, clean>>
  BY DEF modify, Goto, Snapshot
<1>2. s \in Record
  BY <1>p DEF Record
<1> HIDE DEF s
<1>3. /\ c \in Calls /\ c.job = "modify" /\ c.todo = InfoFields /\ c.fld = f /\ c.val = v
      /\ c.snap = s /\ \A g \in Field : ee[g] \in c.seen[g]
  BY <1>p, <1>2, CallType
<1>4. allowed' \in [Field -> SUBSET Value] /\ blind' \in BOOLEAN
  BY <1>p, <1>1
<1> HIDE DEF c
<1>5. /\ Places' /\ pc' \in [Actor -> {"init", "idle", "read", "field", "return",
                                       "write", "copy", "publish"}]
      /\ pc'[t] = "write" /\ call'[t] = c
      /\ \A u \in Actor : u # t => pc'[u] = pc[u] /\ call'[u] = call[u]
  BY <1>p, <1>1, <1>3, BeginPlaces
<1>6. TypeOK'
  BY <1>1, <1>4, <1>5 DEF TypeInv, TypeOK, Places
<1> QED BY <1>1, <1>3, <1>5, <1>6 DEF TypeInv, s
\* A call ends.
LEMMA ReturnEffect ==
    ASSUME TypeInv, NEW t \in Actor, pc[t] \notin {"init", "idle"}, Return(t),
           booted' = TRUE
    PROVE  /\ Places' /\ pc' \in [Actor -> {"init", "idle", "read", "field", "return",
                                           "write", "copy", "publish"}]
           /\ pc'[t] = "idle" /\ call'[t].job = "none"
           /\ \A u \in Actor : u # t => pc'[u] = pc[u] /\ call'[u] = call[u]
<1>1. /\ call \in [Actor -> Calls]
      /\ pc \in [Actor -> {"init", "idle", "read", "field", "return", "write", "copy",
                           "publish"}]
  BY TypeParts
<1>2. pc' = [pc EXCEPT ![t] = "idle"] /\ call' = [call EXCEPT ![t] = NoCall]
  BY DEF Return, Goto
<1>3. NoCall \in Calls /\ NoCall.job = "none"
  BY DEF NoCall, Calls
<1>4. /\ pc'[t] = "idle" /\ call'[t] = NoCall /\ call' \in [Actor -> Calls]
      /\ \A u \in Actor : u # t => pc'[u] = pc[u] /\ call'[u] = call[u]
  BY <1>1, <1>2, <1>3
<1>5. PlaceOK(t)'
  BY <1>3, <1>4 DEF PlaceOK
<1>6. /\ Places' /\ pc' \in [Actor -> {"init", "idle", "read", "field", "return", "write",
                                       "copy", "publish"}]
  BY <1>2, <1>4, <1>5, StepPlaces
<1> QED BY <1>3, <1>4, <1>6

\* config_get has read the record into the copy.
LEMMA ReadEffect ==
    ASSUME TypeInv, NEW t \in Actor, ReadRecord(t)
    PROVE  /\ TypeInv' /\ pc[t] = "read" /\ pc'[t] = "field" /\ call[t].job # "none"
           /\ ram' = ee /\ synced' = TRUE
           /\ \A u \in Actor : u # t => pc'[u] = pc[u]
           /\ UNCHANGED <<ee, info, booted, call, allowed, blind, clean>>
<1>1. /\ pc[t] = "read" /\ ram' = ee /\ synced' = TRUE /\ pc' = [pc EXCEPT ![t] = "field"]
      /\ UNCHANGED <<ee, info, booted, call, faults, allowed, blind, clean>>
  BY DEF ReadRecord, Goto
<1>2. /\ PlaceOK(t) /\ call[t].job # "none"
  BY <1>1, Running
<1>3. pc'[t] = "field" /\ \A u \in Actor : u # t => pc'[u] = pc[u]
  BY <1>1, TypeParts
<1>4. PlaceOK(t)'
  BY <1>1, <1>2, <1>3 DEF PlaceOK
<1>5. /\ Places' /\ pc' \in [Actor -> {"init", "idle", "read", "field", "return", "write",
                                       "copy", "publish"}]
  BY <1>1, <1>4, StepPlaces, TypeParts
<1>6. TypeOK'
  BY <1>1, <1>5 DEF TypeInv, TypeOK, Places
<1> QED BY <1>1, <1>2, <1>3, <1>5, <1>6 DEF TypeInv

\* The getter takes the field from the copy.
LEMMA TakeEffect ==
    ASSUME TypeInv, NEW t \in Actor, TakeField(t)
    PROVE  LET c == call[t]
               d == call'[t]
               h == Head(c.todo) IN
           /\ TypeInv' /\ pc[t] = "field" /\ pc'[t] \in {"read", "return", "publish"}
           /\ c.job # "none" /\ c.todo # <<>> /\ c.todo \in Seq(Field) /\ c.got \in Record
           /\ h \in Field /\ d.got = [c.got EXCEPT ![h] = ram[h]] /\ d.todo = Tail(c.todo)
           /\ d.job = c.job /\ d.fld = c.fld /\ d.val = c.val /\ d.snap = c.snap
           /\ d.seen = c.seen
           /\ pc'[t] = "return" => c.job = "get" /\ h = c.fld
           /\ \A u \in Actor : u # t => pc'[u] = pc[u] /\ call'[u] = call[u]
           /\ UNCHANGED <<ee, ram, info, booted, allowed, synced, blind, clean>>
<1> DEFINE c == call[t]
           d == call'[t]
           h == Head(c.todo)
<1>1. /\ pc[t] = "field" /\ NextField(t, ram[h])
      /\ UNCHANGED <<ee, ram, info, booted, faults, allowed, synced, blind, clean>>
  BY DEF TakeField, histVars
<1>2. /\ PlaceOK(t) /\ c.job # "none" /\ c \in Calls
  BY <1>1, Running
<1>3. c.todo # <<>> /\ c.todo \in Seq(Field) /\ c.got \in Record
  BY <1>1, <1>2, CallParts DEF PlaceOK
<1>4. h \in Field /\ ram[h] \in Value
  BY <1>3, HeadTailProperties, TypeParts DEF Record
<1>5. /\ call' \in [Actor -> Calls] /\ \A u \in Actor : u # t => call'[u] = call[u]
      /\ d.job = c.job /\ d.fld = c.fld /\ d.val = c.val /\ d.snap = c.snap
      /\ d.seen = c.seen /\ d.todo = Tail(c.todo)
      /\ d.got = [c.got EXCEPT ![h] = ram[h]]
  BY <1>1, <1>2, <1>3, <1>4, NextFieldEffect
<1>6. /\ Places' /\ pc' \in [Actor -> {"init", "idle", "read", "field", "return", "write",
                                       "copy", "publish"}]
      /\ \E p \in {"read", "return", "publish"} : pc' = [pc EXCEPT ![t] = p]
  BY <1>1, <1>4, NextFieldPlaces
<1>7. pc'[t] \in {"read", "return", "publish"} /\ \A u \in Actor : u # t => pc'[u] = pc[u]
  BY <1>6, TypeParts
<1>8. pc'[t] = "return" => c.job = "get" /\ h = c.fld
  <2> SUFFICES ASSUME pc'[t] = "return" PROVE c.job = "get" /\ h = c.fld
    OBVIOUS
  <2>1. PlaceOK(t)'
    BY <1>6 DEF Places
  <2>2. c.job = "get"
    BY <2>1, <1>5 DEF PlaceOK
  <2>3. c.todo = <<c.fld>>
    BY <1>1, <1>2, <2>2 DEF PlaceOK
  <2>4. Head(<<c.fld>>) = c.fld
    OBVIOUS
  <2> QED BY <2>2, <2>3, <2>4
<1>9. TypeOK'
  BY <1>1, <1>6, <1>5 DEF TypeInv, TypeOK, Places
<1> HIDE DEF c, d, h
<1> QED BY <1>1, <1>2, <1>3, <1>4, <1>5, <1>6, <1>7, <1>8, <1>9 DEF TypeInv, c, d, h

\* A failed read mixes the copy and the EEPROM; lock_info_update goes on.
LEMMA ReadFailsEffect ==
    ASSUME TypeInv, NEW t \in Actor, ReadFails(t)
    PROVE  LET c == call[t]
               d == call'[t] IN
           /\ TypeInv' /\ pc[t] = "read" /\ clean' = FALSE
           /\ \A f \in Field : ram'[f] = ram[f] \/ ram'[f] = ee[f]
           /\ \/ pc'[t] = "idle" /\ d.job = "none" /\ c.job = "get"
              \/ /\ pc'[t] \in {"read", "publish"}
                 /\ d.job = c.job /\ d.fld = c.fld /\ d.val = c.val /\ d.snap = c.snap
                 /\ d.seen = c.seen
           /\ \A u \in Actor : u # t => pc'[u] = pc[u] /\ call'[u] = call[u]
           /\ UNCHANGED <<ee, info, booted, allowed, synced, blind>>
<1> DEFINE c == call[t]
           d == call'[t]
<1>1. /\ pc[t] = "read" /\ Fault /\ ram' \in Mix(ram, ee)
      /\ IF c.job = "get" THEN Return(t) ELSE \E junk \in Value : NextField(t, junk)
      /\ UNCHANGED <<ee, info, booted, allowed, synced, blind>>
  BY DEF ReadFails, histVars
<1>2. /\ PlaceOK(t) /\ c.job # "none" /\ c \in Calls /\ (booted <=> t # Main)
  BY <1>1, Running
<1>3. /\ ram' \in Record /\ \A f \in Field : ram'[f] = ram[f] \/ ram'[f] = ee[f]
  BY <1>1, MixParts, TypeParts
<1>4. faults' \in 0..MaxFaults /\ clean' = FALSE
  BY <1>1, FaultParts
<1>5. /\ Places' /\ pc' \in [Actor -> {"init", "idle", "read", "field", "return", "write",
                                       "copy", "publish"}]
      /\ \/ pc'[t] = "idle" /\ d.job = "none" /\ c.job = "get"
         \/ /\ pc'[t] \in {"read", "publish"}
            /\ d.job = c.job /\ d.fld = c.fld /\ d.val = c.val /\ d.snap = c.snap
            /\ d.seen = c.seen
      /\ \A u \in Actor : u # t => pc'[u] = pc[u] /\ call'[u] = call[u]
  <2>1. CASE c.job = "get"
    <3>1. booted' = TRUE
      BY <1>1, <1>2, <2>1, TypeParts DEF PlaceOK
    <3> QED BY <1>1, <2>1, <3>1, ReturnEffect
  <2>2. CASE c.job # "get"
    <3>1. PICK junk \in Value : NextField(t, junk)
      BY <1>1, <2>2
    <3>2. c.todo # <<>>
      BY <1>1, <1>2 DEF PlaceOK
    <3>3. /\ \A u \in Actor : u # t => call'[u] = call[u]
          /\ d.job = c.job /\ d.fld = c.fld /\ d.val = c.val /\ d.snap = c.snap
          /\ d.seen = c.seen
      BY <1>2, <3>1, <3>2, NextFieldEffect
    <3>4. /\ Places' /\ pc' \in [Actor -> {"init", "idle", "read", "field", "return",
                                           "write", "copy", "publish"}]
          /\ \E p \in {"read", "return", "publish"} : pc' = [pc EXCEPT ![t] = p]
      BY <1>1, <3>1, NextFieldPlaces
    <3>5. /\ pc'[t] \in {"read", "return", "publish"}
          /\ \A u \in Actor : u # t => pc'[u] = pc[u]
      BY <3>4, TypeParts
    <3>6. pc'[t] # "return"
      <4>1. PlaceOK(t)'
        BY <3>4 DEF Places
      <4> QED BY <2>2, <3>3, <4>1 DEF PlaceOK
    <3> QED BY <3>3, <3>4, <3>5, <3>6
  <2> QED BY <2>1, <2>2
<1>6. TypeOK'
  BY <1>1, <1>3, <1>4, <1>5 DEF TypeInv, TypeOK, Places
<1> QED BY <1>1, <1>3, <1>4, <1>5, <1>6 DEF TypeInv

\* A get ends.
LEMMA GetReturnsEffect ==
    ASSUME TypeInv, NEW t \in Actor, GetReturns(t)
    PROVE  /\ TypeInv' /\ pc[t] = "return" /\ pc'[t] = "idle" /\ call'[t].job = "none"
           /\ call[t].job = "get"
           /\ \A u \in Actor : u # t => pc'[u] = pc[u] /\ call'[u] = call[u]
           /\ UNCHANGED <<ee, ram, info, booted, allowed, synced, blind, clean>>
<1>1. /\ pc[t] = "return" /\ Return(t)
      /\ UNCHANGED <<ee, ram, info, booted, faults, allowed, synced, blind, clean>>
  BY DEF GetReturns, histVars
<1>2. /\ PlaceOK(t) /\ (booted <=> t # Main)
  BY <1>1, Running
<1>3. call[t].job = "get" /\ t # Main
  BY <1>1, <1>2, TypeParts DEF PlaceOK
<1>4. booted' = TRUE
  BY <1>1, <1>2, <1>3, TypeParts
<1>5. /\ Places' /\ pc' \in [Actor -> {"init", "idle", "read", "field", "return", "write",
                                       "copy", "publish"}]
      /\ pc'[t] = "idle" /\ call'[t].job = "none"
      /\ \A u \in Actor : u # t => pc'[u] = pc[u] /\ call'[u] = call[u]
  BY <1>1, <1>4, ReturnEffect
<1>6. TypeOK'
  BY <1>1, <1>5 DEF TypeInv, TypeOK, Places
<1> QED BY <1>1, <1>3, <1>5, <1>6 DEF TypeInv
\* The write is acknowledged: the EEPROM holds the snapshot.
LEMMA WriteEffect ==
    ASSUME TypeInv, NEW t \in Actor, WriteRecord(t)
    PROVE  /\ TypeInv' /\ pc[t] = "write" /\ pc'[t] = "copy" /\ call[t].job = "modify"
           /\ t \in Modifier /\ ee' = call[t].snap
           /\ \A u \in Actor : u # t => pc'[u] = pc[u]
           /\ \A u \in Actor : LET c == call[u]
                                   d == call'[u] IN
                 /\ d.job = c.job
                 /\ c.job # "none" =>
                      /\ d.fld = c.fld /\ d.val = c.val /\ d.snap = c.snap
                      /\ d.todo = c.todo /\ d.got = c.got
                      /\ \A f \in Field : d.seen[f] = c.seen[f] \cup {ee'[f]}
           /\ UNCHANGED <<ram, info, booted, allowed, synced, blind, clean>>
<1>1. /\ pc[t] = "write" /\ Hold(call, call[t].snap) /\ pc' = [pc EXCEPT ![t] = "copy"]
      /\ UNCHANGED <<ram, info, booted, faults, allowed, synced, blind, clean>>
  BY DEF WriteRecord, Goto, histVars
<1>2. /\ PlaceOK(t) /\ call[t].job # "none" /\ call[t] \in Calls
  BY <1>1, Running
<1>3. call[t].job = "modify" /\ t \in Modifier /\ call[t].snap \in Record
  BY <1>1, <1>2, CallParts DEF PlaceOK
<1>4. /\ ee' = call[t].snap /\ call' \in [Actor -> Calls]
      /\ \A u \in Actor : LET c == call[u]
                              d == call'[u] IN
            /\ d.job = c.job
            /\ c.job # "none" =>
                 /\ d.fld = c.fld /\ d.val = c.val /\ d.snap = c.snap
                 /\ d.todo = c.todo /\ d.got = c.got
                 /\ \A f \in Field : d.seen[f] = c.seen[f] \cup {ee'[f]}
  BY <1>1, <1>3, HoldEffect, TypeParts
<1>5. pc'[t] = "copy" /\ \A u \in Actor : u # t => pc'[u] = pc[u]
  BY <1>1, TypeParts
<1>6. PlaceOK(t)'
  BY <1>1, <1>2, <1>3, <1>4, <1>5 DEF PlaceOK
<1>7. /\ Places' /\ pc' \in [Actor -> {"init", "idle", "read", "field", "return", "write",
                                       "copy", "publish"}]
  BY <1>1, <1>4, <1>6, StepPlaces
<1>8. TypeOK'
  BY <1>1, <1>3, <1>4, <1>7 DEF TypeInv, TypeOK, Places
<1> QED BY <1>1, <1>3, <1>4, <1>5, <1>7, <1>8 DEF TypeInv

\* The write fails: the EEPROM has some fields of the snapshot.
LEMMA WriteFailsEffect ==
    ASSUME TypeInv, NEW t \in Actor, WriteFails(t)
    PROVE  /\ TypeInv' /\ pc[t] = "write" /\ pc'[t] = "idle" /\ call[t].job = "modify"
           /\ t \in Modifier /\ call'[t].job = "none" /\ clean' = FALSE
           /\ \A f \in Field : ee'[f] = ee[f] \/ ee'[f] = call[t].snap[f]
           /\ \A u \in Actor : u # t => pc'[u] = pc[u]
           /\ \A u \in Actor : u # t => LET c == call[u]
                                            d == call'[u] IN
                 /\ d.job = c.job
                 /\ c.job # "none" =>
                      /\ d.fld = c.fld /\ d.val = c.val /\ d.snap = c.snap
                      /\ d.todo = c.todo /\ d.got = c.got
                      /\ \A f \in Field : d.seen[f] = c.seen[f] \cup {ee'[f]}
           /\ UNCHANGED <<ram, info, booted, allowed, synced, blind>>
<1> DEFINE calls == [call EXCEPT ![t] = NoCall]
<1>1. /\ pc[t] = "write" /\ Fault /\ pc' = [pc EXCEPT ![t] = "idle"]
      /\ \E r \in Mix(ee, call[t].snap) : Hold(calls, r)
      /\ UNCHANGED <<ram, info, booted, allowed, synced, blind>>
  BY DEF WriteFails, Goto, histVars
<1>2. /\ PlaceOK(t) /\ call[t].job # "none" /\ call[t] \in Calls /\ (booted <=> t # Main)
  BY <1>1, Running
<1>3. call[t].job = "modify" /\ t \in Modifier /\ call[t].snap \in Record
  BY <1>1, <1>2, CallParts DEF PlaceOK
<1>4. NoCall \in Calls /\ NoCall.job = "none"
  BY DEF NoCall, Calls
<1>5. /\ calls \in [Actor -> Calls] /\ calls[t] = NoCall
      /\ \A u \in Actor : u # t => calls[u] = call[u]
  BY <1>4, TypeParts
<1>6. PICK r \in Mix(ee, call[t].snap) : Hold(calls, r)
  BY <1>1
<1>7. /\ r \in Record /\ \A f \in Field : r[f] = ee[f] \/ r[f] = call[t].snap[f]
  BY <1>3, MixParts, TypeParts
<1> HIDE DEF calls
<1>8. /\ ee' = r /\ call' \in [Actor -> Calls]
      /\ \A u \in Actor : LET c == calls[u]
                              d == call'[u] IN
            /\ d.job = c.job
            /\ c.job # "none" =>
                 /\ d.fld = c.fld /\ d.val = c.val /\ d.snap = c.snap
                 /\ d.todo = c.todo /\ d.got = c.got
                 /\ \A f \in Field : d.seen[f] = c.seen[f] \cup {r[f]}
  BY <1>5, <1>6, <1>7, HoldEffect
<1>9. pc'[t] = "idle" /\ \A u \in Actor : u # t => pc'[u] = pc[u]
  BY <1>1, TypeParts
<1>10. call'[t].job = "none" /\ booted' = TRUE
  BY <1>1, <1>2, <1>3, <1>4, <1>5, <1>8, TypeParts
<1>11. \A u \in Actor : u # t => LET c == call[u]
                                     d == call'[u] IN
          /\ d.job = c.job
          /\ c.job # "none" =>
               /\ d.fld = c.fld /\ d.val = c.val /\ d.snap = c.snap
               /\ d.todo = c.todo /\ d.got = c.got
               /\ \A f \in Field : d.seen[f] = c.seen[f] \cup {ee'[f]}
  BY <1>5, <1>8
<1>12. PlaceOK(t)'
  BY <1>9, <1>10 DEF PlaceOK
<1>13. /\ Places' /\ pc' \in [Actor -> {"init", "idle", "read", "field", "return", "write",
                                        "copy", "publish"}]
  BY <1>1, <1>8, <1>10, <1>11, <1>12, StepPlaces
<1>14. faults' \in 0..MaxFaults /\ clean' = FALSE
  BY <1>1, FaultParts
<1>15. TypeOK'
  BY <1>1, <1>7, <1>8, <1>13, <1>14 DEF TypeInv, TypeOK, Places
<1> QED BY <1>1, <1>3, <1>7, <1>8, <1>9, <1>10, <1>11, <1>13, <1>14, <1>15 DEF TypeInv

\* The copy becomes the snapshot.
LEMMA CopyEffect ==
    ASSUME TypeInv, NEW t \in Actor, CopyRecord(t)
    PROVE  /\ TypeInv' /\ pc[t] = "copy" /\ pc'[t] = "read" /\ call[t].job = "modify"
           /\ t \in Modifier /\ ram' = call[t].snap
           /\ \A u \in Actor : u # t => pc'[u] = pc[u]
           /\ UNCHANGED <<ee, info, booted, call, allowed, synced, blind, clean>>
<1>1. /\ pc[t] = "copy" /\ ram' = call[t].snap /\ pc' = [pc EXCEPT ![t] = "read"]
      /\ UNCHANGED <<ee, info, booted, call, faults, allowed, synced, blind, clean>>
  BY DEF CopyRecord, Goto, histVars
<1>2. /\ PlaceOK(t) /\ call[t].job # "none" /\ call[t] \in Calls
  BY <1>1, Running
<1>3. call[t].job = "modify" /\ t \in Modifier /\ call[t].snap \in Record
  BY <1>1, <1>2, CallParts DEF PlaceOK
<1>4. pc'[t] = "read" /\ \A u \in Actor : u # t => pc'[u] = pc[u]
  BY <1>1, TypeParts
<1>5. PlaceOK(t)'
  BY <1>1, <1>2, <1>3, <1>4, StoreAssumption DEF PlaceOK
<1>6. /\ Places' /\ pc' \in [Actor -> {"init", "idle", "read", "field", "return", "write",
                                       "copy", "publish"}]
  BY <1>1, <1>5, StepPlaces, TypeParts
<1>7. TypeOK'
  BY <1>1, <1>3, <1>6 DEF TypeInv, TypeOK, Places
<1> QED BY <1>1, <1>3, <1>4, <1>6, <1>7 DEF TypeInv
\* lock_info_update assigns lock->info, which ends the boot or the modify.
LEMMA PublishEffect ==
    ASSUME TypeInv, NEW t \in Actor, Publish(t)
    PROVE  LET c == call[t] IN
           /\ TypeInv' /\ pc[t] = "publish" /\ pc'[t] = "idle" /\ call'[t].job = "none"
           /\ booted' = TRUE /\ c.todo = <<>>
           /\ \A f \in InfoSet : info'[f] = c.got[f]
           /\ \/ c.job = "boot" /\ t = Main /\ ~booted /\ allowed' = allowed
              \/ /\ c.job = "modify" /\ t \in Modifier /\ booted
                 /\ c.fld \in Field /\ c.val \in Value
                 /\ allowed' = [allowed EXCEPT ![c.fld] = {c.val}]
           /\ \A u \in Actor : u # t => pc'[u] = pc[u] /\ call'[u] = call[u]
           /\ UNCHANGED <<ee, ram, synced, blind, clean>>
<1> DEFINE c == call[t]
<1>1. /\ pc[t] = "publish" /\ Return(t)
      /\ info' = [f \in Field |-> IF f \in InfoSet THEN c.got[f] ELSE 0]
      /\ IF c.job = "boot" THEN booted' = TRUE /\ UNCHANGED allowed
         ELSE /\ allowed' = [allowed EXCEPT ![c.fld] = {c.val}]
              /\ UNCHANGED booted
      /\ UNCHANGED <<ee, ram, faults, synced, blind, clean>>
  BY DEF Publish
<1>2. /\ PlaceOK(t) /\ c.job # "none" /\ c \in Calls /\ (booted <=> t # Main)
  BY <1>1, Running
<1>3. /\ c.job \in {"boot", "modify"} /\ c.todo = <<>>
      /\ c.job = "boot" => t = Main
      /\ c.job = "modify" => t \in Modifier /\ t # Main
  BY <1>1, <1>2 DEF PlaceOK
<1>4. c.fld \in Field /\ c.val \in Value /\ c.got \in Record
  BY <1>2, CallParts
<1>5. /\ booted' = TRUE
      /\ \/ c.job = "boot" /\ t = Main /\ ~booted /\ allowed' = allowed
         \/ /\ c.job = "modify" /\ t \in Modifier /\ booted
            /\ allowed' = [allowed EXCEPT ![c.fld] = {c.val}]
  BY <1>1, <1>2, <1>3, TypeParts
<1>6. allowed' \in [Field -> SUBSET Value]
  BY <1>4, <1>5, TypeParts
<1>7. InfoSet \subseteq Field
  BY StoreAssumption, ElementOfSeq DEF InfoSet
<1>8. info' \in Record /\ \A f \in InfoSet : info'[f] = c.got[f]
  BY <1>1, <1>4, <1>7, TypeParts DEF Record
<1>9. /\ Places' /\ pc' \in [Actor -> {"init", "idle", "read", "field", "return", "write",
                                       "copy", "publish"}]
      /\ pc'[t] = "idle" /\ call'[t].job = "none"
      /\ \A u \in Actor : u # t => pc'[u] = pc[u] /\ call'[u] = call[u]
  BY <1>1, <1>5, ReturnEffect
<1>10. TypeOK'
  BY <1>1, <1>5, <1>6, <1>8, <1>9 DEF TypeInv, TypeOK, Places
<1> QED BY <1>1, <1>3, <1>4, <1>5, <1>8, <1>9, <1>10 DEF TypeInv

\* Nobody runs: the state after a reset.
AtRest ==
    /\ pc = [t \in Actor |-> IF t = Main THEN "init" ELSE "idle"]
    /\ call = [t \in Actor |-> NoCall] /\ booted = FALSE

RestParts ==
    /\ Places
    /\ pc \in [Actor -> {"init", "idle", "read", "field", "return", "write", "copy",
                         "publish"}]
    /\ pc[Main] = "init" /\ \A t \in Actor : call[t].job = "none"

LEMMA RestPlaces == AtRest => RestParts
<1> SUFFICES ASSUME AtRest PROVE RestParts
  OBVIOUS
<1> USE DEF AtRest
<1>1. NoCall \in Calls /\ NoCall.job = "none"
  BY DEF NoCall, Calls
<1>2. Main \in Actor /\ Thread \subseteq Actor /\ Main \notin Thread
  BY StoreAssumption DEF Actor
<1>3. \A t \in Actor : call[t].job = "none" /\ pc[t] = IF t = Main THEN "init" ELSE "idle"
  BY <1>1
<1>4. \A t \in Actor : PlaceOK(t)
  BY <1>3 DEF PlaceOK
<1>5. call \in [Actor -> Calls]
  BY <1>1
<1>6. pc[Main] = "init" /\ \A t \in Thread : pc[t] = "idle"
  BY <1>2, <1>3
<1>7. Places
  BY <1>3, <1>4, <1>5, <1>6 DEF Places
<1> QED BY <1>3, <1>6, <1>7 DEF RestParts

\* A reset loses the RAM; a write in progress may have moved any part.
LEMMA ResetEffect ==
    ASSUME TypeInv, Reset
    PROVE  /\ TypeInv' /\ pc'[Main] = "init" /\ booted' = FALSE /\ synced' = FALSE
           /\ \A t \in Actor : call'[t].job = "none" /\ pc'[t] \in {"init", "idle"}
           /\ \A f \in Field : \/ ee'[f] = ee[f]
                               \/ \E t \in Modifier : /\ pc[t] = "write"
                                                      /\ ee'[f] = call[t].snap[f]
           /\ UNCHANGED <<allowed, blind>>
<1>1. /\ faults < MaxFaults /\ faults' = faults + 1
      /\ \/ UNCHANGED ee
         \/ \E t \in Modifier : pc[t] = "write" /\ ee' \in Mix(ee, call[t].snap)
      /\ ram' = Zero /\ info' = Zero /\ booted' = FALSE
      /\ pc' = [t \in Actor |-> IF t = Main THEN "init" ELSE "idle"]
      /\ call' = [t \in Actor |-> NoCall]
      /\ synced' = FALSE /\ clean' = TRUE /\ UNCHANGED <<allowed, blind>>
  BY DEF Reset
<1>2. /\ ee' \in Record
      /\ \A f \in Field : \/ ee'[f] = ee[f]
                          \/ \E t \in Modifier : pc[t] = "write" /\ ee'[f] = call[t].snap[f]
  <2>1. ASSUME NEW t \in Modifier, pc[t] = "write", ee' \in Mix(ee, call[t].snap)
        PROVE  ee' \in Record /\ \A f \in Field : ee'[f] = ee[f] \/ ee'[f] = call[t].snap[f]
    <3>1. t \in Actor
      BY TypeParts
    <3>2. call[t].snap \in Record
      BY <2>1, <3>1, Running, CallParts
    <3> QED BY <2>1, <3>2, MixParts, TypeParts
  <2> QED BY <1>1, <2>1, TypeParts
<1>3. faults' \in 0..MaxFaults
  BY <1>1, StoreAssumption DEF TypeInv, TypeOK
<1>4. /\ Places' /\ pc'[Main] = "init" /\ \A t \in Actor : call'[t].job = "none"
      /\ pc' \in [Actor -> {"init", "idle", "read", "field", "return", "write", "copy",
                            "publish"}]
  <2>1. AtRest'
    BY <1>1 DEF AtRest
  <2>2. RestParts'
    BY <2>1, RestPlaces, PTL
  <2> QED BY <2>2 DEF RestParts
<1>5. \A t \in Actor : pc'[t] \in {"init", "idle"}
  BY <1>1
<1>6. TypeOK'
  BY <1>1, <1>2, <1>3, <1>4, TypeParts DEF TypeInv, TypeOK, Places
<1> QED BY <1>1, <1>2, <1>4, <1>5, <1>6 DEF TypeInv

\* Initially.
LEMMA TypeInit ==
    ASSUME Init
    PROVE  TypeInv
<1>1. Zero \in Record /\ 0 \in 0..MaxFaults
  BY StoreAssumption DEF Zero, Record, Value
<1>2. allowed \in [Field -> SUBSET Value]
  BY DEF Init, Record
<1>3. /\ Places
      /\ pc \in [Actor -> {"init", "idle", "read", "field", "return", "write", "copy",
                           "publish"}]
  BY RestPlaces DEF Init, AtRest, RestParts
<1>4. TypeOK
  BY <1>1, <1>2, <1>3 DEF Init, TypeOK, Places
<1> QED BY <1>3, <1>4 DEF TypeInv

\* A stuttering step.
LEMMA TypeStutter ==
    ASSUME TypeInv, UNCHANGED vars
    PROVE  TypeInv'
<1>1. UNCHANGED <<ee, ram, info, booted, pc, call, faults, allowed, synced, blind, clean>>
  BY DEF vars, histVars
<1>2. \A t \in Actor : PlaceOK(t)'
  BY <1>1 DEF TypeInv, Places, PlaceOK
<1>3. Places'
  BY <1>1, <1>2 DEF TypeInv, Places
<1> QED BY <1>1, <1>3 DEF TypeInv, TypeOK

\* Every step.
LEMMA TypeNext ==
    ASSUME TypeInv, [Next]_vars
    PROVE  TypeInv'
<1>1. CASE config_init
  BY <1>1, InitEffect
<1>2. ASSUME NEW t \in Thread, NEW f \in Field, get(t, f) PROVE TypeInv'
  BY <1>2, GetEffect
<1>3. ASSUME NEW t \in Modifier, NEW f \in Field, NEW v \in Value, modify(t, f, v)
      PROVE  TypeInv'
  BY <1>3, ModifyEffect
<1>4. ASSUME NEW t \in Actor, Step(t) PROVE TypeInv'
  <2>1. CASE ReadRecord(t)
    BY <2>1, ReadEffect
  <2>2. CASE ReadFails(t)
    BY <2>2, ReadFailsEffect
  <2>3. CASE TakeField(t)
    BY <2>3, TakeEffect
  <2>4. CASE GetReturns(t)
    BY <2>4, GetReturnsEffect
  <2>5. CASE WriteRecord(t)
    BY <2>5, WriteEffect
  <2>6. CASE WriteFails(t)
    BY <2>6, WriteFailsEffect
  <2>7. CASE CopyRecord(t)
    BY <2>7, CopyEffect
  <2>8. CASE Publish(t)
    BY <2>8, PublishEffect
  <2> QED BY <1>4, <2>1, <2>2, <2>3, <2>4, <2>5, <2>6, <2>7, <2>8 DEF Step
<1>5. CASE Reset
  BY <1>5, ResetEffect
<1>6. CASE UNCHANGED vars
  BY <1>6, TypeStutter
<1> QED BY <1>1, <1>2, <1>3, <1>4, <1>5, <1>6 DEF Next

\* Every variable of the store has a value of its C type, whatever the number of
\* threads that modify: config_init never leaves a value out of range in the copy,
\* and no call runs into the fields of another.
THEOREM StoreTypeCorrect == Spec => []TypeOK
<1>1. Init => TypeInv
  BY TypeInit
<1>2. TypeInv /\ [Next]_vars => TypeInv'
  BY TypeNext
<1>3. TypeInv => TypeOK
  BY DEF TypeInv
<1> QED BY <1>1, <1>2, <1>3, PTL DEF Spec
-----------------------------------------------------------------------------
(***************************************************************************)
(* One modifier: what was acknowledged persists and the caches are coherent.*)
(***************************************************************************)
\* Who can be in which call.
LEMMA Roles ==
    ASSUME TypeInv
    PROVE  /\ ~booted => \A u \in Thread : call[u].job = "none" /\ pc[u] = "idle"
           /\ booted => call[Main].job = "none" /\ pc[Main] = "idle"
           /\ \A u \in Actor : pc[u] \notin {"init", "idle"} => call[u].job # "none"
           /\ \A u \in Actor : pc[u] \in {"write", "copy"} =>
                                  call[u].job = "modify" /\ call[u].todo = InfoFields
           /\ \A u \in Actor : call[u].job = "modify" => u \in Modifier
           /\ \A u \in Actor : call[u].job = "boot" => u = Main
           /\ \A u \in Actor : pc[u] = "return" => call[u].job = "get"
           /\ Main \in Actor /\ Thread \subseteq Actor /\ Main \notin Thread
           /\ Modifier \subseteq Thread
<1>1. /\ Main \in Actor /\ Thread \subseteq Actor /\ Main \notin Thread
      /\ Modifier \subseteq Thread
  BY TypeParts
<1>2. \A u \in Actor : PlaceOK(u)
  BY DEF TypeInv, Places
<1>3. /\ ~booted => \A u \in Thread : pc[u] = "idle"
      /\ booted => pc[Main] = "idle"
  BY DEF TypeInv, Places
<1>4. ASSUME NEW u \in Actor
      PROVE  /\ pc[u] \in {"init", "idle"} <=> call[u].job = "none"
             /\ pc[u] \in {"write", "copy"} => call[u].job = "modify" /\ call[u].todo = InfoFields
             /\ call[u].job = "modify" => u \in Modifier
             /\ call[u].job = "boot" => u = Main
             /\ pc[u] = "return" => call[u].job = "get"
  BY <1>2 DEF PlaceOK
<1> QED BY <1>1, <1>3, <1>4

\* The fields lock_info_update gets are those of lock->info.
LEMMA LeftAll ==
    ASSUME NEW c, c.todo = InfoFields
    PROVE  Left(c) = InfoSet
BY DEF Left, InfoSet

LEMMA LeftNone ==
    ASSUME NEW c, c.todo = <<>>
    PROVE  Left(c) = {}
BY DEF Left

\* Getting a field takes that field off the list, and no other.
LEMMA LeftTail ==
    ASSUME NEW c, NEW d, c.todo \in Seq(Field), c.todo # <<>>, d.todo = Tail(c.todo)
    PROVE  \A f \in Left(c) : f = Head(c.todo) \/ f \in Left(d)
<1> DEFINE s == c.todo
           n == Len(s)
<1>1. n \in Nat /\ n # 0 /\ DOMAIN s = 1..n
  BY EmptySeq, LenProperties
<1>2. /\ Tail(s) \in Seq(Field) /\ Len(Tail(s)) = n - 1
      /\ \A i \in 1..Len(Tail(s)) : Tail(s)[i] = s[i + 1]
  BY HeadTailProperties
<1>3. DOMAIN Tail(s) = 1..Len(Tail(s))
  BY <1>2, LenProperties
<1>4. DOMAIN Tail(s) = 1..(n - 1)
  BY <1>2, <1>3
<1>5. \A i \in 1..(n - 1) : Tail(s)[i] = s[i + 1]
  BY <1>2, <1>3, <1>4
<1>6. Head(s) = s[1]
  BY HeadTailProperties
<1> SUFFICES ASSUME NEW i \in 1..n PROVE s[i] = Head(s) \/ s[i] \in Left(d)
  BY <1>1 DEF Left
<1> HIDE DEF n, s
<1>7. CASE i = 1
  BY <1>6, <1>7
<1>8. CASE i # 1
  <2>1. i - 1 \in 1..(n - 1) /\ (i - 1) + 1 = i
    BY <1>1, <1>8
  <2>2. Tail(s)[i - 1] = s[i]
    BY <1>5, <2>1
  <2>3. d.todo = Tail(s)
    BY DEF s
  <2> QED BY <1>4, <2>1, <2>2, <2>3 DEF Left
<1> QED BY <1>7, <1>8

\* Initially the copy is empty and nothing is in progress.
LEMMA StoreInit ==
    ASSUME Init
    PROVE  StoreInv
<1>1. TypeInv
  BY TypeInit
<1>2. /\ \A u \in Actor : call[u].job = "none" /\ pc[u] \in {"init", "idle"}
      /\ ~synced /\ ~booted /\ pc[Main] = "init" /\ allowed = [f \in Field |-> {ee[f]}]
      /\ Modifier \subseteq Actor
  <2>1. RestParts
    BY RestPlaces DEF Init, AtRest
  <2>2. Modifier \subseteq Actor
    BY StoreAssumption DEF Actor
  <2> QED BY <2>1, <2>2 DEF RestParts, Init
<1>3. Noted /\ Written /\ GetReturnsHeld /\ CachesCoherent
  BY <1>2 DEF Noted, Written, GetReturnsHeld, CachesCoherent
<1>4. Trusted /\ Fetched /\ AckedPersists
  BY <1>2 DEF Trusted, Fetched, AckedPersists
<1> QED BY <1>1, <1>3, <1>4 DEF StoreInv

\* config_init.
LEMMA InitKeeps ==
    ASSUME StoreInv, config_init
    PROVE  StoreInv'
<1>e. /\ TypeInv' /\ pc[Main] = "init" /\ ~booted /\ pc'[Main] = "read"
      /\ call'[Main].job = "boot" /\ call'[Main].todo = InfoFields
      /\ \A f \in Field : ee[f] \in call'[Main].seen[f]
      /\ \A u \in Actor : u # Main => pc'[u] = pc[u] /\ call'[u] = call[u]
      /\ UNCHANGED <<ee, info, booted, allowed, synced, blind>>
      /\ clean' => clean
  BY InitEffect DEF StoreInv
<1>r. /\ \A u \in Actor : u # Main => call[u].job = "none" /\ pc[u] = "idle"
      /\ Main \in Actor /\ Modifier \subseteq Actor /\ Main \notin Modifier
  BY <1>e, Roles DEF StoreInv, Actor
<1>s. ~synced
  BY <1>e DEF StoreInv, Trusted
<1>1. Noted'
  BY <1>e, <1>r DEF Noted
<1>2. Written' /\ GetReturnsHeld' /\ CachesCoherent'
  BY <1>e, <1>r DEF Written, GetReturnsHeld, CachesCoherent
<1>3. Trusted' /\ AckedPersists'
  BY <1>e, <1>r, <1>s DEF Trusted, AckedPersists, StoreInv
<1>4. Left(call'[Main]) = InfoSet
  BY <1>e, LeftAll
<1>5. Fetched'
  BY <1>e, <1>r, <1>s, <1>4 DEF Fetched
<1> QED BY <1>e, <1>1, <1>2, <1>3, <1>5 DEF StoreInv

\* A get begins.
LEMMA GetKeeps ==
    ASSUME StoreInv, NEW t \in Thread, NEW f \in Field, get(t, f)
    PROVE  StoreInv'
<1>e. /\ TypeInv' /\ pc[t] = "idle" /\ booted /\ pc'[t] = "read"
      /\ call'[t].job = "get"
      /\ \A g \in Field : ee[g] \in call'[t].seen[g]
      /\ \A u \in Actor : u # t => pc'[u] = pc[u] /\ call'[u] = call[u]
      /\ UNCHANGED <<ee, ram, info, booted, allowed, synced, blind, clean>>
  BY GetEffect DEF StoreInv
<1>r. /\ call[t].job = "none" /\ t \in Actor /\ t # Main /\ Main \in Actor
      /\ Modifier \subseteq Actor /\ Thread \subseteq Actor
  BY <1>e, Roles DEF StoreInv, TypeInv, Places, PlaceOK
<1>1. Noted'
  BY <1>e, <1>r DEF Noted, StoreInv
<1>2. Written'
  BY <1>e, <1>r DEF Written, StoreInv
<1>3. GetReturnsHeld'
  BY <1>e, <1>r DEF GetReturnsHeld, StoreInv
<1>4. CachesCoherent'
  BY <1>e, <1>r DEF CachesCoherent, StoreInv
<1>5. Trusted' /\ AckedPersists'
  BY <1>e, <1>r DEF Trusted, AckedPersists, StoreInv
<1>6. Fetched'
  BY <1>e, <1>r DEF Fetched, StoreInv
<1> QED BY <1>e, <1>1, <1>2, <1>3, <1>4, <1>5, <1>6 DEF StoreInv

\* A modify begins: the snapshot is as good as the copy, unless nothing was read.
LEMMA ModifyKeeps ==
    ASSUME OneModifier, StoreInv, NEW t \in Modifier, NEW f \in Field, NEW v \in Value,
           modify(t, f, v)
    PROVE  StoreInv'
<1>e. /\ TypeInv' /\ pc[t] = "idle" /\ booted /\ pc'[t] = "write"
      /\ call'[t].job = "modify" /\ call'[t].fld = f /\ call'[t].val = v
      /\ call'[t].snap = [ram EXCEPT ![f] = v]
      /\ \A g \in Field : ee[g] \in call'[t].seen[g]
      /\ \A u \in Actor : u # t => pc'[u] = pc[u] /\ call'[u] = call[u]
      /\ allowed' = [allowed EXCEPT ![f] = @ \cup {v}]
      /\ blind' = (blind \/ ~synced)
      /\ UNCHANGED <<ee, ram, info, booted, synced, clean>>
  BY ModifyEffect DEF StoreInv
<1>r. /\ t \in Actor /\ t # Main /\ Main \in Actor /\ t \in Thread
      /\ Modifier \subseteq Actor /\ Thread \subseteq Actor
      /\ ram \in Record /\ allowed \in [Field -> SUBSET Value]
  BY <1>e, TypeParts DEF StoreInv
<1>o. \A u \in Modifier : u = t
  BY DEF OneModifier
<1>1. Noted'
  BY <1>e, <1>r DEF Noted, StoreInv
<1>s. [ram EXCEPT ![f] = v][f] = v
  BY <1>r DEF Record
<1>2. Written'
  BY <1>e, <1>r, <1>o, <1>s DEF Written
<1>3. GetReturnsHeld'
  BY <1>e, <1>r DEF GetReturnsHeld, StoreInv
<1>4. CachesCoherent'
  BY <1>e, <1>r DEF CachesCoherent
<1>a. \A g \in Field : allowed[g] \subseteq allowed'[g] /\ (g = f => v \in allowed'[g])
  BY <1>e, <1>r
<1>b. \A g \in Field : [ram EXCEPT ![f] = v][g] = IF g = f THEN v ELSE ram[g]
  BY <1>r DEF Record
<1>5. ~blind' => ~blind /\ synced
  BY <1>e
<1>6. AckedPersists'
  BY <1>e, <1>a, <1>5 DEF AckedPersists, StoreInv
<1>7. ~blind' => \A g \in Field : ram[g] \in allowed'[g] /\ call'[t].snap[g] \in allowed'[g]
  BY <1>e, <1>a, <1>b, <1>5 DEF Trusted, StoreInv
<1>m. pc'[Main] = pc[Main]
  BY <1>e, <1>r
<1>8. Trusted'
  BY <1>e, <1>o, <1>7, <1>m DEF Trusted, StoreInv
<1>9. Fetched'
  BY <1>e, <1>r DEF Fetched, StoreInv
<1> QED BY <1>e, <1>1, <1>2, <1>3, <1>4, <1>6, <1>8, <1>9 DEF StoreInv
\* A read fills the copy with what the EEPROM holds.
LEMMA ReadKeeps ==
    ASSUME StoreInv, NEW t \in Actor, ReadRecord(t)
    PROVE  StoreInv'
<1>e. /\ TypeInv' /\ pc[t] = "read" /\ pc'[t] = "field" /\ call[t].job # "none"
      /\ ram' = ee /\ synced' = TRUE
      /\ \A u \in Actor : u # t => pc'[u] = pc[u]
      /\ UNCHANGED <<ee, info, booted, call, allowed, blind, clean>>
  BY ReadEffect DEF StoreInv
<1>r. /\ Main \in Actor /\ Modifier \subseteq Actor /\ Thread \subseteq Actor
      /\ \A u \in Actor : pc[u] = "field" => call[u].job # "none"
  BY Roles DEF StoreInv
<1>1. Noted'
  BY <1>e, <1>r DEF Noted, StoreInv
<1>2. Written'
  BY <1>e, <1>r DEF Written, StoreInv
<1>3. GetReturnsHeld'
  BY <1>e, <1>r DEF GetReturnsHeld, StoreInv
<1>4. CachesCoherent'
  BY <1>e, <1>r DEF CachesCoherent, StoreInv
<1>5. AckedPersists'
  BY <1>e DEF AckedPersists, StoreInv
<1>m. pc'[Main] # "init"
  <2>1. t # Main => pc[Main] = "idle"
    BY <1>e, Running DEF StoreInv, TypeInv, Places
  <2> QED BY <1>e, <1>r, <2>1
<1>6. Trusted'
  BY <1>e, <1>r, <1>m DEF Trusted, AckedPersists, StoreInv
<1>7. Fetched'
  BY <1>e, <1>r DEF Fetched, StoreInv
<1> QED BY <1>e, <1>1, <1>2, <1>3, <1>4, <1>5, <1>6, <1>7 DEF StoreInv

\* A failed read may leave any mixture in the copy, and the device is not clean.
LEMMA ReadFailsKeeps ==
    ASSUME StoreInv, NEW t \in Actor, ReadFails(t)
    PROVE  StoreInv'
<1> DEFINE c == call[t]
           d == call'[t]
<1>e. /\ TypeInv' /\ pc[t] = "read" /\ clean' = FALSE
      /\ \A f \in Field : ram'[f] = ram[f] \/ ram'[f] = ee[f]
      /\ \/ pc'[t] = "idle" /\ d.job = "none" /\ c.job = "get"
         \/ /\ pc'[t] \in {"read", "publish"}
            /\ d.job = c.job /\ d.fld = c.fld /\ d.val = c.val /\ d.snap = c.snap
            /\ d.seen = c.seen
      /\ \A u \in Actor : u # t => pc'[u] = pc[u] /\ call'[u] = call[u]
      /\ UNCHANGED <<ee, info, booted, allowed, synced, blind>>
  BY ReadFailsEffect DEF StoreInv
<1>r. /\ Main \in Actor /\ Modifier \subseteq Actor /\ Thread \subseteq Actor
      /\ \A u \in Actor : pc[u] = "field" => call[u].job # "none"
      /\ c.job # "none"
  BY <1>e, Roles DEF StoreInv
<1>t. ram \in Record /\ ee \in Record /\ ram' \in Record
  BY <1>e DEF StoreInv, TypeInv, TypeOK
<1>1. Noted'
  BY <1>e, <1>r DEF Noted, StoreInv
<1>2. Written'
  <2> SUFFICES ASSUME NEW u \in Modifier, call'[u].job = "modify"
               PROVE  /\ call'[u].snap[call'[u].fld] = call'[u].val
                      /\ pc'[u] # "write" => ee' = call'[u].snap
                      /\ pc'[u] \in {"read", "field", "publish"} => ram' = call'[u].snap
    BY DEF Written
  <2>1. u \in Actor
    BY <1>r
  <2>2. /\ call[u].job = "modify" /\ call'[u].snap = call[u].snap
        /\ call'[u].fld = call[u].fld /\ call'[u].val = call[u].val
        /\ u # t => pc'[u] = pc[u]
        /\ u = t => pc[u] = "read"
    BY <1>e, <2>1
  <2>3. /\ call[u].snap[call[u].fld] = call[u].val
        /\ pc[u] # "write" => ee = call[u].snap
        /\ pc[u] \in {"read", "field", "publish"} => ram = call[u].snap
    BY <2>2 DEF Written, StoreInv
  <2>4. pc[u] \in {"read", "field", "publish"} => ram' = ram
    <3> SUFFICES ASSUME pc[u] \in {"read", "field", "publish"} PROVE ram' = ram
      OBVIOUS
    <3>1. ram = ee
      BY <2>3
    <3>2. \A f \in Field : ram'[f] = ram[f]
      BY <1>e, <3>1
    <3> QED BY <1>t, <3>2 DEF Record
  <2>5. /\ pc'[u] # "write" => pc[u] # "write"
        /\ pc'[u] \in {"read", "field", "publish"} => pc[u] \in {"read", "field", "publish"}
    BY <1>e, <2>2
  <2> QED BY <1>e, <2>2, <2>3, <2>4, <2>5
<1>3. GetReturnsHeld'
  BY <1>e, <1>r DEF GetReturnsHeld, StoreInv
<1>4. CachesCoherent' /\ Fetched'
  BY <1>e DEF CachesCoherent, Fetched
<1>5. AckedPersists'
  BY <1>e DEF AckedPersists, StoreInv
<1>6. Trusted'
  <2>1. pc'[Main] = "init" => pc[Main] = "init"
    BY <1>e, <1>r
  <2>2. ~blind /\ synced => \A f \in Field : ram'[f] \in allowed[f]
    BY <1>e DEF Trusted, AckedPersists, StoreInv
  <2>3. \A u \in Modifier : pc'[u] = "write" => pc[u] = "write" /\ call'[u] = call[u]
    BY <1>e, <1>r
  <2> QED BY <1>e, <2>1, <2>2, <2>3 DEF Trusted, StoreInv
<1> QED BY <1>e, <1>1, <1>2, <1>3, <1>4, <1>5, <1>6 DEF StoreInv

\* The getter takes from the copy what the EEPROM held during the call.
LEMMA TakeKeeps ==
    ASSUME StoreInv, NEW t \in Actor, TakeField(t)
    PROVE  StoreInv'
<1> DEFINE c == call[t]
           d == call'[t]
           h == Head(c.todo)
<1>e. /\ TypeInv' /\ pc[t] = "field" /\ pc'[t] \in {"read", "return", "publish"}
      /\ c.job # "none" /\ c.todo # <<>> /\ c.todo \in Seq(Field) /\ c.got \in Record
      /\ h \in Field /\ d.got = [c.got EXCEPT ![h] = ram[h]] /\ d.todo = Tail(c.todo)
      /\ d.job = c.job /\ d.fld = c.fld /\ d.val = c.val /\ d.snap = c.snap
      /\ d.seen = c.seen
      /\ pc'[t] = "return" => c.job = "get" /\ h = c.fld
      /\ \A u \in Actor : u # t => pc'[u] = pc[u] /\ call'[u] = call[u]
      /\ UNCHANGED <<ee, ram, info, booted, allowed, synced, blind, clean>>
  BY TakeEffect DEF StoreInv
<1>r. /\ Main \in Actor /\ Modifier \subseteq Actor /\ Thread \subseteq Actor
      /\ c.job = "modify" => t \in Modifier
      /\ c.job = "boot" => t = Main
      /\ booted => pc[Main] = "idle"
  BY Roles DEF StoreInv
<1>g. /\ d.got[h] = ram[h]
      /\ \A f \in Field : f # h => d.got[f] = c.got[f]
  BY <1>e DEF Record
<1>l. \A f \in Left(c) : f = h \/ f \in Left(d)
  BY <1>e, LeftTail
<1> HIDE DEF h
<1>1. Noted'
  BY <1>e, <1>r DEF Noted, StoreInv
<1>2. Written'
  BY <1>e, <1>r DEF Written, StoreInv
<1>3. GetReturnsHeld'
  <2> SUFFICES ASSUME NEW u \in Actor, pc'[u] = "return"
               PROVE  call'[u].got[call'[u].fld] \in call'[u].seen[call'[u].fld]
    BY DEF GetReturnsHeld
  <2>1. CASE u # t
    BY <1>e, <2>1 DEF GetReturnsHeld, StoreInv
  <2>2. CASE u = t
    <3>1. d.fld = h /\ d.got[h] = ram[h]
      BY <1>e, <1>g, <2>2
    <3>2. ram[h] \in c.seen[h]
      BY <1>e DEF Noted, StoreInv
    <3> QED BY <1>e, <2>2, <3>1, <3>2
  <2> QED BY <2>1, <2>2
<1>4. CachesCoherent'
  BY <1>e, <1>r DEF CachesCoherent, StoreInv
<1>5. AckedPersists' /\ Trusted'
  BY <1>e, <1>r DEF AckedPersists, Trusted, StoreInv
<1>6. Fetched'
  <2> SUFFICES ASSUME clean
               PROVE  /\ pc'[Main] \in {"field", "publish"} => synced
                      /\ ~booted /\ synced => ram = ee
                      /\ \A u \in Actor :
                            call'[u].job \in {"boot", "modify"} /\ pc'[u] # "write" =>
                                \A f \in InfoSet : f \in Left(call'[u]) \/ call'[u].got[f] = ee[f]
    BY <1>e DEF Fetched
  <2>1. /\ pc[Main] \in {"field", "publish"} => synced
        /\ ~booted /\ synced => ram = ee
        /\ \A u \in Actor :
              call[u].job \in {"boot", "modify"} /\ pc[u] # "write" =>
                  \A f \in InfoSet : f \in Left(call[u]) \/ call[u].got[f] = ee[f]
    BY DEF Fetched, StoreInv
  <2>2. pc'[Main] \in {"field", "publish"} => synced
    BY <1>e, <1>r, <2>1
  <2>3. c.job \in {"boot", "modify"} => ram = ee
    <3>1. CASE c.job = "boot"
      BY <1>e, <1>r, <2>1, <3>1
    <3>2. CASE c.job = "modify"
      BY <1>e, <1>r, <3>2 DEF Written, StoreInv
    <3> QED BY <3>1, <3>2
  <2>4. InfoSet \subseteq Field
    BY StoreAssumption, ElementOfSeq DEF InfoSet
  <2>5. c.job \in {"boot", "modify"} => \A f \in InfoSet : f \in Left(d) \/ d.got[f] = ee[f]
    BY <1>e, <1>g, <1>l, <2>1, <2>3, <2>4
  <2> HIDE DEF c, d
  <2>6. ASSUME NEW u \in Actor, call'[u].job \in {"boot", "modify"}, pc'[u] # "write",
               NEW f \in InfoSet
        PROVE  f \in Left(call'[u]) \/ call'[u].got[f] = ee[f]
    <3>1. CASE u # t
      BY <1>e, <2>1, <2>6, <3>1
    <3>2. CASE u = t
      BY <1>e, <2>5, <2>6, <3>2 DEF c, d
    <3> QED BY <3>1, <3>2
  <2> QED BY <2>1, <2>2, <2>6
<1> QED BY <1>e, <1>1, <1>2, <1>3, <1>4, <1>5, <1>6 DEF StoreInv

\* A get ends.
LEMMA GetReturnsKeeps ==
    ASSUME StoreInv, NEW t \in Actor, GetReturns(t)
    PROVE  StoreInv'
<1>e. /\ TypeInv' /\ pc[t] = "return" /\ pc'[t] = "idle" /\ call'[t].job = "none"
      /\ call[t].job = "get"
      /\ \A u \in Actor : u # t => pc'[u] = pc[u] /\ call'[u] = call[u]
      /\ UNCHANGED <<ee, ram, info, booted, allowed, synced, blind, clean>>
  BY GetReturnsEffect DEF StoreInv
<1>r. /\ Main \in Actor /\ Modifier \subseteq Actor /\ Thread \subseteq Actor
  BY Roles DEF StoreInv
<1>1. Noted'
  BY <1>e, <1>r DEF Noted, StoreInv
<1>2. Written'
  BY <1>e, <1>r DEF Written, StoreInv
<1>3. GetReturnsHeld'
  BY <1>e, <1>r DEF GetReturnsHeld, StoreInv
<1>4. CachesCoherent'
  BY <1>e, <1>r DEF CachesCoherent, StoreInv
<1>5. AckedPersists' /\ Trusted'
  BY <1>e, <1>r DEF AckedPersists, Trusted, StoreInv
<1>6. Fetched'
  BY <1>e, <1>r DEF Fetched, StoreInv
<1> QED BY <1>e, <1>1, <1>2, <1>3, <1>4, <1>5, <1>6 DEF StoreInv
\* The write: the EEPROM holds the snapshot of the only modify.
LEMMA WriteKeeps ==
    ASSUME OneModifier, StoreInv, NEW t \in Actor, WriteRecord(t)
    PROVE  StoreInv'
<1>e. /\ TypeInv' /\ pc[t] = "write" /\ pc'[t] = "copy" /\ call[t].job = "modify"
      /\ t \in Modifier /\ ee' = call[t].snap
      /\ \A u \in Actor : u # t => pc'[u] = pc[u]
      /\ \A u \in Actor : LET c == call[u]
                              d == call'[u] IN
            /\ d.job = c.job
            /\ c.job # "none" =>
                 /\ d.fld = c.fld /\ d.val = c.val /\ d.snap = c.snap
                 /\ d.todo = c.todo /\ d.got = c.got
                 /\ \A f \in Field : d.seen[f] = c.seen[f] \cup {ee'[f]}
      /\ UNCHANGED <<ram, info, booted, allowed, synced, blind, clean>>
  BY WriteEffect DEF StoreInv
<1>r. /\ Main \in Actor /\ Modifier \subseteq Thread /\ Thread \subseteq Actor /\ t # Main
      /\ \A u \in Actor : pc[u] \notin {"init", "idle"} => call[u].job # "none"
      /\ call[t].todo = InfoFields
      /\ \A u \in Actor : call[u].job = "modify" => u \in Modifier
      /\ \A u \in Actor : call[u].job = "boot" => u = Main
      /\ \A u \in Actor : pc[u] = "return" => call[u].job = "get"
      /\ booted /\ call[Main].job = "none" /\ pc[Main] = "idle"
  BY <1>e, Roles DEF StoreInv
<1>o. \A u \in Modifier : u = t
  BY <1>e DEF OneModifier
<1>1. Noted'
  <2>1. \A u \in Actor : call'[u].job # "none" => \A f \in Field : ee'[f] \in call'[u].seen[f]
    BY <1>e
  <2>2. ASSUME NEW u \in Actor, pc'[u] = "field", NEW f \in Field
        PROVE  ram[f] \in call'[u].seen[f]
    <3>1. pc[u] = "field"
      BY <1>e, <2>2
    <3>2. call[u].job # "none" /\ ram[f] \in call[u].seen[f]
      BY <1>r, <3>1 DEF Noted, StoreInv
    <3> QED BY <1>e, <3>2
  <2> QED BY <1>e, <2>1, <2>2 DEF Noted
<1>2. Written'
  BY <1>e, <1>r, <1>o DEF Written, StoreInv
<1>3. GetReturnsHeld'
  <2> SUFFICES ASSUME NEW u \in Actor, pc'[u] = "return"
               PROVE  call'[u].got[call'[u].fld] \in call'[u].seen[call'[u].fld]
    BY DEF GetReturnsHeld
  <2>1. pc[u] = "return"
    BY <1>e
  <2>2. /\ call[u].job # "none" /\ call[u].fld \in Field
        /\ call[u].got[call[u].fld] \in call[u].seen[call[u].fld]
    BY <1>r, <2>1, CallParts, TypeParts DEF GetReturnsHeld, StoreInv
  <2> QED BY <1>e, <2>2
<1>4. CachesCoherent'
  BY <1>e, <1>r DEF CachesCoherent
<1>5. AckedPersists'
  BY <1>e DEF AckedPersists, Trusted, StoreInv
<1>6. Trusted'
  BY <1>e, <1>r, <1>o DEF Trusted, StoreInv
<1>7. Left(call'[t]) = InfoSet
  BY <1>e, <1>r, LeftAll
<1>8. Fetched'
  <2>1. pc'[Main] = "idle" /\ booted' /\ call'[Main].job = "none"
    BY <1>e, <1>r
  <2>2. \A u \in Actor : call'[u].job \in {"boot", "modify"} => u = t
    BY <1>e, <1>r, <1>o
  <2> QED BY <1>7, <2>1, <2>2 DEF Fetched
<1> QED BY <1>e, <1>1, <1>2, <1>3, <1>4, <1>5, <1>6, <1>8 DEF StoreInv

\* A failed write leaves the old value or that of the snapshot in each field.
LEMMA WriteFailsKeeps ==
    ASSUME OneModifier, StoreInv, NEW t \in Actor, WriteFails(t)
    PROVE  StoreInv'
<1>e. /\ TypeInv' /\ pc[t] = "write" /\ pc'[t] = "idle" /\ call[t].job = "modify"
      /\ t \in Modifier /\ call'[t].job = "none" /\ clean' = FALSE
      /\ \A f \in Field : ee'[f] = ee[f] \/ ee'[f] = call[t].snap[f]
      /\ \A u \in Actor : u # t => pc'[u] = pc[u]
      /\ \A u \in Actor : u # t => LET c == call[u]
                                       d == call'[u] IN
            /\ d.job = c.job
            /\ c.job # "none" =>
                 /\ d.fld = c.fld /\ d.val = c.val /\ d.snap = c.snap
                 /\ d.todo = c.todo /\ d.got = c.got
                 /\ \A f \in Field : d.seen[f] = c.seen[f] \cup {ee'[f]}
      /\ UNCHANGED <<ram, info, booted, allowed, synced, blind>>
  BY WriteFailsEffect DEF StoreInv
<1>r. /\ Main \in Actor /\ Modifier \subseteq Actor /\ t # Main
      /\ \A u \in Actor : pc[u] \notin {"init", "idle"} => call[u].job # "none"
  BY <1>e, Roles DEF StoreInv
<1>o. \A u \in Modifier : u = t
  BY <1>e DEF OneModifier
<1>1. Noted'
  <2>1. \A u \in Actor : call'[u].job # "none" => \A f \in Field : ee'[f] \in call'[u].seen[f]
    BY <1>e
  <2>2. ASSUME NEW u \in Actor, pc'[u] = "field", NEW f \in Field
        PROVE  ram[f] \in call'[u].seen[f]
    <3>1. pc[u] = "field" /\ u # t
      BY <1>e, <2>2
    <3>2. call[u].job # "none" /\ ram[f] \in call[u].seen[f]
      BY <1>r, <3>1 DEF Noted, StoreInv
    <3> QED BY <1>e, <3>1, <3>2
  <2> QED BY <1>e, <2>1, <2>2 DEF Noted
<1>2. Written'
  BY <1>e, <1>r, <1>o DEF Written
<1>3. GetReturnsHeld'
  <2> SUFFICES ASSUME NEW u \in Actor, pc'[u] = "return"
               PROVE  call'[u].got[call'[u].fld] \in call'[u].seen[call'[u].fld]
    BY DEF GetReturnsHeld
  <2>1. pc[u] = "return" /\ u # t
    BY <1>e
  <2>2. /\ call[u].job # "none" /\ call[u].fld \in Field
        /\ call[u].got[call[u].fld] \in call[u].seen[call[u].fld]
    BY <1>r, <2>1, CallParts, TypeParts DEF GetReturnsHeld, StoreInv
  <2> QED BY <1>e, <2>1, <2>2
<1>4. CachesCoherent' /\ Fetched'
  BY <1>e DEF CachesCoherent, Fetched
<1>5. AckedPersists'
  BY <1>e DEF AckedPersists, Trusted, StoreInv
<1>6. Trusted'
  BY <1>e, <1>r, <1>o DEF Trusted, StoreInv
<1> QED BY <1>e, <1>1, <1>2, <1>3, <1>4, <1>5, <1>6 DEF StoreInv

\* The copy becomes the snapshot, which is what the EEPROM holds.
LEMMA CopyKeeps ==
    ASSUME StoreInv, NEW t \in Actor, CopyRecord(t)
    PROVE  StoreInv'
<1>e. /\ TypeInv' /\ pc[t] = "copy" /\ pc'[t] = "read" /\ call[t].job = "modify"
      /\ t \in Modifier /\ ram' = call[t].snap
      /\ \A u \in Actor : u # t => pc'[u] = pc[u]
      /\ UNCHANGED <<ee, info, booted, call, allowed, synced, blind, clean>>
  BY CopyEffect DEF StoreInv
<1>r. /\ Main \in Actor /\ Modifier \subseteq Thread /\ Thread \subseteq Actor /\ t # Main
      /\ \A u \in Actor : pc[u] \notin {"init", "idle"} => call[u].job # "none"
      /\ booted
  BY <1>e, Roles DEF StoreInv
<1>s. ram' = ee
  BY <1>e DEF Written, StoreInv
<1>1. Noted'
  BY <1>e, <1>r, <1>s DEF Noted, StoreInv
<1>2. Written'
  BY <1>e, <1>r, <1>s DEF Written, StoreInv
<1>3. GetReturnsHeld'
  BY <1>e, <1>r DEF GetReturnsHeld, StoreInv
<1>4. CachesCoherent'
  BY <1>e, <1>r DEF CachesCoherent
<1>5. AckedPersists'
  BY <1>e DEF AckedPersists, StoreInv
<1>6. Trusted'
  BY <1>e, <1>r, <1>s DEF Trusted, AckedPersists, StoreInv
<1>7. Fetched'
  BY <1>e, <1>r, <1>s DEF Fetched, StoreInv
<1> QED BY <1>e, <1>1, <1>2, <1>3, <1>4, <1>5, <1>6, <1>7 DEF StoreInv

\* lock->info gets what was read, and the modify is acknowledged.
LEMMA PublishKeeps ==
    ASSUME OneModifier, StoreInv, NEW t \in Actor, Publish(t)
    PROVE  StoreInv'
<1> DEFINE c == call[t]
<1>e. /\ TypeInv' /\ pc[t] = "publish" /\ pc'[t] = "idle" /\ call'[t].job = "none"
      /\ booted' = TRUE /\ c.todo = <<>>
      /\ \A f \in InfoSet : info'[f] = c.got[f]
      /\ \/ c.job = "boot" /\ t = Main /\ ~booted /\ allowed' = allowed
         \/ /\ c.job = "modify" /\ t \in Modifier /\ booted
            /\ c.fld \in Field /\ c.val \in Value
            /\ allowed' = [allowed EXCEPT ![c.fld] = {c.val}]
      /\ \A u \in Actor : u # t => pc'[u] = pc[u] /\ call'[u] = call[u]
      /\ UNCHANGED <<ee, ram, synced, blind, clean>>
  BY PublishEffect DEF StoreInv
<1>r. /\ Main \in Actor /\ Modifier \subseteq Actor
      /\ allowed \in [Field -> SUBSET Value]
      /\ ~booted => \A u \in Modifier : pc[u] = "idle"
  BY Roles, TypeParts DEF StoreInv
<1>w. c.job = "modify" => ee = c.snap /\ ram = c.snap /\ c.snap[c.fld] = c.val
  BY <1>e DEF Written, StoreInv
<1>1. Noted'
  BY <1>e, <1>r DEF Noted, StoreInv
<1>2. Written'
  BY <1>e, <1>r DEF Written, StoreInv
<1>3. GetReturnsHeld'
  BY <1>e, <1>r DEF GetReturnsHeld, StoreInv
<1>4. Left(c) = {}
  BY <1>e, LeftNone
<1>5. clean => ram = ee /\ \A f \in InfoSet : info'[f] = ee[f]
  <2>1. clean => \A f \in InfoSet : f \in Left(c) \/ c.got[f] = ee[f]
    BY <1>e DEF Fetched, StoreInv
  <2>2. clean => ram = ee
    BY <1>e, <1>w DEF Fetched, StoreInv
  <2> QED BY <1>e, <1>4, <2>1, <2>2
<1>6. CachesCoherent'
  BY <1>e, <1>5 DEF CachesCoherent
<1>a. \A f \in Field : \/ allowed'[f] = allowed[f]
                       \/ c.job = "modify" /\ f = c.fld /\ allowed'[f] = {c.val}
  BY <1>e, <1>r
<1>7. AckedPersists'
  BY <1>e, <1>w, <1>a DEF AckedPersists, StoreInv
<1>m. pc'[Main] # "init"
  BY <1>e, <1>r DEF StoreInv, TypeInv, Places
<1>n. \A u \in Modifier : pc'[u] # "write"
  <2>1. CASE c.job = "boot"
    BY <1>e, <1>r, <2>1
  <2>2. CASE c.job = "modify"
    BY <1>e, <1>r, <2>2 DEF OneModifier
  <2> QED BY <1>e, <2>1, <2>2
<1>8. Trusted'
  <2>1. ~blind /\ synced => \A f \in Field : ram[f] \in allowed'[f]
    BY <1>w, <1>a DEF Trusted, StoreInv
  <2> QED BY <1>e, <1>m, <1>n, <2>1 DEF Trusted
<1>9. Fetched'
  BY <1>e, <1>r DEF Fetched, StoreInv
<1> QED BY <1>e, <1>1, <1>2, <1>3, <1>6, <1>7, <1>8, <1>9 DEF StoreInv

\* A reset, in a write too.
LEMMA ResetKeeps ==
    ASSUME StoreInv, Reset
    PROVE  StoreInv'
<1>e. /\ TypeInv' /\ pc'[Main] = "init" /\ booted' = FALSE /\ synced' = FALSE
      /\ \A t \in Actor : call'[t].job = "none" /\ pc'[t] \in {"init", "idle"}
      /\ \A f \in Field : \/ ee'[f] = ee[f]
                          \/ \E t \in Modifier : pc[t] = "write" /\ ee'[f] = call[t].snap[f]
      /\ UNCHANGED <<allowed, blind>>
  BY ResetEffect DEF StoreInv
<1>r. Main \in Actor /\ Modifier \subseteq Actor
  BY Roles DEF StoreInv
<1>1. Noted' /\ Written' /\ GetReturnsHeld' /\ CachesCoherent'
  BY <1>e, <1>r DEF Noted, Written, GetReturnsHeld, CachesCoherent
<1>2. AckedPersists'
  BY <1>e DEF AckedPersists, Trusted, StoreInv
<1>3. Trusted' /\ Fetched'
  BY <1>e, <1>r DEF Trusted, Fetched
<1> QED BY <1>e, <1>1, <1>2, <1>3 DEF StoreInv

\* A stuttering step.
LEMMA StoreStutter ==
    ASSUME StoreInv, UNCHANGED vars
    PROVE  StoreInv'
<1>1. UNCHANGED <<ee, ram, info, booted, pc, call, faults, allowed, synced, blind, clean>>
  BY DEF vars, histVars
<1>2. TypeInv'
  BY TypeStutter DEF StoreInv
<1>3. Noted' /\ Written' /\ GetReturnsHeld'
  BY <1>1 DEF Noted, Written, GetReturnsHeld, StoreInv
<1>4. Trusted' /\ AckedPersists' /\ CachesCoherent'
  BY <1>1 DEF Trusted, AckedPersists, CachesCoherent, StoreInv
<1>5. Fetched'
  BY <1>1 DEF Fetched, StoreInv
<1> QED BY <1>2, <1>3, <1>4, <1>5 DEF StoreInv

\* Every step.
LEMMA StoreNext ==
    ASSUME OneModifier, StoreInv, [Next]_vars
    PROVE  StoreInv'
<1>1. CASE config_init
  BY <1>1, InitKeeps
<1>2. ASSUME NEW t \in Thread, NEW f \in Field, get(t, f) PROVE StoreInv'
  BY <1>2, GetKeeps
<1>3. ASSUME NEW t \in Modifier, NEW f \in Field, NEW v \in Value, modify(t, f, v)
      PROVE  StoreInv'
  BY <1>3, ModifyKeeps
<1>4. ASSUME NEW t \in Actor, Step(t) PROVE StoreInv'
  <2>1. CASE ReadRecord(t)
    BY <2>1, ReadKeeps
  <2>2. CASE ReadFails(t)
    BY <2>2, ReadFailsKeeps
  <2>3. CASE TakeField(t)
    BY <2>3, TakeKeeps
  <2>4. CASE GetReturns(t)
    BY <2>4, GetReturnsKeeps
  <2>5. CASE WriteRecord(t)
    BY <2>5, WriteKeeps
  <2>6. CASE WriteFails(t)
    BY <2>6, WriteFailsKeeps
  <2>7. CASE CopyRecord(t)
    BY <2>7, CopyKeeps
  <2>8. CASE Publish(t)
    BY <2>8, PublishKeeps
  <2> QED BY <1>4, <2>1, <2>2, <2>3, <2>4, <2>5, <2>6, <2>7, <2>8 DEF Step
<1>5. CASE Reset
  BY <1>5, ResetKeeps
<1>6. CASE UNCHANGED vars
  BY <1>6, StoreStutter
<1> QED BY <1>1, <1>2, <1>3, <1>4, <1>5, <1>6 DEF Next

\* The inductive invariant, for one modifier.
LEMMA StoreInvariant == ASSUME OneModifier PROVE Spec => []StoreInv
<1>1. Init => StoreInv
  BY StoreInit
<1>2. StoreInv /\ [Next]_vars => StoreInv'
  BY StoreNext
<1> QED BY <1>1, <1>2, PTL DEF Spec

\* With one thread that modifies, each field of the EEPROM has the value of its
\* last acknowledged modification, or of a later attempt, through any number of
\* failed transfers and resets in the middle of a write, unless a modify started
\* from a copy that no read had filled since the reset.
THEOREM AckedSurvives == ASSUME OneModifier PROVE Spec => []AckedPersists
<1>1. StoreInv => AckedPersists
  BY DEF StoreInv
<1> QED BY <1>1, StoreInvariant, PTL

\* With one thread that modifies, a get returns a value that the EEPROM held
\* during the call, although any thread may refill the copy after its read.
THEOREM GetsAreHeld == ASSUME OneModifier PROVE Spec => []GetReturnsHeld
<1>1. StoreInv => GetReturnsHeld
  BY DEF StoreInv
<1> QED BY <1>1, StoreInvariant, PTL

\* With one thread that modifies and no failed transfer since the reset, the copy
\* in RAM and lock->info agree with the EEPROM whenever no modify is in progress.
THEOREM CachesAgree == ASSUME OneModifier PROVE Spec => []CachesCoherent
<1>1. StoreInv => CachesCoherent
  BY DEF StoreInv
<1> QED BY <1>1, StoreInvariant, PTL

=============================================================================
