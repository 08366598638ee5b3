----------------------------- MODULE DeviceProofs -----------------------------
(***************************************************************************)
(* Proofs about Device and Redelivery for any addresses, serial numbers,    *)
(* types and number of faults.  An operation of config.c is the set of its  *)
(* outcomes, so there is one lemma per operation about all its outcomes, and *)
(* one per handler that strings them together.                              *)
(***************************************************************************)
EXTENDS Redelivery, TLAPS

AnyValue == Addr \cup Sn \cup TypeByte \cup {0, 1}
Records  == [Field -> AnyValue]
Infos    == [dev_id : {0, 3, 25}, addr : Addr \cup {0}, sn : Sn \cup {0},
             lock_type : 0..DEVICE_TYPE_MAX]
Stores   == [ee : Records, ram : Records, info : Infos, faults : Nat]
AvcState == [is_action : BOOLEAN, is_set : BOOLEAN, is_save : BOOLEAN]

\* A record with values of the right types.
GoodRecord(r) == r \in Records /\ \A f \in Field : r[f] \in Domain(f)

\* The store of a device that runs, and of one that does not.
Good(s) ==
    s \in Stores /\ GoodRecord(s.ee) /\ GoodRecord(s.ram) /\ s.faults <= MaxFaults
Resting(s) ==
    s \in Stores /\ GoodRecord(s.ee) /\ s.ram = Blank /\ s.info = NoInfo /\ s.faults = 0

\* The copy agrees with the EEPROM, or something failed; or twice.
Half(s)   == s.ram = s.ee \/ s.faults >= 1
Healed(s) == s.ram = s.ee \/ s.faults >= 2

\* The type that no table serves is neither stored nor about to be.
Served(s) == s.ee["type"] # DEVICE_TYPE_MAX /\ s.ram["type"] # DEVICE_TYPE_MAX

\* From s to u the fields outside N stay as they are where the copy and the EEPROM
\* agree, faults are not forgotten, and the type stays one that is served.
Kept(s, u, N) ==
    \A f \in Field \ N : s.ram[f] = s.ee[f] => u.ram[f] = s.ee[f] /\ u.ee[f] = s.ee[f]
After(s, u, N) ==
    Good(u) /\ u.faults >= s.faults /\ Kept(s, u, N) /\ (Served(s) => Served(u))

\* The type that 0x07 and 0x37 leave, one of their own being already right.
Typed(t, type) == IF get_device(t) = type THEN t ELSE type

\* The pairs of a field and a value that a reply acknowledges, or shows, agree
\* with the record r.
True(acked, r)  == \A c \in acked : r[c[1]] = c[2]
Value(f, r)     == IF f = "type" THEN get_device(r[f]) ELSE r[f]
Shows(sent, r)  == \A c \in sent : c[2] = Value(c[1], r)

-----------------------------------------------------------------------------
\* Types and places; what belongs to a device that is off.
StoreOK ==
    /\ run \in {"off", "up", "hung"}
    /\ IF run = "off" THEN Resting(st) ELSE Good(st)

TypeInv ==
    /\ StoreOK
    /\ set \in {{}, yk_codes, avc_codes, cold_codes}
    /\ filter \in [addr : Addr \cup {0}, any : BOOLEAN]
    /\ relay \in {OPEN, CLOSE} /\ coil \in BOOLEAN /\ avc_state \in AvcState
    /\ run = "off" => last \in {NoCommand, NoReply("0x03")}

\* Only under the table with 0x02 can the close coil be on.
CoilOff == coil => run # "off" /\ set = yk_codes

DevInv ==
    /\ TypeInv /\ CoilOff
    /\ run = "up" => Healed(st)
    /\ RepliesTrue /\ CommandHonest /\ CommandObeyed
-----------------------------------------------------------------------------
(***************************************************************************)
(* The operations of config.c and lock.c.                                   *)
(***************************************************************************)
\* The values of a field.
LEMMA DomainParts ==
    /\ Field = {"type", "addr", "sn", "exec", "cmd", "relay"}
    /\ Domain("type") = TypeByte /\ Domain("addr") = Addr /\ Domain("sn") = Sn
    /\ Domain("exec") = {0, 1} /\ Domain("cmd") = {0, 1} /\ Domain("relay") = {0, 1}
BY DEF Field, Domain

\* Every value of a field is a value.
LEMMA DomainAny == \A f \in Field : Domain(f) \subseteq AnyValue
BY DomainParts DEF AnyValue

\* The parts of a store.
LEMMA StoreParts ==
    ASSUME NEW s \in Stores
    PROVE  /\ s.ee \in Records /\ s.ram \in Records /\ s.info \in Infos /\ s.faults \in Nat
           /\ \A r \in Records : /\ [s EXCEPT !.ram = r] \in Stores
                                 /\ [s EXCEPT !.ram = r].ee = s.ee
                                 /\ [s EXCEPT !.ram = r].ram = r
                                 /\ [s EXCEPT !.ram = r].info = s.info
                                 /\ [s EXCEPT !.ram = r].faults = s.faults
           /\ \A r \in Records : /\ [s EXCEPT !.ee = r] \in Stores
                                 /\ [s EXCEPT !.ee = r].ee = r
                                 /\ [s EXCEPT !.ee = r].ram = s.ram
                                 /\ [s EXCEPT !.ee = r].info = s.info
                                 /\ [s EXCEPT !.ee = r].faults = s.faults
           /\ \A i \in Infos : /\ [s EXCEPT !.info = i] \in Stores
                               /\ [s EXCEPT !.info = i].ee = s.ee
                               /\ [s EXCEPT !.info = i].ram = s.ram
                               /\ [s EXCEPT !.info = i].info = i
                               /\ [s EXCEPT !.info = i].faults = s.faults
           /\ \A n \in Nat : /\ [s EXCEPT !.faults = n] \in Stores
                             /\ [s EXCEPT !.faults = n].ee = s.ee
                             /\ [s EXCEPT !.faults = n].ram = s.ram
                             /\ [s EXCEPT !.faults = n].info = s.info
                             /\ [s EXCEPT !.faults = n].faults = n
BY DEF Stores

\* A fault is counted and changes nothing else.
LEMMA FaultedParts ==
    ASSUME NEW s \in Stores
    PROVE  /\ Faulted(s) \in Stores /\ Faulted(s).ee = s.ee /\ Faulted(s).ram = s.ram
           /\ Faulted(s).info = s.info /\ Faulted(s).faults = s.faults + 1
           /\ s.faults \in Nat
<1>1. Faulted(s) = [s EXCEPT !.faults = s.faults + 1]
  BY DEF Faulted
<1>2. s.faults \in Nat /\ s.faults + 1 \in Nat
  BY StoreParts
<1> QED BY <1>1, <1>2, StoreParts

\* A transfer that fails leaves in each field one of the two values.
LEMMA MixGood ==
    ASSUME NEW a, NEW b, GoodRecord(a), GoodRecord(b), NEW m \in Mix(a, b)
    PROVE  GoodRecord(m) /\ \A f \in Field : m[f] = a[f] \/ m[f] = b[f]
<1>1. PICK S \in SUBSET {f \in Field : a[f] # b[f]} :
         m = [f \in Field |-> IF f \in S THEN b[f] ELSE a[f]]
  BY DEF Mix
<1>2. \A f \in Field : m[f] = a[f] \/ m[f] = b[f]
  BY <1>1
<1>3. m \in Records
  BY <1>1 DEF GoodRecord, Records
<1> QED BY <1>2, <1>3 DEF GoodRecord

\* A record with one field changed.
LEMMA ChangeGood ==
    ASSUME NEW r, GoodRecord(r), NEW f \in Field, NEW v \in Domain(f)
    PROVE  /\ GoodRecord([r EXCEPT ![f] = v]) /\ [r EXCEPT ![f] = v][f] = v
           /\ \A g \in Field : g # f => [r EXCEPT ![f] = v][g] = r[g]
<1>1. r \in Records /\ v \in AnyValue
  BY DomainAny DEF GoodRecord
<1>2. [r EXCEPT ![f] = v] \in Records
  BY <1>1 DEF Records
<1>3. /\ [r EXCEPT ![f] = v][f] = v
      /\ \A g \in Field : g # f => [r EXCEPT ![f] = v][g] = r[g]
  BY <1>1 DEF Records
<1> QED BY <1>1, <1>2, <1>3 DEF GoodRecord

\* Records with the same fields are the same.
LEMMA SameRecord ==
    ASSUME NEW a, NEW b, GoodRecord(a), GoodRecord(b), \A f \in Field : a[f] = b[f]
    PROVE  a = b
BY DEF GoodRecord, Records

\* config_get: it reads the field and refreshes the copy, or something failed.
LEMMA GetFacts ==
    ASSUME NEW s, Good(s), NEW f \in Field, NEW g \in config_get(s, f)
    PROVE  /\ Good(g.s) /\ g.s.ee = s.ee /\ g.s.info = s.info /\ g.v \in Domain(f)
           /\ g.s.faults \in Nat /\ s.faults \in Nat /\ g.ok \in BOOLEAN
           /\ \A h \in Field : g.s.ram[h] = s.ram[h] \/ g.s.ram[h] = s.ee[h]
           /\ g.ok => g.v = s.ee[f] /\ g.s.ram = s.ee /\ g.s.faults = s.faults
           /\ ~g.ok => g.s.faults = s.faults + 1
<1>1. /\ s \in Stores /\ GoodRecord(s.ee) /\ GoodRecord(s.ram) /\ s.ee \in Records
      /\ s.faults \in Nat /\ s.faults <= MaxFaults /\ MaxFaults \in Nat
  BY StoreParts, DeviceAssumption DEF Good
<1>2. CASE g = [s |-> [s EXCEPT !.ram = s.ee], ok |-> TRUE, v |-> s.ee[f]]
  <2>1. g.ok = TRUE /\ g.v = s.ee[f] /\ g.s = [s EXCEPT !.ram = s.ee]
    BY <1>2
  <2>2. /\ g.s \in Stores /\ g.s.ee = s.ee /\ g.s.ram = s.ee /\ g.s.info = s.info
        /\ g.s.faults = s.faults
    BY <1>1, <2>1, StoreParts
  <2>3. s.ee[f] \in Domain(f)
    BY <1>1 DEF GoodRecord
  <2> QED BY <1>1, <2>1, <2>2, <2>3 DEF Good
<1>3. ASSUME CanFault(s), NEW m \in Mix(s.ram, s.ee), NEW junk \in Domain(f),
             g = [s |-> [Faulted(s) EXCEPT !.ram = m], ok |-> FALSE, v |-> junk]
      PROVE  /\ Good(g.s) /\ g.s.ee = s.ee /\ g.s.info = s.info /\ g.v \in Domain(f)
             /\ g.s.faults = s.faults + 1 /\ g.ok = FALSE
             /\ \A h \in Field : g.s.ram[h] = s.ram[h] \/ g.s.ram[h] = s.ee[h]
  <2>1. GoodRecord(m) /\ \A h \in Field : m[h] = s.ram[h] \/ m[h] = s.ee[h]
    BY <1>1, MixGood
  <2>2. g.ok = FALSE /\ g.v = junk /\ g.s = [Faulted(s) EXCEPT !.ram = m]
    BY <1>3
  <2>3. /\ Faulted(s) \in Stores /\ Faulted(s).ee = s.ee /\ Faulted(s).ram = s.ram
        /\ Faulted(s).info = s.info /\ Faulted(s).faults = s.faults + 1 /\ m \in Records
    BY <1>1, <2>1, FaultedParts DEF GoodRecord
  <2>4. /\ g.s \in Stores /\ g.s.ee = s.ee /\ g.s.ram = m /\ g.s.info = s.info
        /\ g.s.faults = s.faults + 1
    BY <2>2, <2>3, StoreParts
  <2>5. s.faults + 1 <= MaxFaults
    BY <1>1, <1>3 DEF CanFault
  <2> QED BY <1>1, <2>1, <2>2, <2>4, <2>5 DEF Good
<1>4. \/ g = [s |-> [s EXCEPT !.ram = s.ee], ok |-> TRUE, v |-> s.ee[f]]
      \/ CanFault(s) /\ \E m \in Mix(s.ram, s.ee), junk \in Domain(f) :
            g = [s |-> [Faulted(s) EXCEPT !.ram = m], ok |-> FALSE, v |-> junk]
  <2> DEFINE a == [s |-> [s EXCEPT !.ram = s.ee], ok |-> TRUE, v |-> s.ee[f]]
             B(m, junk) == [s |-> [Faulted(s) EXCEPT !.ram = m], ok |-> FALSE, v |-> junk]
  <2>1. g \in {a} \cup (IF CanFault(s)
                        THEN {B(m, junk) : m \in Mix(s.ram, s.ee), junk \in Domain(f)} ELSE {})
    BY DEF config_get
  <2> HIDE DEF a, B
  <2>2. \/ g = a
        \/ CanFault(s) /\ \E m \in Mix(s.ram, s.ee), junk \in Domain(f) : g = B(m, junk)
    BY <2>1
  <2> QED BY <2>2 DEF a, B
<1>5. ASSUME CanFault(s), \E m \in Mix(s.ram, s.ee), junk \in Domain(f) :
                 g = [s |-> [Faulted(s) EXCEPT !.ram = m], ok |-> FALSE, v |-> junk]
      PROVE  /\ Good(g.s) /\ g.s.ee = s.ee /\ g.s.info = s.info /\ g.v \in Domain(f)
             /\ g.s.faults = s.faults + 1 /\ g.ok = FALSE
             /\ \A h \in Field : g.s.ram[h] = s.ram[h] \/ g.s.ram[h] = s.ee[h]
  BY <1>3, <1>5, Zenon
<1>6. CASE CanFault(s) /\ \E m \in Mix(s.ram, s.ee), junk \in Domain(f) :
               g = [s |-> [Faulted(s) EXCEPT !.ram = m], ok |-> FALSE, v |-> junk]
  <2>1. /\ Good(g.s) /\ g.s.ee = s.ee /\ g.s.info = s.info /\ g.v \in Domain(f)
        /\ g.s.faults = s.faults + 1 /\ g.ok = FALSE
        /\ \A h \in Field : g.s.ram[h] = s.ram[h] \/ g.s.ram[h] = s.ee[h]
    BY <1>5, <1>6
  <2>2. g.ok \in BOOLEAN /\ ~g.ok
    BY <2>1, Zenon
  <2>3. g.s.faults \in Nat
    BY <1>1, <2>1
  <2> QED BY <1>1, <2>1, <2>2, <2>3
<1> QED BY <1>2, <1>4, <1>6

\* What follows from a get for what comes after it.
LEMMA GetAfter ==
    ASSUME NEW s, Good(s), NEW f \in Field, NEW g \in config_get(s, f)
    PROVE  /\ After(s, g.s, {}) /\ (Half(s) => Healed(g.s)) /\ (Half(s) => Half(g.s))
           /\ s.ram = s.ee => g.s.ram = g.s.ee
           /\ g.s.ram = g.s.ee \/ g.s.faults = s.faults + 1
<1>1. /\ Good(g.s) /\ g.s.ee = s.ee
      /\ g.s.faults \in Nat /\ s.faults \in Nat /\ g.ok \in BOOLEAN
      /\ \A h \in Field : g.s.ram[h] = s.ram[h] \/ g.s.ram[h] = s.ee[h]
      /\ g.ok => g.s.ram = s.ee /\ g.s.faults = s.faults
      /\ ~g.ok => g.s.faults = s.faults + 1
  BY GetFacts
<1>2. s.ram = s.ee => g.s.ram = g.s.ee
  BY <1>1, SameRecord DEF Good
<1>3. Kept(s, g.s, {})
  BY <1>1 DEF Kept
<1>4. g.s.faults >= s.faults
  BY <1>1
<1>5. Half(s) => Healed(g.s) /\ Half(g.s)
  BY <1>1, <1>2 DEF Half, Healed
<1>6. Served(s) => Served(g.s)
  BY <1>1, DomainParts DEF Served
<1> QED BY <1>1, <1>2, <1>3, <1>4, <1>5, <1>6 DEF After

\* Operations one after the other.
LEMMA AfterTrans ==
    ASSUME NEW s, NEW t, NEW u, NEW M, NEW N, Good(s), After(s, t, M), After(t, u, N)
    PROVE  After(s, u, M \cup N)
<1>1. s.faults \in Nat /\ t.faults \in Nat /\ u.faults \in Nat
  BY StoreParts DEF After, Good
<1>2. u.faults >= s.faults
  BY <1>1 DEF After
<1>3. Kept(s, u, M \cup N)
  BY DEF After, Kept
<1> QED BY <1>2, <1>3 DEF After

\* Naming more fields promises less.
LEMMA AfterMore ==
    ASSUME NEW s, NEW u, NEW M, NEW N, After(s, u, M), M \subseteq N
    PROVE  After(s, u, N)
BY DEF After, Kept

\* Nothing failed in two operations together: nothing failed in either.
LEMMA NoFaults ==
    ASSUME NEW s, NEW t, NEW u, NEW M, NEW N, Good(s), After(s, t, M), After(t, u, N),
           u.faults = s.faults
    PROVE  t.faults = s.faults /\ u.faults = t.faults
<1>1. s.faults \in Nat /\ t.faults \in Nat /\ u.faults \in Nat
  BY StoreParts DEF After, Good
<1> QED BY <1>1 DEF After

\* lock_info_update: three gets and the assignment of lock->info.
LEMMA InfoFacts ==
    ASSUME NEW s, Good(s), NEW u \in lock_info_update(s)
    PROVE  /\ After(s, u, {}) /\ u.ee = s.ee
           /\ s.ram = s.ee => u.ram = u.ee
           /\ u.ram = u.ee \/ u.faults >= s.faults + 3
           /\ u.info.addr \in Addr
           /\ u.faults = s.faults => /\ u.info.addr = s.ee["addr"]
                                     /\ u.info.lock_type = get_device(s.ee["type"])
<1>1. PICK a \in config_get(s, "addr") : \E b \in config_get(a.s, "sn") :
      \E c \in config_get(b.s, "type") :
      \E id \in get_device_id_by_lock_type(get_device(c.v)) :
          u = [c.s EXCEPT !.info = [dev_id |-> id, addr |-> a.v, sn |-> b.v,
                                    lock_type |-> get_device(c.v)]]
  BY DEF lock_info_update
<1>2. PICK b \in config_get(a.s, "sn") : \E c \in config_get(b.s, "type") :
      \E id \in get_device_id_by_lock_type(get_device(c.v)) :
          u = [c.s EXCEPT !.info = [dev_id |-> id, addr |-> a.v, sn |-> b.v,
                                    lock_type |-> get_device(c.v)]]
  BY <1>1
<1>c. PICK c \in config_get(b.s, "type") :
      \E id \in get_device_id_by_lock_type(get_device(c.v)) :
          u = [c.s EXCEPT !.info = [dev_id |-> id, addr |-> a.v, sn |-> b.v,
                                    lock_type |-> get_device(c.v)]]
  BY <1>2
<1>3. PICK id \in get_device_id_by_lock_type(get_device(c.v)) :
          u = [c.s EXCEPT !.info = [dev_id |-> id, addr |-> a.v, sn |-> b.v,
                                    lock_type |-> get_device(c.v)]]
  BY <1>c
<1> DEFINE i == [dev_id |-> id, addr |-> a.v, sn |-> b.v, lock_type |-> get_device(c.v)]
<1>f. "addr" \in Field /\ "sn" \in Field /\ "type" \in Field
  BY DomainParts
<1>4. /\ Good(a.s) /\ a.s.ee = s.ee /\ a.v \in Addr /\ a.s.faults \in Nat /\ s.faults \in Nat
      /\ a.ok \in BOOLEAN /\ (a.ok => a.v = s.ee["addr"]) /\ (~a.ok => a.s.faults = s.faults + 1)
  BY <1>f, GetFacts, DomainParts
<1>5. /\ Good(b.s) /\ b.s.ee = s.ee /\ b.v \in Sn /\ b.s.faults \in Nat
  BY <1>f, <1>4, GetFacts, DomainParts
<1>6. /\ Good(c.s) /\ c.s.ee = s.ee /\ c.v \in TypeByte /\ c.s.faults \in Nat
      /\ c.ok \in BOOLEAN /\ (c.ok => c.v = s.ee["type"])
      /\ (~c.ok => c.s.faults = b.s.faults + 1)
  BY <1>f, <1>5, GetFacts, DomainParts
<1>7. /\ After(s, a.s, {}) /\ (s.ram = s.ee => a.s.ram = a.s.ee)
      /\ a.s.ram = a.s.ee \/ a.s.faults = s.faults + 1
  BY <1>f, GetAfter
<1>8. /\ After(a.s, b.s, {}) /\ (a.s.ram = a.s.ee => b.s.ram = b.s.ee)
      /\ b.s.ram = b.s.ee \/ b.s.faults = a.s.faults + 1
  BY <1>f, <1>4, GetAfter
<1>9. /\ After(b.s, c.s, {}) /\ (b.s.ram = b.s.ee => c.s.ram = c.s.ee)
      /\ c.s.ram = c.s.ee \/ c.s.faults = b.s.faults + 1
  BY <1>f, <1>5, GetAfter
<1>10. /\ After(s, b.s, {}) /\ After(s, c.s, {})
  <2>1. After(s, b.s, {})
    BY <1>7, <1>8, AfterTrans
  <2> QED BY <2>1, <1>9, AfterTrans
<1>11. get_device(c.v) \in 0..DEVICE_TYPE_MAX /\ id \in {0, 3, 25}
  <2>1. c.v \in 0..6
    BY <1>6, DeviceAssumption
  <2>2. get_device(c.v) \in 0..DEVICE_TYPE_MAX
    BY <2>1 DEF get_device, DEVICE_TYPE_MAX, YK_LOCK
  <2>3. \A t \in 0..DEVICE_TYPE_MAX : get_device_id_by_lock_type(t) \subseteq {0, 3, 25}
    <3> SUFFICES ASSUME NEW t \in 0..DEVICE_TYPE_MAX
                 PROVE  get_device_id_by_lock_type(t) \subseteq {0, 3, 25}
      OBVIOUS
    <3>1. CASE t = AVC_SWITCH
      BY <3>1 DEF get_device_id_by_lock_type
    <3>2. CASE t = DEVICE_TYPE_MAX
      BY <3>2 DEF get_device_id_by_lock_type, DEVICE_TYPE_MAX, AVC_SWITCH
    <3>3. CASE t # AVC_SWITCH /\ t # DEVICE_TYPE_MAX
      BY <3>3 DEF get_device_id_by_lock_type
    <3> QED BY <3>1, <3>2, <3>3
  <2> QED BY <2>2, <2>3
<1>12. i \in Infos
  BY <1>4, <1>5, <1>11 DEF Infos
<1>13. /\ i.addr = a.v /\ i.lock_type = get_device(c.v)
  OBVIOUS
<1>14. u = [c.s EXCEPT !.info = i]
  BY <1>3
<1> HIDE DEF i
<1>15. /\ u \in Stores /\ u.ee = c.s.ee /\ u.ram = c.s.ram /\ u.info = i
       /\ u.faults = c.s.faults
  BY <1>6, <1>12, <1>14, StoreParts DEF Good
<1>16. After(s, u, {})
  BY <1>6, <1>10, <1>15 DEF After, Kept, Good, Served
<1>17. u.ram = u.ee \/ u.faults >= s.faults + 3
  BY <1>4, <1>5, <1>6, <1>7, <1>8, <1>9, <1>15
<1>18. s.ram = s.ee => u.ram = u.ee
  BY <1>7, <1>8, <1>9, <1>15
<1>19. u.faults = s.faults => /\ u.info.addr = s.ee["addr"]
                              /\ u.info.lock_type = get_device(s.ee["type"])
  <2> SUFFICES ASSUME u.faults = s.faults
               PROVE  /\ u.info.addr = s.ee["addr"]
                      /\ u.info.lock_type = get_device(s.ee["type"])
    OBVIOUS
  <2>1. a.s.faults = s.faults /\ c.s.faults = b.s.faults
    BY <1>4, <1>5, <1>6, <1>8, <1>9, <1>7, <1>15 DEF After
  <2>2. a.ok /\ c.ok
    BY <1>4, <1>5, <1>6, <2>1
  <2> QED BY <1>4, <1>6, <1>13, <1>15, <2>2
<1> QED BY <1>4, <1>6, <1>13, <1>15, <1>16, <1>17, <1>18, <1>19

\* config_modify: the record is written, or something failed and the field has one
\* of its two values, as have the others that differed.
LEMMA ModifyFacts ==
    ASSUME NEW s, Good(s), NEW f \in Field, NEW v \in Domain(f),
           f = "type" => v # DEVICE_TYPE_MAX, NEW m \in config_modify(s, f, v)
    PROVE  /\ After(s, m.s, {f}) /\ Half(m.s) /\ m.ok \in BOOLEAN
           /\ m.ok => /\ m.s.ram = m.s.ee /\ m.s.ee[f] = v
                      /\ \A g \in Field : g # f => m.s.ee[g] = s.ram[g]
           /\ ~m.ok => m.s.faults > s.faults
           /\ m.s.faults = s.faults => m.s.info.lock_type = get_device(m.s.ee["type"])
<1> DEFINE new == [s.ram EXCEPT ![f] = v]
           Ok(u) == [s |-> u, ok |-> TRUE]
           w == [s EXCEPT !.ee = new, !.ram = new]
           Bad(r) == [s |-> [Faulted(s) EXCEPT !.ee = r], ok |-> FALSE]
<1>1. m \in {Ok(u) : u \in lock_info_update(w)} \cup
            (IF CanFault(s) THEN {Bad(r) : r \in Mix(s.ee, new)} ELSE {})
  BY DEF config_modify, Copy
<1>2. /\ s \in Stores /\ GoodRecord(s.ee) /\ GoodRecord(s.ram) /\ s.faults \in Nat
      /\ s.faults <= MaxFaults /\ MaxFaults \in Nat
  BY StoreParts, DeviceAssumption DEF Good
<1>3. /\ GoodRecord(new) /\ new[f] = v /\ \A g \in Field : g # f => new[g] = s.ram[g]
  BY <1>2, ChangeGood
<1>n. new \in Records
  BY <1>3 DEF GoodRecord
<1> HIDE DEF new
<1>4. /\ w \in Stores /\ w.ee = new /\ w.ram = new /\ w.faults = s.faults
  BY <1>2, <1>n DEF Stores
<1> HIDE DEF w
<1>5. \/ \E u \in lock_info_update(w) : m = Ok(u)
      \/ CanFault(s) /\ \E r \in Mix(s.ee, new) : m = Bad(r)
  <2> HIDE DEF Ok, Bad
  <2> QED BY <1>1
<1>6. ASSUME NEW u \in lock_info_update(w), m = Ok(u)
      PROVE  /\ After(s, m.s, {f}) /\ Half(m.s) /\ m.ok = TRUE
             /\ m.s.ram = m.s.ee /\ m.s.ee[f] = v
             /\ \A g \in Field : g # f => m.s.ee[g] = s.ram[g]
             /\ m.s.faults = s.faults => m.s.info.lock_type = get_device(m.s.ee["type"])
  <2>1. m.ok = TRUE /\ m.s = u
    BY <1>6
  <2>2. Good(w)
    BY <1>2, <1>3, <1>4 DEF Good
  <2>3. /\ After(w, u, {}) /\ u.ee = new /\ u.ram = new
        /\ u.faults = w.faults => u.info.lock_type = get_device(w.ee["type"])
    BY <1>4, <2>2, InfoFacts
  <2>a. Served(s) => Served(u)
    BY <1>3, <2>3, DomainParts DEF Served
  <2>4. After(s, u, {f})
    BY <1>2, <1>3, <1>4, <2>3, <2>a DEF After, Kept
  <2> QED BY <1>3, <1>4, <2>1, <2>3, <2>4 DEF Half
<1>7. ASSUME CanFault(s), NEW r \in Mix(s.ee, new), m = Bad(r)
      PROVE  After(s, m.s, {f}) /\ Half(m.s) /\ m.ok = FALSE /\ m.s.faults > s.faults
  <2>1. m.ok = FALSE /\ m.s = [Faulted(s) EXCEPT !.ee = r]
    BY <1>7
  <2>2. GoodRecord(r) /\ \A g \in Field : r[g] = s.ee[g] \/ r[g] = new[g]
    BY <1>2, <1>3, MixGood
  <2>3. /\ Faulted(s) \in Stores /\ Faulted(s).ram = s.ram
        /\ Faulted(s).faults = s.faults + 1 /\ r \in Records
    BY <1>2, <2>2, FaultedParts DEF GoodRecord
  <2>4. /\ m.s \in Stores /\ m.s.ee = r /\ m.s.ram = s.ram /\ m.s.faults = s.faults + 1
    BY <2>1, <2>3, StoreParts
  <2>5. s.faults + 1 <= MaxFaults
    BY <1>2, <1>7 DEF CanFault
  <2>6. Good(m.s)
    BY <1>2, <2>2, <2>4, <2>5 DEF Good
  <2>7. Kept(s, m.s, {f})
    BY <1>3, <2>2, <2>4 DEF Kept
  <2>8. m.s.faults >= s.faults /\ m.s.faults >= 1 /\ m.s.faults > s.faults
    BY <1>2, <2>4
  <2>9. Served(s) => Served(m.s)
    BY <1>3, <2>2, <2>4, DomainParts DEF Served
  <2> QED BY <2>1, <2>6, <2>7, <2>8, <2>9 DEF After, Half
<1>8. CASE \E u \in lock_info_update(w) : m = Ok(u)
  BY <1>6, <1>8
<1>9. CASE CanFault(s) /\ \E r \in Mix(s.ee, new) : m = Bad(r)
  <2>1. After(s, m.s, {f}) /\ Half(m.s) /\ m.ok = FALSE /\ m.s.faults > s.faults
    BY <1>7, <1>9
  <2>2. m.s.faults # s.faults
    BY <1>2, <2>1
  <2> QED BY <2>1, <2>2
<1> QED BY <1>5, <1>8, <1>9
-----------------------------------------------------------------------------
(***************************************************************************)
(* The relay.                                                               *)
(***************************************************************************)
\* avc_relay_state_save: it reports success only if the EEPROM has the state.
LEMMA SaveFacts ==
    ASSUME NEW s, Good(s), Half(s), NEW state \in {OPEN, CLOSE},
           NEW w \in avc_relay_state_save(s, state)
    PROVE  /\ After(s, w.s, {"relay"}) /\ Half(w.s) /\ w.ok \in BOOLEAN
           /\ w.ok => w.s.ee["relay"] = state
           /\ ~w.ok => w.s.faults > s.faults
<1> DEFINE Fail(x) == [s |-> x, ok |-> FALSE]
           Done(x) == [s |-> x, ok |-> TRUE]
           Retry(x, k) == [s |-> [x EXCEPT !.faults = @ + k], ok |-> k < SaveRetries]
           Tries(x) == {i \in 0..SaveRetries : x.faults + i <= MaxFaults}
<1>1. PICK g \in config_get(s, "relay") :
         w \in IF ~g.ok THEN {Fail(g.s)}
               ELSE IF g.v = state THEN {Done(g.s)}
               ELSE UNION {IF ~m.ok THEN {Fail(m.s)} ELSE {Retry(m.s, k) : k \in Tries(m.s)}
                           : m \in config_modify(g.s, "relay", state)}
  BY DEF avc_relay_state_save
<1>f. "relay" \in Field /\ state \in Domain("relay") /\ "relay" # "type"
  BY DomainParts DEF OPEN, CLOSE
<1>2. /\ Good(g.s) /\ g.ok \in BOOLEAN /\ g.s.ee = s.ee /\ g.s.faults \in Nat
      /\ s.faults \in Nat
      /\ g.ok => g.v = s.ee["relay"]
      /\ ~g.ok => g.s.faults = s.faults + 1
  BY <1>f, GetFacts
<1>3. After(s, g.s, {}) /\ Half(g.s)
  BY <1>f, GetAfter
<1>4. After(s, g.s, {"relay"})
  BY <1>3, AfterMore
<1>5. CASE ~g.ok
  <2>1. w = Fail(g.s)
    <3> HIDE DEF Fail, Done, Retry, Tries
    <3> QED BY <1>1, <1>5
  <2>2. w.s = g.s /\ w.ok = FALSE
    BY <2>1
  <2>3. g.s.faults > s.faults
    BY <1>2, <1>5
  <2> QED BY <1>3, <1>4, <2>2, <2>3
<1>6. CASE g.ok /\ g.v = state
  <2>1. w = Done(g.s)
    <3> HIDE DEF Fail, Done, Retry, Tries
    <3> QED BY <1>1, <1>6
  <2>2. w.s = g.s /\ w.ok = TRUE
    BY <2>1
  <2> QED BY <1>2, <1>3, <1>4, <1>6, <2>2
<1>7. CASE g.ok /\ g.v # state
  <2>1. PICK m \in config_modify(g.s, "relay", state) :
           w \in IF ~m.ok THEN {Fail(m.s)} ELSE {Retry(m.s, k) : k \in Tries(m.s)}
    <3> HIDE DEF Fail, Done, Retry, Tries
    <3> QED BY <1>1, <1>7
  <2>2. /\ After(g.s, m.s, {"relay"}) /\ Half(m.s) /\ m.ok \in BOOLEAN
        /\ m.ok => m.s.ram = m.s.ee /\ m.s.ee["relay"] = state
        /\ ~m.ok => m.s.faults > g.s.faults
    <3> DEFINE f == "relay"
    <3>1. f \in Field /\ state \in Domain(f) /\ f # "type"
      BY <1>f
    <3>2. m \in config_modify(g.s, f, state)
      BY <2>1
    <3> HIDE DEF f
    <3>3. /\ After(g.s, m.s, {f}) /\ Half(m.s) /\ m.ok \in BOOLEAN
          /\ m.ok => /\ m.s.ram = m.s.ee /\ m.s.ee[f] = state
                     /\ \A h \in Field : h # f => m.s.ee[h] = g.s.ram[h]
          /\ ~m.ok => m.s.faults > g.s.faults
      BY <1>2, <3>1, <3>2, ModifyFacts
    <3> QED BY <3>3 DEF f
  <2>3. After(s, m.s, {"relay"})
    <3>1. After(s, m.s, {} \cup {"relay"})
      BY <1>3, <2>2, AfterTrans
    <3> QED BY <3>1, AfterMore
  <2>4. /\ m.s.faults \in Nat /\ m.s \in Stores /\ m.s.faults >= g.s.faults
        /\ m.s.faults >= s.faults /\ g.s.faults >= s.faults
    BY <1>3, <2>2, <2>3, StoreParts DEF After, Good
  <2>5. CASE ~m.ok
    <3>1. w = Fail(m.s)
      <4> HIDE DEF Fail, Done, Retry, Tries
      <4> QED BY <2>1, <2>5
    <3>2. w.s = m.s /\ w.ok = FALSE
      BY <3>1
    <3>3. m.s.faults > s.faults
      BY <1>2, <2>2, <2>4, <2>5
    <3> QED BY <2>2, <2>3, <3>2, <3>3
  <2>6. CASE m.ok
    <3>1. PICK k \in Tries(m.s) : w = Retry(m.s, k)
      <4> HIDE DEF Fail, Done, Retry, Tries
      <4> QED BY <2>1, <2>6
    <3>2. k \in Nat /\ m.s.faults + k <= MaxFaults
      BY <3>1 DEF SaveRetries
    <3>3. w.s = [m.s EXCEPT !.faults = m.s.faults + k] /\ w.ok = (k < SaveRetries)
      BY <3>1
    <3>4. m.s.faults + k \in Nat
      BY <2>4, <3>2
    <3>5. /\ w.s \in Stores /\ w.s.ee = m.s.ee /\ w.s.ram = m.s.ram
          /\ w.s.faults = m.s.faults + k
      BY <2>4, <3>3, <3>4, StoreParts
    <3>6. w.s.faults >= s.faults /\ (k >= SaveRetries => w.s.faults > s.faults)
      BY <1>2, <2>4, <3>2, <3>5 DEF SaveRetries
    <3>7. After(s, w.s, {"relay"})
      BY <2>3, <3>2, <3>5, <3>6 DEF After, Good, Kept, Served
    <3>8. w.ok \in BOOLEAN /\ (~w.ok => k >= SaveRetries)
      <4> DEFINE b == k < SaveRetries
      <4>b. b \in BOOLEAN
        OBVIOUS
      <4>1. w.ok \in BOOLEAN /\ (~w.ok => ~b)
        <5> HIDE DEF b
        <5>1. w.ok = b
          BY <3>3 DEF b
        <5> QED BY <4>b, <5>1
      <4>2. ~(k < SaveRetries) => k >= SaveRetries
        BY <3>2 DEF SaveRetries
      <4> QED BY <4>1, <4>2
    <3>9. Half(w.s)
      BY <2>2, <2>6, <3>5 DEF Half
    <3> QED BY <2>2, <2>6, <3>5, <3>6, <3>7, <3>8, <3>9
  <2> QED BY <2>2, <2>5, <2>6
<1> QED BY <1>2, <1>5, <1>6, <1>7

\* AVC_RELAY_CONTROL: the relay moves, unless it is stuck or the other coil is on.
LEMMA PulseFacts ==
    ASSUME NEW s, Good(s), NEW pos \in {OPEN, CLOSE}, NEW state \in {OPEN, CLOSE},
           NEW p \in Pulse(s, pos, state)
    PROVE  /\ After(s, p.s, {}) /\ p.s.ee = s.ee /\ p.s.ram = s.ram
           /\ p.pos \in {OPEN, CLOSE} /\ (Half(s) => Half(p.s))
           /\ ~coil /\ p.s.faults = s.faults => p.pos = state
<1> DEFINE P(x, q) == [s |-> x, pos |-> q]
           driven == Driven(IF state = OPEN THEN "OPEN" ELSE "CLOSE")
<1>d. driven
  BY DEF Driven, test_bl14_pre_init
<1>1. \/ p = P(s, state)
      \/ CanFault(s) /\ p = P(Faulted(s), pos)
      \/ coil /\ state = OPEN /\ p = P(s, CLOSE)
  <2>1. p \in IF ~driven THEN {P(s, pos)}
              ELSE {P(s, state)} \cup (IF CanFault(s) THEN {P(Faulted(s), pos)} ELSE {}) \cup
                   (IF coil /\ state = OPEN THEN {P(s, CLOSE)} ELSE {})
    BY DEF Pulse
  <2> HIDE DEF P, driven
  <2> QED BY <1>d, <2>1
<1>3. /\ s \in Stores /\ GoodRecord(s.ee) /\ GoodRecord(s.ram) /\ s.faults \in Nat
      /\ s.faults <= MaxFaults /\ MaxFaults \in Nat
  BY StoreParts, DeviceAssumption DEF Good
<1>4. After(s, s, {})
  BY <1>3 DEF After, Kept
<1>6. CASE p = P(s, state)
  <2>1. p.s = s /\ p.pos = state
    BY <1>6
  <2> QED BY <1>4, <2>1
<1>7. CASE coil /\ state = OPEN /\ p = P(s, CLOSE)
  <2>1. p.s = s /\ p.pos = CLOSE
    BY <1>7
  <2> QED BY <1>4, <1>7, <2>1
<1>8. CASE CanFault(s) /\ p = P(Faulted(s), pos)
  <2>1. p.s = Faulted(s) /\ p.pos = pos
    BY <1>8
  <2>2. /\ p.s \in Stores /\ p.s.ee = s.ee /\ p.s.ram = s.ram
        /\ p.s.faults = s.faults + 1
    BY <1>3, <2>1, FaultedParts
  <2>3. /\ s.faults + 1 <= MaxFaults /\ p.s.faults >= s.faults /\ p.s.faults # s.faults
        /\ p.s.faults >= 1
    BY <1>3, <1>8, <2>2 DEF CanFault
  <2>4. After(s, p.s, {})
    BY <1>3, <2>2, <2>3 DEF After, Good, Kept, Served
  <2> QED BY <2>1, <2>2, <2>3, <2>4 DEF Half
<1> QED BY <1>1, <1>6, <1>7, <1>8

\* Engaging or disengaging: the result is honest, and good if nothing failed.
LEMMA AvcFacts ==
    ASSUME NEW s, Good(s), Half(s), NEW pos \in {OPEN, CLOSE}, NEW state \in {OPEN, CLOSE},
           NEW c \in avc_control(s, pos, state)
    PROVE  /\ After(s, c.s, {"relay"}) /\ Half(c.s) /\ c.pos \in {OPEN, CLOSE}
           /\ c.avc \in AvcState /\ (c.avc.is_set <=> c.pos = state)
           /\ c.avc.is_save => c.s.ee["relay"] = state
           /\ ~coil /\ c.s.faults = s.faults =>
                 c.pos = state /\ c.avc.is_set /\ c.avc.is_save
           /\ c.s.faults = s.faults => c.s.ee["relay"] = state
<1> DEFINE Avc(a, b, d) == [is_action |-> a, is_set |-> b, is_save |-> d]
           C(x, q, r) == [s |-> x, pos |-> q, avc |-> r]
<1>a. \A a, b, d \in BOOLEAN : /\ Avc(a, b, d) \in AvcState
                               /\ Avc(a, b, d).is_set = b /\ Avc(a, b, d).is_save = d
  BY DEF AvcState
<1>1. CASE pos = state
  <2>1. PICK w \in avc_relay_state_save(s, state) : c = C(w.s, pos, Avc(FALSE, TRUE, w.ok))
    BY <1>1 DEF avc_control
  <2>2. /\ After(s, w.s, {"relay"}) /\ Half(w.s) /\ w.ok \in BOOLEAN
        /\ w.ok => w.s.ee["relay"] = state
        /\ ~w.ok => w.s.faults > s.faults
    BY SaveFacts
  <2>3. c.s = w.s /\ c.pos = pos /\ c.avc = Avc(FALSE, TRUE, w.ok)
    BY <2>1
  <2>4. c.avc \in AvcState /\ c.avc.is_set = TRUE /\ c.avc.is_save = w.ok
    <3> HIDE DEF Avc
    <3> QED BY <1>a, <2>2, <2>3
  <2>5. w.s.faults = s.faults => w.ok
    <3>1. w.s.faults \in Nat /\ s.faults \in Nat
      BY <2>2, StoreParts DEF After, Good
    <3> QED BY <2>2, <3>1
  <2> QED BY <1>1, <2>2, <2>3, <2>4, <2>5
<1>2. CASE pos # state
  <2>1. PICK p \in Pulse(s, pos, state) : \E w \in avc_relay_state_save(p.s, state) :
           c = C(w.s, p.pos, Avc(p.pos = state, p.pos = state, w.ok))
    BY <1>2 DEF avc_control
  <2>2. PICK w \in avc_relay_state_save(p.s, state) :
           c = C(w.s, p.pos, Avc(p.pos = state, p.pos = state, w.ok))
    BY <2>1
  <2>3. /\ After(s, p.s, {}) /\ p.pos \in {OPEN, CLOSE} /\ Half(p.s)
        /\ ~coil /\ p.s.faults = s.faults => p.pos = state
    BY PulseFacts
  <2>g. Good(p.s)
    BY <2>3 DEF After
  <2>4. /\ After(p.s, w.s, {"relay"}) /\ Half(w.s) /\ w.ok \in BOOLEAN
        /\ w.ok => w.s.ee["relay"] = state
        /\ ~w.ok => w.s.faults > p.s.faults
    BY <2>3, <2>g, SaveFacts
  <2>5. After(s, w.s, {"relay"})
    <3>1. After(s, w.s, {} \cup {"relay"})
      BY <2>3, <2>4, AfterTrans
    <3> QED BY <3>1, AfterMore
  <2>6. c.s = w.s /\ c.pos = p.pos /\ c.avc = Avc(p.pos = state, p.pos = state, w.ok)
    BY <2>2
  <2>7. /\ c.avc \in AvcState /\ (c.avc.is_set <=> p.pos = state) /\ c.avc.is_save = w.ok
    <3> DEFINE b == (p.pos = state)
    <3>1. b \in BOOLEAN /\ c.avc = Avc(b, b, w.ok)
      BY <2>6
    <3>2. /\ c.avc \in AvcState /\ c.avc.is_set = b /\ c.avc.is_save = w.ok
      <4> HIDE DEF Avc, b
      <4> QED BY <1>a, <2>4, <3>1
    <3> QED BY <3>2
  <2>8. w.s.faults = s.faults => w.ok /\ p.s.faults = s.faults
    <3>1. w.s.faults \in Nat /\ s.faults \in Nat /\ p.s.faults \in Nat
      BY <2>4, <2>g, StoreParts DEF After, Good
    <3>2. p.s.faults >= s.faults /\ w.s.faults >= p.s.faults
      BY <2>3, <2>4 DEF After
    <3> QED BY <2>4, <3>1, <3>2
  <2> QED BY <2>3, <2>4, <2>5, <2>6, <2>7, <2>8
<1> QED BY <1>1, <1>2
-----------------------------------------------------------------------------
(***************************************************************************)
(* Booting and switching off.                                               *)
(***************************************************************************)
\* A function code belongs to the tables that list it.
LEMMA Codes ==
    ASSUME set \in {{}, yk_codes, avc_codes, cold_codes}
    PROVE  /\ "0x02" \in set => set = yk_codes
           /\ {"0x07", "0x37", "0x33"} \cap set # {} => set \in {yk_codes, avc_codes}
           /\ {"0x07", "0x37"} \subseteq yk_codes /\ {"0x07", "0x37"} \subseteq avc_codes
           /\ "0x35" \in set => set = avc_codes
           /\ "0x23" \in set => set = cold_codes
           /\ yk_codes # {} /\ avc_codes # {} /\ cold_codes # {}
           /\ yk_codes # avc_codes /\ yk_codes # cold_codes /\ avc_codes # cold_codes
<1>1. "0x02" \in yk_codes /\ "0x02" \notin avc_codes /\ "0x02" \notin cold_codes
  BY DEF yk_codes, avc_codes, cold_codes
<1>2. "0x35" \notin yk_codes /\ "0x35" \in avc_codes /\ "0x35" \notin cold_codes
  BY DEF yk_codes, avc_codes, cold_codes
<1>3. "0x23" \notin yk_codes /\ "0x23" \notin avc_codes /\ "0x23" \in cold_codes
  BY DEF yk_codes, avc_codes, cold_codes
<1>4. /\ {"0x07", "0x37"} \subseteq yk_codes /\ {"0x07", "0x37"} \subseteq avc_codes
      /\ {"0x07", "0x37", "0x33"} \cap cold_codes = {}
  BY DEF yk_codes, avc_codes, cold_codes
<1> QED BY <1>1, <1>2, <1>3, <1>4

\* config_init puts defaults in place of what it cannot use.
LEMMA InitFacts ==
    ASSUME NEW s, Resting(s), NEW u \in config_init(s)
    PROVE  /\ Good(u) /\ u.ee = s.ee /\ u.faults \in Nat /\ u.faults \in {0, 1}
           /\ u.ram["type"] # DEVICE_TYPE_MAX
<1>1. /\ s \in Stores /\ GoodRecord(s.ee) /\ s.faults = 0 /\ MaxFaults \in Nat
      /\ s.ee \in Records
  BY DeviceAssumption DEF Resting, GoodRecord
<1>2. \/ u = [s EXCEPT !.ram = Defaults(s.ee)]
      \/ CanFault(s) /\ \E r \in Arbitrary : u = [Faulted(s) EXCEPT !.ram = Defaults(r)]
  <2> DEFINE v == [s EXCEPT !.ram = Defaults(s.ee)]
             W(r) == [Faulted(s) EXCEPT !.ram = Defaults(r)]
  <2>1. u \in {v} \cup (IF CanFault(s) THEN {W(r) : r \in Arbitrary} ELSE {})
    BY DEF config_init
  <2>2. \/ u = v
        \/ CanFault(s) /\ \E r \in Arbitrary : u = W(r)
    <3> HIDE DEF v, W
    <3> QED BY <2>1
  <2> QED BY <2>2
<1>3. ASSUME NEW r, r["type"] \in TypeByte, r["addr"] \in Addr, r["sn"] \in Sn
      PROVE  GoodRecord(Defaults(r)) /\ Defaults(r)["type"] # DEVICE_TYPE_MAX
  <2>1. /\ Defaults(r)["addr"] = (IF r["addr"] = 0 THEN 1 ELSE r["addr"])
        /\ Defaults(r)["sn"] = (IF r["sn"] = 0 THEN 1 ELSE r["sn"])
        /\ Defaults(r)["type"] = (IF r["type"] < DEVICE_TYPE_MAX THEN r["type"] ELSE YK_LOCK)
        /\ Defaults(r)["exec"] = 0 /\ Defaults(r)["cmd"] = 0 /\ Defaults(r)["relay"] = 0
    BY DomainParts DEF Defaults
  <2>2. Defaults(r) = [f \in Field |-> Defaults(r)[f]]
    BY DEF Defaults
  <2>3. r["type"] \in 0..6 /\ 0 \in TypeByte
    BY <1>3, DeviceAssumption
  <2>4. /\ Defaults(r)["type"] \in TypeByte /\ Defaults(r)["type"] # DEVICE_TYPE_MAX
    BY <1>3, <2>1, <2>3 DEF DEVICE_TYPE_MAX, YK_LOCK
  <2>5. Defaults(r)["addr"] \in Addr /\ Defaults(r)["sn"] \in Sn
    BY <1>3, <2>1, DeviceAssumption
  <2>6. \A f \in Field : Defaults(r)[f] \in Domain(f)
    BY <2>1, <2>4, <2>5, DomainParts
  <2>7. Defaults(r) \in Records
    BY <2>2, <2>6, DomainAny DEF Records
  <2> QED BY <2>4, <2>6, <2>7 DEF GoodRecord
<1>4. GoodRecord(Defaults(s.ee)) /\ Defaults(s.ee)["type"] # DEVICE_TYPE_MAX
  <2>1. s.ee["type"] \in TypeByte /\ s.ee["addr"] \in Addr /\ s.ee["sn"] \in Sn
    BY <1>1, DomainParts DEF GoodRecord
  <2> QED BY <1>3, <2>1
<1>5. \A r \in Arbitrary : GoodRecord(Defaults(r)) /\ Defaults(r)["type"] # DEVICE_TYPE_MAX
  BY <1>3 DEF Arbitrary
<1>6. CASE u = [s EXCEPT !.ram = Defaults(s.ee)]
  <2>1. u \in Stores /\ u.ee = s.ee /\ u.ram = Defaults(s.ee) /\ u.faults = s.faults
    BY <1>1, <1>4, <1>6, StoreParts DEF GoodRecord
  <2> QED BY <1>1, <1>4, <2>1 DEF Good
<1>7. ASSUME CanFault(s), NEW r \in Arbitrary, u = [Faulted(s) EXCEPT !.ram = Defaults(r)]
      PROVE  Good(u) /\ u.ee = s.ee /\ u.faults = 1 /\ u.ram["type"] # DEVICE_TYPE_MAX
  <2>1. /\ Faulted(s) \in Stores /\ Faulted(s).ee = s.ee /\ Faulted(s).faults = 1
        /\ GoodRecord(Defaults(r)) /\ Defaults(r)["type"] # DEVICE_TYPE_MAX
    BY <1>1, <1>5, FaultedParts
  <2>2. u \in Stores /\ u.ee = s.ee /\ u.ram = Defaults(r) /\ u.faults = 1
    BY <1>7, <2>1, StoreParts DEF GoodRecord
  <2>3. 1 <= MaxFaults
    BY <1>1, <1>7 DEF CanFault
  <2> QED BY <1>1, <2>1, <2>2, <2>3 DEF Good
<1> QED BY <1>2, <1>6, <1>7

\* Booting.
LEMMA BootFacts ==
    ASSUME TypeInv, Boot
    PROVE  /\ run = "off" /\ run' = "up" /\ Good(st') /\ Healed(st') /\ st'.ee = st.ee
           /\ set' \in {{}, yk_codes, avc_codes, cold_codes}
           /\ filter' \in [addr : Addr \cup {0}, any : BOOLEAN]
           /\ set' = cold_codes => filter'.any
           /\ st'.faults = 0 => /\ filter'.addr = st'.ee["addr"]
                                /\ set' = protocol_init(get_device(st'.ee["type"]))
                                /\ set' = {} <=> st'.ee["type"] = DEVICE_TYPE_MAX
           /\ st'.ee["type"] # DEVICE_TYPE_MAX => Served(st')
           /\ UNCHANGED <<relay, coil, avc_state, last>>
<1>1. PICK s \in config_init(st) : st' \in lock_info_update(s)
  BY DEF Boot
<1>2. /\ run = "off" /\ run' = "up" /\ set' = protocol_init(st'.info.lock_type)
      /\ filter' = [addr |-> st'.info.addr,
                    any |-> st'.info.lock_type \in {YK_COLD_LOCK, AVC_COLD_LOCK}]
      /\ UNCHANGED <<relay, coil, avc_state, last>>
  BY DEF Boot
<1>3. Resting(st)
  BY <1>2 DEF TypeInv, StoreOK
<1>4. Good(s) /\ s.ee = st.ee /\ s.faults \in Nat /\ s.ram["type"] # DEVICE_TYPE_MAX
  BY <1>1, <1>3, InitFacts
<1> DEFINE u == st'
<1>5. /\ After(s, u, {}) /\ u.ee = s.ee /\ (u.ram = u.ee \/ u.faults >= s.faults + 3)
      /\ u.info.addr \in Addr
      /\ u.faults = s.faults => /\ u.info.addr = s.ee["addr"]
                                /\ u.info.lock_type = get_device(s.ee["type"])
  BY <1>1, <1>4, InfoFacts
<1>6. Good(u) /\ u.faults \in Nat /\ u.faults >= s.faults /\ u.info.lock_type \in 0..5
  BY <1>5, StoreParts DEF After, Good, Infos, DEVICE_TYPE_MAX
<1>7. Healed(u)
  BY <1>4, <1>5, <1>6 DEF Healed
<1> DEFINE t == u.info.lock_type
<1>8. /\ t \in 0..5
      /\ protocol_init(t) \in {{}, yk_codes, avc_codes, cold_codes}
      /\ protocol_init(t) = cold_codes => t \in {YK_COLD_LOCK, AVC_COLD_LOCK}
      /\ protocol_init(t) = {} <=> t = DEVICE_TYPE_MAX
  <2>1. t \in 0..5
    BY <1>6
  <2> HIDE DEF t
  <2>2. t \in {YK_LOCK, AVC} => protocol_init(t) = yk_codes
    BY DEF protocol_init, YK_LOCK, AVC, YK_COLD_LOCK, AVC_COLD_LOCK, AVC_SWITCH
  <2>3. t \in {YK_COLD_LOCK, AVC_COLD_LOCK} => protocol_init(t) = cold_codes
    BY DEF protocol_init, YK_LOCK, AVC, YK_COLD_LOCK, AVC_COLD_LOCK, AVC_SWITCH
  <2>4. t = AVC_SWITCH => protocol_init(t) = avc_codes
    BY DEF protocol_init, YK_LOCK, AVC, YK_COLD_LOCK, AVC_COLD_LOCK, AVC_SWITCH
  <2>5. t = DEVICE_TYPE_MAX => protocol_init(t) = {}
    BY DEF protocol_init, YK_LOCK, AVC, YK_COLD_LOCK, AVC_COLD_LOCK, AVC_SWITCH,
           DEVICE_TYPE_MAX
  <2>6. \/ t \in {YK_LOCK, AVC} \/ t \in {YK_COLD_LOCK, AVC_COLD_LOCK}
        \/ t = AVC_SWITCH \/ t = DEVICE_TYPE_MAX
    BY <2>1 DEF YK_LOCK, AVC, YK_COLD_LOCK, AVC_COLD_LOCK, AVC_SWITCH, DEVICE_TYPE_MAX
  <2>7. /\ yk_codes # {} /\ avc_codes # {} /\ cold_codes # {}
        /\ yk_codes # cold_codes /\ avc_codes # cold_codes
    BY Codes DEF TypeInv
  <2> QED BY <2>1, <2>2, <2>3, <2>4, <2>5, <2>6, <2>7
<1>9. /\ filter' \in [addr : Addr \cup {0}, any : BOOLEAN] /\ filter'.addr = u.info.addr
      /\ filter'.any <=> t \in {YK_COLD_LOCK, AVC_COLD_LOCK}
  <2> DEFINE b == t \in {YK_COLD_LOCK, AVC_COLD_LOCK}
             a == u.info.addr
  <2>1. filter' = [addr |-> a, any |-> b] /\ a \in Addr /\ b \in BOOLEAN
    BY <1>2, <1>5
  <2>2. /\ filter' \in [addr : Addr \cup {0}, any : BOOLEAN] /\ filter'.addr = a
        /\ filter'.any = b
    <3> HIDE DEF a, b
    <3> QED BY <2>1
  <2> QED BY <2>2
<1>10. u.ee["type"] # DEVICE_TYPE_MAX => Served(u)
  BY <1>4, <1>5 DEF After, Served
<1>11. ASSUME u.faults = 0
       PROVE  /\ filter'.addr = u.ee["addr"]
              /\ set' = protocol_init(get_device(u.ee["type"]))
              /\ set' = {} <=> u.ee["type"] = DEVICE_TYPE_MAX
  <2>1. u.faults = s.faults
    BY <1>4, <1>6, <1>11
  <2>2. filter'.addr = u.ee["addr"] /\ t = get_device(u.ee["type"])
    BY <1>5, <1>9, <2>1
  <2>3. set' = protocol_init(t)
    BY <1>2
  <2>4. u.ee["type"] \in 0..6
    BY <1>6, DomainParts, DeviceAssumption DEF Good, GoodRecord
  <2>5. get_device(u.ee["type"]) = DEVICE_TYPE_MAX <=> u.ee["type"] = DEVICE_TYPE_MAX
    BY <2>4 DEF get_device, DEVICE_TYPE_MAX, YK_LOCK
  <2> HIDE DEF t
  <2> QED BY <1>8, <2>2, <2>3, <2>5
<1> QED BY <1>2, <1>4, <1>5, <1>6, <1>7, <1>8, <1>9, <1>10, <1>11

\* What a reset leaves.
LEMMA ClearedFacts ==
    ASSUME NEW s, s \in Stores, GoodRecord(s.ee)
    PROVE  Resting(Cleared(s)) /\ Cleared(s).ee = s.ee
<1>1. Blank \in Records /\ NoInfo \in Infos
  BY DEF Blank, Records, AnyValue, NoInfo, Infos, DEVICE_TYPE_MAX
<1>2. s.ee \in Records
  BY StoreParts
<1>3. /\ Cleared(s) \in Stores /\ Cleared(s).ee = s.ee /\ Cleared(s).ram = Blank
      /\ Cleared(s).info = NoInfo /\ Cleared(s).faults = 0
  BY <1>1, <1>2 DEF Cleared, Stores
<1> QED BY <1>3 DEF Resting

\* The blank copy of a device that is off has a type that is served.
LEMMA RestingServed ==
    ASSUME NEW s, Resting(s)
    PROVE  s.ram["type"] # DEVICE_TYPE_MAX
BY DomainParts DEF Resting, Blank, DEVICE_TYPE_MAX
-----------------------------------------------------------------------------
(***************************************************************************)
(* The handlers: a sequence of operations that starts in s has come to t.   *)
(***************************************************************************)
\* A get comes next: it heals what one failed write has left.
LEMMA ThenGet ==
    ASSUME NEW s, NEW t, NEW N, Good(s), After(s, t, N), Half(t),
           NEW f \in Field, NEW g \in config_get(t, f)
    PROVE  /\ After(s, g.s, N) /\ Healed(g.s) /\ Half(g.s) /\ g.s.ee = t.ee
           /\ g.v \in Domain(f) /\ g.ok \in BOOLEAN /\ (g.ok => g.v = t.ee[f])
           /\ t.ram = t.ee => g.s.ram = g.s.ee
           /\ g.s.faults = s.faults => t.faults = s.faults /\ g.ok
           /\ g.s.faults = 0 => t.faults = 0 /\ g.ok
<1>1. Good(t)
  BY DEF After
<1>2. /\ g.s.ee = t.ee /\ g.v \in Domain(f) /\ g.ok \in BOOLEAN
      /\ g.ok => g.v = t.ee[f]
      /\ ~g.ok => g.s.faults = t.faults + 1
  BY <1>1, GetFacts
<1>3. /\ After(t, g.s, {}) /\ Healed(g.s) /\ Half(g.s)
      /\ t.ram = t.ee => g.s.ram = g.s.ee
  BY <1>1, GetAfter
<1>4. After(s, g.s, N)
  <2>1. After(s, g.s, N \cup {})
    BY <1>3, AfterTrans
  <2> QED BY <2>1, AfterMore
<1>5. g.s.faults = s.faults => t.faults = s.faults /\ g.ok
  <2>1. t.faults \in Nat
    BY <1>1, StoreParts DEF Good
  <2>2. g.s.faults = s.faults => t.faults = s.faults /\ g.s.faults = t.faults
    BY <1>3, NoFaults
  <2> QED BY <1>2, <2>1, <2>2
<1>6. g.s.faults = 0 => t.faults = 0 /\ g.ok
  <2>1. t.faults \in Nat /\ g.s.faults \in Nat /\ g.s.faults >= t.faults
    BY <1>1, <1>3, StoreParts DEF After, Good
  <2> QED BY <1>2, <2>1
<1> QED BY <1>2, <1>3, <1>4, <1>5, <1>6

\* A modify of a field in N comes next.
LEMMA ThenModify ==
    ASSUME NEW s, NEW t, NEW N, Good(s), After(s, t, N), NEW f \in Field, f \in N,
           NEW v \in Domain(f), f = "type" => v # DEVICE_TYPE_MAX,
           NEW m \in config_modify(t, f, v)
    PROVE  /\ After(s, m.s, N) /\ Half(m.s) /\ m.ok \in BOOLEAN
           /\ m.ok => /\ m.s.ram = m.s.ee /\ m.s.ee[f] = v
                      /\ \A g \in Field : g # f => m.s.ee[g] = t.ram[g]
           /\ ~m.ok => m.s.faults > 0
           /\ m.s.faults = 0 => /\ t.faults = 0 /\ m.ok
                                /\ m.s.info.lock_type = get_device(m.s.ee["type"])
<1>1. Good(t) /\ t.faults \in Nat
  BY StoreParts DEF After, Good
<1>2. /\ After(t, m.s, {f}) /\ Half(m.s) /\ m.ok \in BOOLEAN
      /\ m.ok => /\ m.s.ram = m.s.ee /\ m.s.ee[f] = v
                 /\ \A g \in Field : g # f => m.s.ee[g] = t.ram[g]
      /\ ~m.ok => m.s.faults > t.faults
      /\ m.s.faults = t.faults => m.s.info.lock_type = get_device(m.s.ee["type"])
  BY <1>1, ModifyFacts
<1>3. After(s, m.s, N)
  <2>1. After(s, m.s, N \cup {f})
    BY <1>2, AfterTrans
  <2> QED BY <2>1, AfterMore
<1>4. m.s.faults \in Nat /\ m.s.faults >= t.faults
  BY <1>2, StoreParts DEF After, Good
<1> QED BY <1>1, <1>2, <1>3, <1>4

\* A reply that shows what the EEPROM has,
LEMMA ShowsOne ==
    ASSUME NEW f, NEW v, NEW r, f # "type", v = r[f]
    PROVE  Shows({<<f, v>>}, r)
BY DEF Shows, Value

LEMMA ShowsTwo ==
    ASSUME NEW f, NEW v, NEW g, NEW w, NEW r, v = Value(f, r), w = Value(g, r)
    PROVE  Shows({<<f, v>>, <<g, w>>}, r)
BY DEF Shows

\* of a field other than the type as it stands.
LEMMA PlainValue == \A f, r : f # "type" => Value(f, r) = r[f]
BY DEF Value

\* The reply to a command in which some transfers may have failed.
LEMMA ReplyTrue ==
    ASSUME NEW sent, NEW acked, last'.sent = sent, last'.acked = acked,
           last'.failed = st'.faults - st.faults, Good(st), Good(st'),
           True(acked, st'.ee), st'.faults = st.faults => Shows(sent, st'.ee)
    PROVE  RepliesTrue'
<1>1. st.faults \in Nat /\ st'.faults \in Nat
  BY StoreParts DEF Good
<1>2. last'.failed = 0 => st'.faults = st.faults
  BY <1>1
<1> QED BY <1>2 DEF RepliesTrue, Shown, True, Shows, Value

\* The parts of what the master is told.
LEMMA ReplyParts ==
    ASSUME NEW func, NEW sent, NEW acked, last' = Reply(func, sent, acked)
    PROVE  /\ last'.func = func /\ last'.sent = sent /\ last'.acked = acked
           /\ last'.failed = st'.faults - st.faults
BY DEF Reply

LEMMA NoReplyParts ==
    ASSUME NEW func, last' = NoReply(func)
    PROVE  last'.func = func /\ RepliesTrue'
BY DEF NoReply, RepliesTrue

\* Nothing is acknowledged.
LEMMA NothingAcked == \A r : True({}, r)
BY DEF True

\* The fields that the codes name.
LEMMA NamedValues ==
    /\ Named("0x03") = {"addr"} /\ Named("0x23") = {"addr"}
    /\ Named("0x07") = {"sn", "type"} /\ Named("0x37") = {"sn", "type"}
    /\ Named("0x32") = {"relay"} /\ Named("0x35") = {"relay"}
    /\ Named("0x33") = {"type", "addr"} /\ Named("0x2A") = {"exec", "cmd"}
    /\ \A func : func \notin {"0x03", "0x23", "0x07", "0x37", "0x32", "0x35", "0x33", "0x2A"}
                    => Named(func) = {}
BY DEF Named

\* Nothing has happened yet.
LEMMA AfterSelf ==
    ASSUME NEW s, Good(s), NEW N
    PROVE  After(s, s, N)
<1>1. s.faults \in Nat
  BY StoreParts DEF Good
<1> QED BY <1>1 DEF After, Kept

\* What the handlers of all codes have in common.
Ready == TypeInv /\ run = "up" /\ Half(st)

Reached(func) ==
    st.ram = st.ee /\ st'.faults = 0 =>
        \/ st'.ee["addr"] = st.ee["addr"] \/ func = "0x23"
        \/ filter.any \/ st'.ee["addr"] = filter.addr

Handled(func) ==
    /\ run = "up" /\ func \in set /\ UNCHANGED <<run, set, filter>>
    /\ After(st, st', Named(func)) /\ Half(st') /\ (Healed(st) => Healed(st'))
    /\ relay' \in {OPEN, CLOSE} /\ coil' \in BOOLEAN /\ avc_state' \in AvcState
    /\ coil => coil'
    /\ coil' => coil \/ func = "0x02"
    /\ last'.func = func /\ RepliesTrue'
    /\ CommandHonest' /\ (~coil => CommandObeyed')
    /\ Reached(func)

Reset ==
    /\ run # "off" /\ Resting(st') /\ PowerDown /\ UNCHANGED relay
    /\ last' \in {NoCommand, NoReply("0x03")}
    /\ st.ram = st.ee =>
         \A f \in Field : f \notin Named(last'.func) => st'.ee[f] = st.ee[f]
    /\ Served(st) => Served(st')

\* The parser hands the frame to a handler of the table.
LEMMA AcceptedFacts ==
    ASSUME NEW addr, NEW func, Accepted(addr, func)
    PROVE  run = "up" /\ func \in set /\ (filter.any \/ addr = filter.addr)
BY DEF Accepted, PassesFilter, protocol_parser

\* A handler that moves no relay, or only K0, and is not 0x35.
LEMMA Answered ==
    ASSUME Ready, NEW func, func \in set, func # "0x35",
           UNCHANGED <<run, set, filter, avc_state>>,
           relay' \in {OPEN, CLOSE}, coil' \in BOOLEAN, coil => coil',
           coil' => coil \/ func = "0x02",
           last'.func = func, RepliesTrue',
           After(st, st', Named(func)), Half(st'), Healed(st) => Healed(st'),
           Reached(func)
    PROVE  Handled(func)
<1>1. CommandHonest' /\ CommandObeyed'
  BY DEF CommandHonest, CommandObeyed
<1>2. run = "up" /\ avc_state' \in AvcState
  BY DEF Ready, TypeInv
<1> QED BY <1>1, <1>2 DEF Handled

\* A code that does not name the address does not change it.
LEMMA OwnAddress ==
    ASSUME NEW func, After(st, st', Named(func)), "addr" \notin Named(func)
    PROVE  Reached(func)
<1>1. "addr" \in Field
  BY DomainParts
<1> QED BY <1>1 DEF Reached, After, Kept

\* What a handler starts from.
LEMMA ReadyFacts ==
    ASSUME Ready
    PROVE  /\ Good(st) /\ Half(st) /\ run = "up" /\ st.faults \in Nat
           /\ relay \in {OPEN, CLOSE} /\ coil \in BOOLEAN /\ \A N : After(st, st, N)
<1>1. Good(st) /\ Half(st) /\ run = "up" /\ relay \in {OPEN, CLOSE} /\ coil \in BOOLEAN
  BY DEF Ready, TypeInv, StoreOK
<1> QED BY <1>1, AfterSelf, StoreParts DEF Good

\* 0x01, 0x04, 0x31, 0x3F, 0x21, 0x25.
LEMMA QueryHandled ==
    ASSUME Ready, NEW addr, NEW func, Query(addr, func),
           func \in {"0x01", "0x04", "0x31", "0x3F", "0x21", "0x25"}
    PROVE  Handled(func) /\ relay' = relay
<1> DEFINE sent(a, n) == {<<"addr", a.v>>, <<"sn", n.v>>}
<1>1. PICK a \in config_get(st, "addr") : \E n \in config_get(a.s, "sn") :
         st' = n.s /\ last' = Reply(func, sent(a, n), {})
  BY DEF Query
<1>2. PICK n \in config_get(a.s, "sn") : st' = n.s /\ last' = Reply(func, sent(a, n), {})
  BY <1>1
<1>3. Named(func) = {} /\ "addr" \in Field /\ "sn" \in Field /\ func # "0x35"
  BY NamedValues, DomainParts
<1>4. func \in set /\ Unmoved
  BY AcceptedFacts DEF Query
<1>5. /\ After(st, a.s, Named(func)) /\ Half(a.s) /\ a.s.ee = st.ee
      /\ a.s.faults = st.faults => a.v = st.ee["addr"]
  BY <1>3, ReadyFacts, ThenGet
<1>6. /\ After(st, n.s, Named(func)) /\ Healed(n.s) /\ Half(n.s) /\ n.s.ee = a.s.ee
      /\ n.s.faults = st.faults => a.s.faults = st.faults /\ n.v = a.s.ee["sn"]
  BY <1>3, <1>5, ReadyFacts, ThenGet
<1>7. st'.faults = st.faults => Shows(sent(a, n), st'.ee)
  <2> SUFFICES ASSUME st'.faults = st.faults PROVE Shows(sent(a, n), st'.ee)
    OBVIOUS
  <2>1. a.v = st'.ee["addr"] /\ n.v = st'.ee["sn"]
    BY <1>2, <1>5, <1>6
  <2> QED BY <2>1 DEF Shows, Value
<1>8. last'.func = func /\ RepliesTrue'
  <2> HIDE DEF sent
  <2> QED BY <1>2, <1>6, <1>7, NothingAcked, ReadyFacts, ReplyParts, ReplyTrue DEF After
<1>9. Reached(func)
  BY <1>2, <1>3, <1>6, OwnAddress
<1> QED BY <1>2, <1>3, <1>4, <1>6, <1>8, <1>9, ReadyFacts, Answered DEF Unmoved

\* 0x02.
LEMMA YkControlHandled ==
    ASSUME Ready, NEW addr, NEW port, NEW opt, func_yk_control(addr, port, opt)
    PROVE  /\ Handled("0x02")
           /\ ~coil /\ st'.faults = 0 =>
                 relay' = IF "K0" \in port
                          THEN (IF opt = 0 THEN CLOSE ELSE OPEN) ELSE relay
<1> DEFINE q == IF opt = 0 THEN CLOSE ELSE OPEN
<1>q. q \in {OPEN, CLOSE}
  OBVIOUS
<1>1. PICK p \in control_yk(port, q) : \E a \in config_get(p.s, "addr") :
         st' = a.s /\ relay' = p.pos /\ last' = Reply("0x02", {<<"addr", a.v>>}, {})
  BY DEF func_yk_control
<1>2. PICK a \in config_get(p.s, "addr") :
         st' = a.s /\ relay' = p.pos /\ last' = Reply("0x02", {<<"addr", a.v>>}, {})
  BY <1>1
<1>3. Named("0x02") = {} /\ "addr" \in Field
  BY NamedValues, DomainParts
<1>4. "0x02" \in set /\ UNCHANGED <<run, set, filter, avc_state>>
  BY AcceptedFacts DEF func_yk_control
<1>c. coil' \in BOOLEAN /\ (coil => coil')
  BY ReadyFacts DEF func_yk_control
<1> HIDE DEF q
<1>5. /\ After(st, p.s, Named("0x02")) /\ Half(p.s) /\ p.pos \in {OPEN, CLOSE}
      /\ ~coil /\ p.s.faults = st.faults =>
            p.pos = IF "K0" \in port THEN q ELSE relay
  <2>1. CASE "K0" \in port
    <3>1. p \in Pulse(st, relay, q)
      BY <1>1, <2>1 DEF control_yk
    <3>2. Good(st) /\ Half(st) /\ relay \in {OPEN, CLOSE}
      BY ReadyFacts
    <3>3. /\ After(st, p.s, {}) /\ p.pos \in {OPEN, CLOSE} /\ (Half(st) => Half(p.s))
          /\ ~coil /\ p.s.faults = st.faults => p.pos = q
      BY <1>q, <3>1, <3>2, PulseFacts
    <3> QED BY <1>3, <2>1, <3>2, <3>3
  <2>2. CASE "K0" \notin port
    <3>1. p.s = st /\ p.pos = relay
      BY <1>1, <2>2 DEF control_yk
    <3> QED BY <2>2, <3>1, ReadyFacts
  <2> QED BY <2>1, <2>2
<1>6. /\ After(st, a.s, Named("0x02")) /\ Healed(a.s) /\ Half(a.s) /\ a.s.ee = p.s.ee
      /\ a.s.faults = st.faults => a.v = p.s.ee["addr"]
      /\ a.s.faults = 0 => p.s.faults = 0
  BY <1>3, <1>5, ReadyFacts, ThenGet
<1>8. last'.func = "0x02" /\ RepliesTrue'
  <2> DEFINE sent == {<<"addr", a.v>>}
  <2>1. st'.faults = st.faults => Shows(sent, st'.ee)
    BY <1>2, <1>6 DEF Shows, Value
  <2>2. last' = Reply("0x02", sent, {})
    BY <1>2
  <2> HIDE DEF sent
  <2>3. /\ last'.func = "0x02" /\ last'.sent = sent /\ last'.acked = {}
        /\ last'.failed = st'.faults - st.faults
    BY <2>2 DEF Reply
  <2> QED BY <1>2, <1>6, <2>1, <2>3, NothingAcked, ReadyFacts, ReplyTrue DEF After
<1>9. Reached("0x02")
  BY <1>2, <1>3, <1>6, OwnAddress
<1>10. Handled("0x02")
  BY <1>2, <1>4, <1>5, <1>6, <1>8, <1>9, <1>c, ReadyFacts, Answered
<1>11. p.s.faults = 0 => st.faults = 0
  BY <1>5, ReadyFacts, StoreParts DEF After, Good
<1>12. ~coil /\ st'.faults = 0 => relay' = IF "K0" \in port THEN q ELSE relay
  BY <1>2, <1>5, <1>6, <1>11
<1> QED BY <1>10, <1>12 DEF q

\* 0x03: a frame with the serial number of another device is only answered.
LEMMA YkModifyHandled ==
    ASSUME Ready, NEW addr, NEW new \in Addr, NEW sn, func_yk_modify_addr(addr, new, sn)
    PROVE  (Handled("0x03") /\ st'.ee = st.ee /\ relay' = relay) \/ Reset
<1>1. PICK n \in config_get(st, "sn") :
        IF sn # n.v
        THEN st' = n.s /\ last' = NoReply("0x03") /\ Unmoved
        ELSE /\ \E m \in config_modify(n.s, "addr", new) : st' = Cleared(m.s)
             /\ PowerDown
             /\ last' = NoReply("0x03")
             /\ UNCHANGED relay
  BY DEF func_yk_modify_addr
<1>2. Named("0x03") = {"addr"} /\ "addr" \in Field /\ "sn" \in Field /\ Domain("addr") = Addr
  BY NamedValues, DomainParts
<1>3. "0x03" \in set
  BY AcceptedFacts DEF func_yk_modify_addr
<1>4. /\ After(st, n.s, Named("0x03")) /\ Healed(n.s) /\ Half(n.s) /\ n.s.ee = st.ee
  BY <1>2, ReadyFacts, ThenGet
<1>l. last' = NoReply("0x03") /\ last'.func = "0x03" /\ RepliesTrue'
  <2>1. last' = NoReply("0x03")
    BY <1>1
  <2> QED BY <2>1, NoReplyParts
<1>5. CASE sn # n.v
  <2>1. st' = n.s /\ Unmoved
    BY <1>1, <1>5
  <2>2. Reached("0x03")
    BY <1>4, <2>1 DEF Reached
  <2>4. Handled("0x03")
    BY <1>3, <1>4, <1>l, <2>1, <2>2, ReadyFacts, Answered DEF Unmoved
  <2> QED BY <1>4, <2>1, <2>4 DEF Unmoved
<1>6. CASE sn = n.v
  <2>1. PowerDown /\ UNCHANGED relay
    BY <1>1, <1>6
  <2>2. PICK m \in config_modify(n.s, "addr", new) : st' = Cleared(m.s)
    BY <1>1, <1>6
  <2>3. After(st, m.s, Named("0x03"))
    <3> DEFINE f == "addr"
    <3>1. f \in Field /\ f \in Named("0x03") /\ new \in Domain(f) /\ f # "type"
      BY <1>2
    <3> HIDE DEF f
    <3>2. m \in config_modify(n.s, f, new)
      BY <2>2 DEF f
    <3> QED BY <1>4, <3>1, <3>2, ReadyFacts, ThenModify
  <2>4. Resting(st') /\ st'.ee = m.s.ee
    BY <2>2, <2>3, ClearedFacts DEF After, Good
  <2>5. st.ram = st.ee =>
           \A f \in Field : f \notin Named(last'.func) => st'.ee[f] = st.ee[f]
    BY <1>l, <2>3, <2>4 DEF After, Kept
  <2>6. run # "off"
    BY ReadyFacts
  <2>7. Served(st) => Served(st')
    BY <2>3, <2>4, RestingServed DEF After, Served
  <2> QED BY <1>l, <2>1, <2>4, <2>5, <2>6, <2>7 DEF Reset
<1> QED BY <1>5, <1>6

\* 0x07 and 0x37: the change of the type keeps the new serial number.
LEMMA ModifySnFacts ==
    ASSUME NEW s, Good(s), Half(s), NEW sn \in Sn, NEW type \in {YK_LOCK, AVC_SWITCH},
           NEW x \in ModifySn(s, sn, type)
    PROVE  /\ After(s, x.s, {"sn", "type"}) /\ Half(x.s) /\ x.ok \in BOOLEAN
           /\ x.ok => x.s.ee["sn"] = sn
           /\ x.s.faults = 0 => /\ x.s.ee["sn"] = sn
                                /\ x.s.ee["type"] = Typed(s.ee["type"], type)
<1> DEFINE N == {"sn", "type"}
           f == "sn"
           t == "type"
           D(d, m) == [s |-> d.s, ok |-> m.ok]
<1>1. PICK m \in config_modify(s, f, sn) :
         x \in IF m.s.info.lock_type = type THEN {D(m, m)}
               ELSE {D(d, m) : d \in config_modify(m.s, t, type)}
  BY DEF ModifySn
<1>2. /\ f \in Field /\ f \in N /\ sn \in Domain(f) /\ (f = "type" => sn # DEVICE_TYPE_MAX)
  BY DomainParts
<1>3. /\ t \in Field /\ t \in N /\ f # t /\ type \in Domain(t) /\ type # DEVICE_TYPE_MAX
  BY DomainParts, DeviceAssumption DEF YK_LOCK, AVC_SWITCH, DEVICE_TYPE_MAX
<1>4. After(s, s, N)
  BY AfterSelf
<1>d. \A d : D(d, m).s = d.s /\ D(d, m).ok = m.ok
  OBVIOUS
<1> HIDE DEF N, f, t, D
<1>5. /\ After(s, m.s, N) /\ Half(m.s) /\ m.ok \in BOOLEAN
      /\ m.ok => /\ m.s.ram = m.s.ee /\ m.s.ee[f] = sn
                 /\ \A g \in Field : g # f => m.s.ee[g] = s.ram[g]
      /\ m.s.faults = 0 => /\ s.faults = 0 /\ m.ok
                           /\ m.s.info.lock_type = get_device(m.s.ee["type"])
  BY <1>2, <1>4, ThenModify
<1>t. m.s.faults = 0 => /\ m.ok /\ m.s.ee[f] = sn /\ m.s.ee[t] = s.ee[t]
                        /\ m.s.info.lock_type = get_device(s.ee[t])
  BY <1>3, <1>5 DEF Half, t
<1>6. CASE m.s.info.lock_type = type
  <2>1. x = D(m, m)
    BY <1>1, <1>6
  <2>2. x.s = m.s /\ x.ok = m.ok
    BY <1>d, <2>1
  <2>3. x.s.faults = 0 => x.s.ee[f] = sn /\ x.s.ee[t] = Typed(s.ee[t], type)
    BY <1>6, <1>t, <2>2 DEF Typed
  <2> QED BY <1>5, <2>2, <2>3 DEF N, f, t
<1>7. CASE m.s.info.lock_type # type
  <2>1. PICK d \in config_modify(m.s, t, type) : x = D(d, m)
    BY <1>1, <1>7
  <2>2. x.s = d.s /\ x.ok = m.ok
    BY <1>d, <2>1
  <2>3. /\ After(s, d.s, N) /\ Half(d.s) /\ d.ok \in BOOLEAN
        /\ d.ok => d.s.ee[t] = type
        /\ d.s.faults = 0 => m.s.faults = 0 /\ d.ok
    BY <1>3, <1>5, ThenModify
  <2>4. After(m.s, d.s, {t})
    BY <1>3, <1>5, ModifyFacts DEF After
  <2>5. m.ok => d.s.ee[f] = sn
    BY <1>2, <1>3, <1>5, <2>4 DEF After, Kept
  <2>6. x.s.faults = 0 => x.s.ee[f] = sn /\ x.s.ee[t] = Typed(s.ee[t], type)
    BY <1>7, <1>t, <2>2, <2>3, <2>5 DEF Typed
  <2> QED BY <1>5, <2>2, <2>3, <2>5, <2>6 DEF N, f, t
<1> QED BY <1>6, <1>7

\* 0x07.
LEMMA YkSnHandled ==
    ASSUME Ready, NEW addr, NEW sn \in Sn, func_yk_production_modify_sn(addr, sn)
    PROVE  /\ Handled("0x07") /\ relay' = relay
           /\ st'.faults = 0 => /\ st'.ee["sn"] = sn
                                /\ st'.ee["type"] = Typed(st.ee["type"], YK_LOCK)
<1>1. PICK m \in ModifySn(st, sn, YK_LOCK) : \E n \in config_get(m.s, "sn") :
         st' = n.s /\ last' = Reply("0x07", {<<"sn", n.v>>}, {})
  BY DEF func_yk_production_modify_sn
<1>2. PICK n \in config_get(m.s, "sn") :
         st' = n.s /\ last' = Reply("0x07", {<<"sn", n.v>>}, {})
  BY <1>1
<1>3. Named("0x07") = {"sn", "type"} /\ "sn" \in Field /\ "addr" \notin Named("0x07")
  BY NamedValues, DomainParts
<1>4. "0x07" \in set /\ Unmoved
  BY AcceptedFacts DEF func_yk_production_modify_sn
<1>5. /\ After(st, m.s, Named("0x07")) /\ Half(m.s)
      /\ m.s.faults = 0 => /\ m.s.ee["sn"] = sn
                           /\ m.s.ee["type"] = Typed(st.ee["type"], YK_LOCK)
  <2>1. Good(st) /\ Half(st) /\ YK_LOCK \in {YK_LOCK, AVC_SWITCH}
    BY ReadyFacts
  <2>2. /\ After(st, m.s, {"sn", "type"}) /\ Half(m.s)
        /\ m.s.faults = 0 => /\ m.s.ee["sn"] = sn
                             /\ m.s.ee["type"] = Typed(st.ee["type"], YK_LOCK)
    BY <2>1, ModifySnFacts
  <2> QED BY <1>3, <2>2
<1>6. /\ After(st, n.s, Named("0x07")) /\ Healed(n.s) /\ Half(n.s) /\ n.s.ee = m.s.ee
      /\ n.s.faults = st.faults => n.v = m.s.ee["sn"]
      /\ n.s.faults = 0 => m.s.faults = 0
  BY <1>3, <1>5, ReadyFacts, ThenGet
<1>8. last'.func = "0x07" /\ RepliesTrue'
  <2> DEFINE sent == {<<"sn", n.v>>}
  <2>1. st'.faults = st.faults => Shows(sent, st'.ee)
    BY <1>2, <1>6 DEF Shows, Value
  <2>2. last' = Reply("0x07", sent, {})
    BY <1>2
  <2> HIDE DEF sent
  <2>3. /\ last'.func = "0x07" /\ last'.sent = sent /\ last'.acked = {}
        /\ last'.failed = st'.faults - st.faults
    BY <2>2 DEF Reply
  <2> QED BY <1>2, <1>6, <2>1, <2>3, NothingAcked, ReadyFacts, ReplyTrue DEF After
<1>9. Reached("0x07")
  BY <1>2, <1>3, <1>6, OwnAddress
<1>10. Handled("0x07")
  BY <1>2, <1>4, <1>6, <1>8, <1>9, ReadyFacts, Answered DEF Unmoved
<1> QED BY <1>2, <1>4, <1>5, <1>6, <1>10 DEF Unmoved

\* 0x37: the result and the number in the reply are both true.
LEMMA AvcSnHandled ==
    ASSUME Ready, NEW addr, NEW sn \in Sn, func_avc_modify_sn(addr, sn)
    PROVE  /\ Handled("0x37") /\ relay' = relay
           /\ st'.faults = 0 => /\ st'.ee["sn"] = sn
                                /\ st'.ee["type"] = Typed(st.ee["type"], AVC_SWITCH)
<1> DEFINE sent(a, n) == {<<"addr", a.v>>, <<"sn", n.v>>}
           acked(m) == IF m.ok THEN {<<"sn", sn>>} ELSE {}
<1>1. PICK m \in ModifySn(st, sn, AVC_SWITCH) :
      \E a \in config_get(m.s, "addr") : \E n \in config_get(a.s, "sn") :
         st' = n.s /\ last' = Reply("0x37", sent(a, n), acked(m))
  BY DEF func_avc_modify_sn
<1>2. PICK a \in config_get(m.s, "addr") : \E n \in config_get(a.s, "sn") :
         st' = n.s /\ last' = Reply("0x37", sent(a, n), acked(m))
  BY <1>1
<1>3. PICK n \in config_get(a.s, "sn") :
         st' = n.s /\ last' = Reply("0x37", sent(a, n), acked(m))
  BY <1>2
<1>4. /\ Named("0x37") = {"sn", "type"} /\ "sn" \in Field /\ "addr" \in Field
      /\ "addr" \notin Named("0x37")
  BY NamedValues, DomainParts
<1>5. "0x37" \in set /\ Unmoved
  BY AcceptedFacts DEF func_avc_modify_sn
<1>6. /\ After(st, m.s, Named("0x37")) /\ Half(m.s) /\ m.ok \in BOOLEAN
      /\ m.ok => m.s.ee["sn"] = sn
      /\ m.s.faults = 0 => /\ m.s.ee["sn"] = sn
                           /\ m.s.ee["type"] = Typed(st.ee["type"], AVC_SWITCH)
  <2>1. Good(st) /\ Half(st) /\ AVC_SWITCH \in {YK_LOCK, AVC_SWITCH}
    BY ReadyFacts
  <2>2. /\ After(st, m.s, {"sn", "type"}) /\ Half(m.s) /\ m.ok \in BOOLEAN
        /\ m.ok => m.s.ee["sn"] = sn
        /\ m.s.faults = 0 => /\ m.s.ee["sn"] = sn
                             /\ m.s.ee["type"] = Typed(st.ee["type"], AVC_SWITCH)
    BY <2>1, ModifySnFacts
  <2> QED BY <1>4, <2>2
<1>7. /\ After(st, a.s, Named("0x37")) /\ Half(a.s) /\ a.s.ee = m.s.ee
      /\ a.s.faults = st.faults => a.v = m.s.ee["addr"]
      /\ a.s.faults = 0 => m.s.faults = 0
  BY <1>4, <1>6, ReadyFacts, ThenGet
<1>8. /\ After(st, n.s, Named("0x37")) /\ Healed(n.s) /\ Half(n.s) /\ n.s.ee = a.s.ee
      /\ n.s.faults = st.faults => a.s.faults = st.faults /\ n.v = a.s.ee["sn"]
      /\ n.s.faults = 0 => a.s.faults = 0
  BY <1>4, <1>7, ReadyFacts, ThenGet
<1>9. st'.faults = st.faults => Shows(sent(a, n), st'.ee)
  <2> SUFFICES ASSUME st'.faults = st.faults PROVE Shows(sent(a, n), st'.ee)
    OBVIOUS
  <2>1. a.v = st'.ee["addr"] /\ n.v = st'.ee["sn"]
    BY <1>3, <1>7, <1>8
  <2> QED BY <2>1 DEF Shows, Value
<1>a. True(acked(m), st'.ee)
  <2>1. CASE m.ok
    <3>1. acked(m) = {<<"sn", sn>>}
      BY <2>1
    <3> HIDE DEF acked
    <3> QED BY <1>3, <1>6, <1>7, <1>8, <2>1, <3>1 DEF True
  <2>2. CASE ~m.ok
    BY <2>2, NothingAcked
  <2> QED BY <1>6, <2>1, <2>2
<1>10. last'.func = "0x37" /\ RepliesTrue'
  <2> HIDE DEF sent, acked
  <2> QED BY <1>3, <1>8, <1>9, <1>a, ReadyFacts, ReplyParts, ReplyTrue DEF After
<1>11. Reached("0x37")
  BY <1>3, <1>4, <1>8, OwnAddress
<1>12. Handled("0x37")
  BY <1>3, <1>5, <1>8, <1>10, <1>11, ReadyFacts, Answered DEF Unmoved
<1> QED BY <1>3, <1>5, <1>6, <1>7, <1>8, <1>12 DEF Unmoved

\* 0x35 and 0x32 after their last relay operation: AvcReply.
LEMMA ReplyFacts ==
    ASSUME Ready, NEW func, NEW addr, NEW want, NEW c, AvcReply(func, addr, want, c),
           Named(func) = {"relay"}, After(st, c.s, {"relay"}), Half(c.s)
    PROVE  /\ After(st, st', Named(func)) /\ Healed(st') /\ Half(st') /\ st'.ee = c.s.ee
           /\ st'.faults = st.faults => c.s.faults = st.faults
           /\ st'.faults = 0 => st.faults = 0 /\ c.s.faults = 0
           /\ relay' = c.pos /\ avc_state' = c.avc
           /\ last'.func = func /\ last'.want = want /\ last'.avc = c.avc
           /\ RepliesTrue' /\ Reached(func)
<1> DEFINE sent(a) == {<<"addr", a.v>>}
           d == st'.faults - st.faults
           R(a) == [func |-> func, sent |-> sent(a), acked |-> {}, failed |-> d,
                    want |-> want, avc |-> c.avc]
<1>1. PICK a \in config_get(c.s, "addr") :
         /\ st' = a.s /\ relay' = c.pos /\ avc_state' = c.avc /\ last' = R(a)
  BY DEF AvcReply
<1>2. "addr" \in Field /\ "addr" \notin Named(func)
  BY DomainParts
<1>3. /\ After(st, a.s, {"relay"}) /\ Healed(a.s) /\ Half(a.s) /\ a.s.ee = c.s.ee
      /\ a.s.faults = st.faults => c.s.faults = st.faults /\ a.v = c.s.ee["addr"]
      /\ a.s.faults = 0 => c.s.faults = 0
  BY <1>2, ReadyFacts, ThenGet
<1>0. c.s.faults = 0 => st.faults = 0
  BY ReadyFacts, StoreParts DEF After, Good
<1>4. /\ last'.func = func /\ last'.want = want /\ last'.avc = c.avc
      /\ last'.sent = sent(a) /\ last'.acked = {} /\ last'.failed = d
  <2> HIDE DEF sent, d
  <2> QED BY <1>1
<1>5. RepliesTrue'
  <2>1. st'.faults = st.faults => Shows(sent(a), st'.ee)
    BY <1>1, <1>3 DEF Shows, Value
  <2> HIDE DEF sent
  <2> QED BY <1>1, <1>3, <1>4, <2>1, NothingAcked, ReadyFacts, ReplyTrue DEF After
<1>6. Reached(func)
  BY <1>1, <1>2, <1>3, OwnAddress
<1> QED BY <1>0, <1>1, <1>3, <1>4, <1>5, <1>6

\* 0x35: with the close coil off the relay goes where it is told.
LEMMA CommandHandled ==
    ASSUME Ready, NEW addr, NEW want \in {OPEN, CLOSE}, func_avc_control_command(addr, want)
    PROVE  /\ Handled("0x35")
           /\ st'.faults = 0 => /\ st'.ee["relay"] = want
                                /\ coil \/ relay' = want
<1> DEFINE func == "0x35"
<1>1. PICK c \in avc_control(st, relay, want) : AvcReply(func, addr, want, c)
  BY DEF func_avc_control_command, Operate
<1>2. func \in set /\ UNCHANGED <<run, set, filter, coil>>
  BY AcceptedFacts DEF func_avc_control_command
<1>3. Named(func) = {"relay"}
  BY NamedValues
<1>4. /\ After(st, c.s, {"relay"}) /\ Half(c.s) /\ c.pos \in {OPEN, CLOSE}
      /\ c.avc \in AvcState /\ (c.avc.is_set <=> c.pos = want)
      /\ c.avc.is_save => c.s.ee["relay"] = want
      /\ ~coil /\ c.s.faults = st.faults =>
            c.pos = want /\ c.avc.is_set /\ c.avc.is_save
      /\ c.s.faults = st.faults => c.s.ee["relay"] = want
  BY ReadyFacts, AvcFacts
<1>5. /\ After(st, st', Named(func)) /\ Healed(st') /\ Half(st') /\ st'.ee = c.s.ee
      /\ st'.faults = st.faults => c.s.faults = st.faults
      /\ st'.faults = 0 => st.faults = 0 /\ c.s.faults = 0
      /\ relay' = c.pos /\ avc_state' = c.avc
      /\ last'.func = func /\ last'.want = want /\ last'.avc = c.avc
      /\ RepliesTrue' /\ Reached(func)
  <2> HIDE DEF func
  <2> QED BY <1>1, <1>3, <1>4, ReplyFacts
<1>6. CommandHonest'
  BY <1>4, <1>5 DEF CommandHonest
<1>7. ASSUME ~coil PROVE CommandObeyed'
  <2> SUFFICES ASSUME st'.faults = 0
               PROVE  relay' = last'.want /\ last'.avc.is_set /\ last'.avc.is_save
    BY DEF CommandObeyed
  <2>1. st'.faults = st.faults
    BY <1>5, ReadyFacts DEF After
  <2> QED BY <1>4, <1>5, <1>7, <2>1
<1>8. run = "up" /\ coil \in BOOLEAN
  BY ReadyFacts
<1>9. Handled("0x35")
  BY <1>2, <1>4, <1>5, <1>6, <1>7, <1>8 DEF Handled
<1> QED BY <1>4, <1>5, <1>8, <1>9

\* 0x32: the second operation makes the reply tell nothing of the first.
LEMMA RequestHandled ==
    ASSUME Ready, NEW addr, NEW want \in {OPEN, CLOSE}, func_avc_control_request(addr, want)
    PROVE  /\ Handled("0x32")
           /\ st'.faults = 0 => /\ st'.ee["relay"] = CLOSE
                                /\ coil \/ relay' = CLOSE
<1> DEFINE func == "0x32"
<1>1. PICK c \in avc_control(st, relay, want) :
      \E e \in avc_control(c.s, c.pos, CLOSE) : AvcReply(func, addr, want, e)
  BY DEF func_avc_control_request
<1>2. PICK e \in avc_control(c.s, c.pos, CLOSE) : AvcReply(func, addr, want, e)
  BY <1>1
<1>3. func \in set /\ UNCHANGED <<run, set, filter, coil>>
  BY AcceptedFacts DEF func_avc_control_request
<1>4. Named(func) = {"relay"} /\ func # "0x35"
  BY NamedValues
<1>5. /\ After(st, c.s, {"relay"}) /\ Half(c.s) /\ c.pos \in {OPEN, CLOSE}
  BY ReadyFacts, AvcFacts
<1>6. /\ After(c.s, e.s, {"relay"}) /\ Half(e.s) /\ e.pos \in {OPEN, CLOSE}
      /\ e.avc \in AvcState
      /\ e.s.faults = c.s.faults => e.s.ee["relay"] = CLOSE
      /\ ~coil /\ e.s.faults = c.s.faults => e.pos = CLOSE
  BY <1>5, AvcFacts DEF After
<1>7. After(st, e.s, {"relay"})
  <2>1. After(st, e.s, {"relay"} \cup {"relay"})
    BY <1>5, <1>6, ReadyFacts, AfterTrans
  <2> QED BY <2>1, AfterMore
<1>8. /\ After(st, st', Named(func)) /\ Healed(st') /\ Half(st') /\ st'.ee = e.s.ee
      /\ st'.faults = 0 => st.faults = 0 /\ e.s.faults = 0
      /\ relay' = e.pos /\ avc_state' = e.avc /\ last'.func = func
      /\ RepliesTrue' /\ Reached(func)
  <2> HIDE DEF func
  <2> QED BY <1>2, <1>4, <1>6, <1>7, ReplyFacts
<1>9. CommandHonest' /\ CommandObeyed'
  BY <1>4, <1>8 DEF CommandHonest, CommandObeyed
<1>10. run = "up" /\ coil \in BOOLEAN
  BY ReadyFacts
<1>11. Handled("0x32")
  BY <1>3, <1>6, <1>8, <1>9, <1>10 DEF Handled
<1>12. e.s.faults = 0 => c.s.faults = 0
  BY <1>5, <1>6, StoreParts DEF After, Good
<1> QED BY <1>5, <1>6, <1>8, <1>10, <1>11, <1>12

\* 0x2A.
LEMMA TimeoutHandled ==
    ASSUME Ready, NEW addr, NEW exec \in {0, 1}, NEW cmd \in {0, 1},
           func_cold_lock_modify_timeout(addr, exec, cmd)
    PROVE  /\ Handled("0x2A") /\ relay' = relay
           /\ st'.faults = 0 => st'.ee["exec"] = exec /\ st'.ee["cmd"] = cmd
<1> DEFINE func == "0x2A"
           fe == "exec"
           fc == "cmd"
           sent(x, y, z) == {<<fe, x.v>>, <<fc, y.v>>, <<"addr", z.v>>}
           L(x, y, z) == st' = z.s /\ last' = Reply(func, sent(x, y, z), {})
<1>1. PICK e0 \in config_get(st, fe) : \E c0 \in config_get(e0.s, fc) :
       \E me \in config_modify(c0.s, fe, exec) : \E mc \in config_modify(me.s, fc, cmd) :
       \E e1 \in config_get(mc.s, fe) : \E c1 \in config_get(e1.s, fc) :
       \E a \in config_get(c1.s, "addr") : L(e1, c1, a)
  BY DEF func_cold_lock_modify_timeout
<1>2. PICK c0 \in config_get(e0.s, fc) :
       \E me \in config_modify(c0.s, fe, exec) : \E mc \in config_modify(me.s, fc, cmd) :
       \E e1 \in config_get(mc.s, fe) : \E c1 \in config_get(e1.s, fc) :
       \E a \in config_get(c1.s, "addr") : L(e1, c1, a)
  BY <1>1
<1>3. PICK me \in config_modify(c0.s, fe, exec) : \E mc \in config_modify(me.s, fc, cmd) :
       \E e1 \in config_get(mc.s, fe) : \E c1 \in config_get(e1.s, fc) :
       \E a \in config_get(c1.s, "addr") : L(e1, c1, a)
  BY <1>2
<1>4. PICK mc \in config_modify(me.s, fc, cmd) :
       \E e1 \in config_get(mc.s, fe) : \E c1 \in config_get(e1.s, fc) :
       \E a \in config_get(c1.s, "addr") : L(e1, c1, a)
  BY <1>3
<1>5. PICK e1 \in config_get(mc.s, fe) : \E c1 \in config_get(e1.s, fc) :
       \E a \in config_get(c1.s, "addr") : L(e1, c1, a)
  BY <1>4
<1>6. PICK c1 \in config_get(e1.s, fc) : \E a \in config_get(c1.s, "addr") : L(e1, c1, a)
  BY <1>5
<1>7. PICK a \in config_get(c1.s, "addr") : L(e1, c1, a)
  BY <1>6
<1>8. /\ fe \in Field /\ fc \in Field /\ "addr" \in Field /\ fe # "type" /\ fc # "type"
      /\ fe # fc
      /\ exec \in Domain(fe) /\ cmd \in Domain(fc)
      /\ fe \in Named(func) /\ fc \in Named(func) /\ "addr" \notin Named(func)
  BY DomainParts, NamedValues
<1>9. func \in set /\ Unmoved /\ func # "0x35"
  BY AcceptedFacts DEF func_cold_lock_modify_timeout
<1>10. st' = a.s /\ last' = Reply(func, sent(e1, c1, a), {})
  BY <1>7
<1> HIDE DEF func, fe, fc, L
<1> DEFINE N == Named(func)
<1>11. After(st, e0.s, N) /\ Half(e0.s)
  BY <1>8, ReadyFacts, ThenGet
<1>12. After(st, c0.s, N) /\ Half(c0.s)
  BY <1>8, <1>11, ReadyFacts, ThenGet
<1>13. /\ After(st, me.s, N) /\ Half(me.s) /\ (me.s.faults = 0 => me.ok)
       /\ me.ok => me.s.ram = me.s.ee /\ me.s.ee[fe] = exec
  BY <1>8, <1>12, ReadyFacts, ThenModify
<1>14. /\ After(st, mc.s, N) /\ Half(mc.s)
       /\ mc.s.faults = 0 => me.s.faults = 0 /\ mc.ok
       /\ mc.ok => mc.s.ee[fc] = cmd /\ \A g \in Field : g # fc => mc.s.ee[g] = me.s.ram[g]
  BY <1>8, <1>13, ReadyFacts, ThenModify
<1>15. /\ After(st, e1.s, N) /\ Half(e1.s) /\ e1.s.ee = mc.s.ee
       /\ (e1.s.faults = st.faults => e1.v = mc.s.ee[fe])
       /\ (e1.s.faults = 0 => mc.s.faults = 0)
  BY <1>8, <1>14, ReadyFacts, ThenGet
<1>16. /\ After(st, c1.s, N) /\ Half(c1.s) /\ c1.s.ee = e1.s.ee
       /\ (c1.s.faults = st.faults => e1.s.faults = st.faults /\ c1.v = e1.s.ee[fc])
       /\ (c1.s.faults = 0 => e1.s.faults = 0)
  BY <1>8, <1>15, ReadyFacts, ThenGet
<1>17. /\ After(st, a.s, N) /\ Healed(a.s) /\ Half(a.s) /\ a.s.ee = c1.s.ee
       /\ a.s.faults = st.faults => c1.s.faults = st.faults /\ a.v = c1.s.ee["addr"]
       /\ a.s.faults = 0 => c1.s.faults = 0
  BY <1>8, <1>16, ReadyFacts, ThenGet
<1>18. last'.func = func /\ RepliesTrue'
  <2>1. st'.faults = st.faults => Shows(sent(e1, c1, a), st'.ee)
    <3> SUFFICES ASSUME st'.faults = st.faults PROVE Shows(sent(e1, c1, a), st'.ee)
      OBVIOUS
    <3>1. e1.v = st'.ee[fe] /\ c1.v = st'.ee[fc] /\ a.v = st'.ee["addr"]
      BY <1>10, <1>15, <1>16, <1>17
    <3> QED BY <1>8, <3>1, PlainValue DEF Shows
  <2> HIDE DEF sent
  <2> QED BY <1>10, <1>17, <2>1, NothingAcked, ReadyFacts, ReplyParts, ReplyTrue DEF After
<1>19. Reached(func)
  BY <1>8, <1>10, <1>17, OwnAddress
<1>20. Handled(func)
  BY <1>9, <1>10, <1>17, <1>18, <1>19, ReadyFacts, Answered DEF Unmoved
<1>21. st'.faults = 0 => st'.ee[fe] = exec /\ st'.ee[fc] = cmd
  BY <1>8, <1>10, <1>13, <1>14, <1>15, <1>16, <1>17
<1> QED BY <1>9, <1>20, <1>21 DEF func, fe, fc, Unmoved

\* 0x33: the address it stores is the one that the frame passed the filter with.
LEMMA DeviceHandled ==
    ASSUME Ready, NEW addr \in Addr, NEW type, NEW new, NEW sn,
           func_avc_modify_device(addr, type, new, sn)
    PROVE  /\ Handled("0x33") /\ relay' = relay
           /\ st'.faults = 0 => IF st.ee["sn"] = HeaderSn
                                THEN st'.ee["type"] = YK_LOCK /\ st'.ee["addr"] = addr
                                ELSE st'.ee = st.ee
<1> DEFINE func == "0x33"
           ft == "type"
           fa == "addr"
           Refused(n) == [s |-> n.s, ok |-> FALSE]
           T(n) == IF n.v = HeaderSn THEN config_modify(n.s, ft, YK_LOCK) ELSE {Refused(n)}
           M(t) == IF t.ok THEN config_modify(t.s, fa, addr) ELSE {t}
           sent(d, a) == {<<ft, get_device(d.v)>>, <<fa, a.v>>}
           acked(m) == IF m.ok THEN {<<ft, YK_LOCK>>, <<fa, addr>>} ELSE {}
           own == sn = st.ee.sn
           fails == st'.faults - st.faults
           L(m, d, a) == /\ st' = a.s
                         /\ last' = [func |-> func, sent |-> sent(d, a), acked |-> acked(m),
                                     failed |-> fails, type |-> type, new |-> new, own |-> own]
<1>1. PICK n \in config_get(st, "sn") : \E t \in T(n) : \E m \in M(t) :
      \E d \in config_get(m.s, ft) : \E a \in config_get(d.s, fa) : L(m, d, a)
  BY DEF func_avc_modify_device
<1>2. PICK t \in T(n) : \E m \in M(t) :
      \E d \in config_get(m.s, ft) : \E a \in config_get(d.s, fa) : L(m, d, a)
  BY <1>1
<1>3. PICK m \in M(t) :
      \E d \in config_get(m.s, ft) : \E a \in config_get(d.s, fa) : L(m, d, a)
  BY <1>2
<1>4. PICK d \in config_get(m.s, ft) : \E a \in config_get(d.s, fa) : L(m, d, a)
  BY <1>3
<1>5. PICK a \in config_get(d.s, fa) : L(m, d, a)
  BY <1>4
<1>6. /\ ft \in Field /\ fa \in Field /\ "sn" \in Field /\ fa # ft /\ fa # "type"
      /\ YK_LOCK \in Domain(ft) /\ YK_LOCK # DEVICE_TYPE_MAX /\ addr \in Domain(fa)
      /\ ft \in Named(func) /\ fa \in Named(func)
  BY DomainParts, NamedValues, DeviceAssumption DEF YK_LOCK, DEVICE_TYPE_MAX
<1>7. func \in set /\ Unmoved /\ func # "0x35" /\ (filter.any \/ addr = filter.addr)
  BY AcceptedFacts DEF func_avc_modify_device
<1>8. /\ last'.func = func /\ last'.sent = sent(d, a) /\ last'.acked = acked(m)
      /\ last'.failed = fails /\ st' = a.s
  <2> HIDE DEF sent, acked, own, fails
  <2> QED BY <1>5
<1>r. Refused(n).s = n.s /\ Refused(n).ok = FALSE
  OBVIOUS
<1>f. fa = "addr" /\ ft = "type"
  OBVIOUS
<1> HIDE DEF func, ft, fa, L, Refused
<1> DEFINE N == Named(func)
<1>9. /\ After(st, n.s, N) /\ Half(n.s) /\ n.s.ee = st.ee
      /\ st.ram = st.ee => n.s.ram = n.s.ee
      /\ n.s.faults = 0 => n.v = st.ee["sn"]
  BY <1>6, ReadyFacts, ThenGet
<1>10. /\ After(st, t.s, N) /\ Half(t.s) /\ t.ok \in BOOLEAN
       /\ t.ok => t.s.ram = t.s.ee /\ t.s.ee[ft] = YK_LOCK
       /\ st.ram = st.ee => t.s.ee[fa] = st.ee[fa]
       /\ t.s.faults = 0 => /\ st.ee["sn"] = HeaderSn => t.ok
                            /\ st.ee["sn"] # HeaderSn => ~t.ok /\ t.s.ee = st.ee
  <2>1. CASE n.v = HeaderSn
    <3>1. t \in config_modify(n.s, ft, YK_LOCK)
      BY <1>2, <2>1
    <3>2. /\ After(st, t.s, N) /\ Half(t.s) /\ t.ok \in BOOLEAN
          /\ t.ok => t.s.ram = t.s.ee /\ t.s.ee[ft] = YK_LOCK
          /\ t.s.faults = 0 => n.s.faults = 0 /\ t.ok
      BY <1>6, <1>9, <3>1, ReadyFacts, ThenModify
    <3>3. Good(n.s)
      BY <1>9 DEF After
    <3>4. After(n.s, t.s, {ft})
      BY <1>6, <3>1, <3>3, ModifyFacts
    <3>5. st.ram = st.ee => t.s.ee[fa] = st.ee[fa]
      BY <1>6, <1>9, <3>4 DEF After, Kept
    <3> QED BY <1>9, <2>1, <3>2, <3>5
  <2>2. CASE n.v # HeaderSn
    <3>1. t = Refused(n)
      BY <1>2, <2>2
    <3>2. t.s = n.s /\ t.ok = FALSE
      BY <1>r, <3>1
    <3> QED BY <1>9, <2>2, <3>2
  <2> QED BY <2>1, <2>2
<1>11. /\ After(st, m.s, N) /\ Half(m.s) /\ m.ok \in BOOLEAN
       /\ m.ok => m.s.ee[ft] = YK_LOCK /\ m.s.ee[fa] = addr
       /\ st.ram = st.ee /\ m.s.faults = 0 =>
             m.s.ee[fa] = st.ee[fa] \/ m.s.ee[fa] = addr
       /\ m.s.faults = 0 => /\ st.ee["sn"] = HeaderSn => m.ok
                            /\ st.ee["sn"] # HeaderSn => m.s.ee = st.ee
  <2>1. CASE t.ok
    <3>1. m \in config_modify(t.s, fa, addr)
      BY <1>3, <2>1
    <3>2. /\ After(st, m.s, N) /\ Half(m.s) /\ m.ok \in BOOLEAN
          /\ m.ok => /\ m.s.ee[fa] = addr
                     /\ \A g \in Field : g # fa => m.s.ee[g] = t.s.ram[g]
          /\ ~m.ok => m.s.faults > 0
          /\ m.s.faults = 0 => t.s.faults = 0 /\ m.ok
      BY <1>6, <1>10, <3>1, ReadyFacts, ThenModify
    <3>3. m.s.faults \in Nat
      BY <3>2, StoreParts DEF After, Good
    <3> QED BY <1>6, <1>10, <2>1, <3>2, <3>3
  <2>2. CASE ~t.ok
    <3>1. m = t
      BY <1>3, <2>2
    <3> QED BY <1>10, <2>2, <3>1
  <2> QED BY <1>10, <2>1, <2>2
<1>12. /\ After(st, d.s, N) /\ Half(d.s) /\ d.s.ee = m.s.ee
       /\ d.s.faults = st.faults => d.v = m.s.ee[ft]
       /\ After(m.s, d.s, {})
  BY <1>6, <1>11, ReadyFacts, ThenGet, GetAfter DEF After
<1>13. /\ After(st, a.s, N) /\ Healed(a.s) /\ Half(a.s) /\ a.s.ee = m.s.ee
       /\ a.s.faults = st.faults => d.s.faults = st.faults /\ a.v = m.s.ee[fa]
       /\ After(d.s, a.s, {})
  BY <1>6, <1>12, ReadyFacts, ThenGet, GetAfter DEF After
<1>a. True(acked(m), st'.ee)
  <2>1. CASE m.ok
    <3>1. acked(m) = {<<ft, YK_LOCK>>, <<fa, addr>>}
      BY <2>1
    <3> HIDE DEF acked
    <3> QED BY <1>8, <1>11, <1>13, <2>1, <3>1 DEF True
  <2>2. CASE ~m.ok
    BY <2>2, NothingAcked
  <2> QED BY <1>11, <2>1, <2>2
<1>b. st'.faults = st.faults => Shows(sent(d, a), st'.ee)
  <2> SUFFICES ASSUME st'.faults = st.faults PROVE Shows(sent(d, a), st'.ee)
    OBVIOUS
  <2>1. d.v = st'.ee[ft] /\ a.v = st'.ee[fa]
    BY <1>8, <1>12, <1>13
  <2>2. get_device(d.v) = Value(ft, st'.ee) /\ a.v = Value(fa, st'.ee)
    BY <1>6, <1>f, <2>1 DEF Value
  <2> QED BY <2>2, ShowsTwo
<1>14. RepliesTrue'
  <2> HIDE DEF sent, acked
  <2> QED BY <1>8, <1>13, <1>a, <1>b, ReadyFacts, ReplyTrue DEF After
<1>15. Reached(func)
  <2> SUFFICES ASSUME st.ram = st.ee, st'.faults = 0
               PROVE  st'.ee[fa] = st.ee[fa] \/ filter.any \/ st'.ee[fa] = filter.addr
    BY <1>f DEF Reached
  <2>1. m.s.faults \in Nat /\ d.s.faults \in Nat /\ a.s.faults \in Nat
    BY <1>11, <1>12, <1>13, StoreParts DEF After, Good
  <2>2. m.s.faults = 0
    BY <1>8, <1>12, <1>13, <2>1 DEF After
  <2> QED BY <1>7, <1>8, <1>11, <1>13, <2>2
<1>16. Handled(func)
  BY <1>7, <1>8, <1>13, <1>14, <1>15, ReadyFacts, Answered DEF Unmoved
<1>17. st'.faults = 0 => IF st.ee["sn"] = HeaderSn
                         THEN st'.ee[ft] = YK_LOCK /\ st'.ee[fa] = addr
                         ELSE st'.ee = st.ee
  <2>1. m.s.faults \in Nat /\ d.s.faults \in Nat /\ a.s.faults \in Nat
    BY <1>11, <1>12, <1>13, StoreParts DEF After, Good
  <2>2. st'.faults = 0 => m.s.faults = 0
    BY <1>8, <1>12, <1>13, <2>1 DEF After
  <2> QED BY <1>8, <1>11, <1>13, <2>2
<1> QED BY <1>7, <1>16, <1>17 DEF func, ft, fa, Unmoved

\* 0x23.
LEMMA ColdAddrHandled ==
    ASSUME Ready, NEW addr, NEW new \in Addr, NEW sn,
           func_cold_lock_modify_addr(addr, new, sn)
    PROVE  /\ Handled("0x23") /\ relay' = relay
           /\ st'.faults = 0 =>
                 st'.ee["addr"] = IF st.ee["sn"] = sn THEN new ELSE st.ee["addr"]
<1> DEFINE func == "0x23"
           fa == "addr"
           Refused(n) == [s |-> n.s, ok |-> FALSE]
           M(n) == IF sn = n.v THEN config_modify(n.s, fa, new) ELSE {Refused(n)}
           sent(a) == {<<fa, a.v>>}
           L(a) == st' = a.s /\ last' = Reply(func, sent(a), {})
<1>1. PICK n \in config_get(st, "sn") : \E m \in M(n) : \E a \in config_get(m.s, fa) : L(a)
  BY DEF func_cold_lock_modify_addr
<1>2. PICK m \in M(n) : \E a \in config_get(m.s, fa) : L(a)
  BY <1>1
<1>3. PICK a \in config_get(m.s, fa) : L(a)
  BY <1>2
<1>4. /\ fa \in Field /\ "sn" \in Field /\ fa # "type" /\ new \in Domain(fa)
      /\ fa \in Named(func)
  BY DomainParts, NamedValues
<1>5. func \in set /\ Unmoved /\ func # "0x35"
  BY AcceptedFacts DEF func_cold_lock_modify_addr
<1>6. last' = Reply(func, sent(a), {}) /\ st' = a.s /\ Reached(func)
  BY <1>3 DEF Reached
<1>r. Refused(n).s = n.s
  OBVIOUS
<1> HIDE DEF func, fa, L, Refused
<1> DEFINE N == Named(func)
<1>7. /\ After(st, n.s, N) /\ Half(n.s) /\ n.s.ee = st.ee
      /\ n.s.faults = 0 => n.v = st.ee["sn"]
  BY <1>4, ReadyFacts, ThenGet
<1>8. /\ After(st, m.s, N) /\ Half(m.s)
      /\ m.s.faults = 0 => m.s.ee[fa] = IF st.ee["sn"] = sn THEN new ELSE st.ee[fa]
  <2>1. CASE sn = n.v
    <3>1. m \in config_modify(n.s, fa, new)
      BY <1>2, <2>1
    <3>2. /\ After(st, m.s, N) /\ Half(m.s)
          /\ m.ok => m.s.ee[fa] = new
          /\ m.s.faults = 0 => n.s.faults = 0 /\ m.ok
      BY <1>4, <1>7, <3>1, ReadyFacts, ThenModify
    <3> QED BY <1>7, <2>1, <3>2
  <2>2. CASE sn # n.v
    <3>1. m = Refused(n)
      BY <1>2, <2>2
    <3> QED BY <1>7, <1>r, <2>2, <3>1
  <2> QED BY <2>1, <2>2
<1>9. After(st, a.s, N) /\ Healed(a.s) /\ Half(a.s) /\ a.s.ee = m.s.ee
      /\ (a.s.faults = st.faults => a.v = m.s.ee[fa]) /\ (a.s.faults = 0 => m.s.faults = 0)
  BY <1>4, <1>8, ReadyFacts, ThenGet
<1>10. last'.func = func /\ RepliesTrue'
  <2>1. st'.faults = st.faults => Shows(sent(a), st'.ee)
    BY <1>4, <1>6, <1>9, ShowsOne
  <2> HIDE DEF sent
  <2> QED BY <1>6, <1>9, <2>1, NothingAcked, ReadyFacts, ReplyParts, ReplyTrue DEF After
<1>11. Handled(func)
  BY <1>5, <1>6, <1>9, <1>10, ReadyFacts, Answered DEF Unmoved
<1>12. st'.faults = 0 => st'.ee[fa] = IF st.ee["sn"] = sn THEN new ELSE st.ee[fa]
  BY <1>6, <1>8, <1>9
<1> QED BY <1>5, <1>11, <1>12 DEF func, fa, Unmoved

\* 0x27 and 0x2F.
LEMMA StubHandled ==
    ASSUME Ready, NEW addr, NEW func, func_cold_lock_stub(addr, func)
    PROVE  func \in {"0x27", "0x2F"} /\ Handled(func) /\ relay' = relay
<1>1. /\ func \in {"0x27", "0x2F"} /\ func \in set /\ st' = st /\ Unmoved
      /\ last' = NoReply(func)
  BY AcceptedFacts DEF func_cold_lock_stub
<1>2. last'.func = func /\ RepliesTrue' /\ func # "0x35"
  BY <1>1, NoReplyParts
<1>3. Reached(func)
  BY <1>1 DEF Reached
<1> QED BY <1>1, <1>2, <1>3, ReadyFacts, Answered DEF Unmoved
-----------------------------------------------------------------------------
(***************************************************************************)
(* The inductive invariant.                                                 *)
(***************************************************************************)
\* A handler keeps it.
LEMMA HandledTypes ==
    ASSUME TypeInv, NEW func, Handled(func)
    PROVE  TypeInv'
<1>1. run' = "up" /\ Good(st')
  BY DEF Handled, After
<1> QED BY <1>1 DEF TypeInv, StoreOK, Handled

\* The rest of the invariant after a handler: only here the tables matter.
LEMMA HandledKeeps ==
    ASSUME DevInv, NEW func, Handled(func)
    PROVE  DevInv'
<1>1. TypeInv'
  BY HandledTypes DEF DevInv
<1>2. /\ "0x02" \in set => set = yk_codes
      /\ "0x35" \in set => set = avc_codes
      /\ yk_codes # avc_codes
  BY Codes DEF DevInv, TypeInv
<1>3. CoilOff'
  BY <1>2 DEF DevInv, CoilOff, Handled
<1>4. Healed(st') /\ run' = "up"
  BY DEF DevInv, Handled
<1>5. RepliesTrue' /\ CommandHonest'
  BY DEF Handled
<1>6. CommandObeyed'
  <2>1. CASE func = "0x35"
    BY <1>2, <2>1 DEF DevInv, CoilOff, Handled
  <2>2. CASE func # "0x35"
    BY <2>2 DEF Handled, CommandObeyed
  <2> QED BY <2>1, <2>2
<1> QED BY <1>1, <1>3, <1>4, <1>5, <1>6 DEF DevInv

\* The last commands that a device that is off can have.
LEMMA OffCommand ==
    ASSUME NEW c, c \in {NoCommand, NoReply("0x03")}
    PROVE  c.func # "0x35" /\ c.sent = {} /\ c.acked = {}
<1>1. c = NoReply("none") \/ c = NoReply("0x03")
  BY DEF NoCommand
<1> QED BY <1>1 DEF NoReply

\* A reset keeps the types,
LEMMA ResetTypes ==
    ASSUME TypeInv, Reset
    PROVE  TypeInv'
<1>1. run' = "off" /\ Resting(st')
  BY DEF Reset, PowerDown
<1>2. /\ set' = {} /\ filter' \in [addr : Addr \cup {0}, any : BOOLEAN] /\ coil' = FALSE
      /\ avc_state' \in AvcState
  BY DEF Reset, PowerDown, AvcState
<1>3. relay' \in {OPEN, CLOSE} /\ last' \in {NoCommand, NoReply("0x03")}
  BY DEF Reset, TypeInv
<1> QED BY <1>1, <1>2, <1>3 DEF TypeInv, StoreOK

\* and the rest of the invariant.
LEMMA ResetKeeps ==
    ASSUME DevInv, Reset
    PROVE  DevInv'
<1>1. TypeInv'
  BY ResetTypes DEF DevInv
<1>2. run' = "off" /\ set' = {} /\ coil' = FALSE
  BY DEF Reset, PowerDown
<1>3. last'.func # "0x35" /\ last'.sent = {} /\ last'.acked = {}
  <2> DEFINE c == last'
  <2>1. c \in {NoCommand, NoReply("0x03")}
    BY DEF Reset
  <2> HIDE DEF c
  <2>2. c.func # "0x35" /\ c.sent = {} /\ c.acked = {}
    BY <2>1, OffCommand
  <2> QED BY <2>2 DEF c
<1>4. RepliesTrue' /\ CommandHonest' /\ CommandObeyed'
  BY <1>3 DEF RepliesTrue, CommandHonest, CommandObeyed
<1> QED BY <1>1, <1>2, <1>4 DEF DevInv, CoilOff

\* A boot keeps the types and leaves a copy that is healed,
LEMMA BootTypes ==
    ASSUME TypeInv, Boot
    PROVE  TypeInv' /\ run' = "up" /\ Healed(st')
<1>1. /\ run' = "up" /\ Good(st') /\ Healed(st')
      /\ set' \in {{}, yk_codes, avc_codes, cold_codes}
      /\ filter' \in [addr : Addr \cup {0}, any : BOOLEAN]
      /\ UNCHANGED <<relay, coil, avc_state, last>>
  BY BootFacts
<1> QED BY <1>1 DEF TypeInv, StoreOK

\* and the rest of the invariant.
LEMMA BootKeeps ==
    ASSUME DevInv, Boot
    PROVE  DevInv'
<1>1. /\ run = "off" /\ run' = "up" /\ Healed(st')
      /\ UNCHANGED <<relay, coil, avc_state, last>>
  BY BootFacts DEF DevInv
<1>2. TypeInv'
  BY BootTypes DEF DevInv
<1>3. last.func # "0x35" /\ last.sent = {} /\ last.acked = {}
  BY <1>1, OffCommand DEF DevInv, TypeInv
<1>4. RepliesTrue' /\ CommandHonest' /\ CommandObeyed'
  BY <1>1, <1>3 DEF RepliesTrue, CommandHonest, CommandObeyed
<1>5. CoilOff'
  BY <1>1 DEF DevInv, TypeInv, CoilOff
<1> QED BY <1>1, <1>2, <1>4, <1>5 DEF DevInv

\* The call of a NULL parser keeps the types
LEMMA NullTypes ==
    ASSUME TypeInv, NullParser
    PROVE  TypeInv' /\ run = "up" /\ run' = "hung" /\ UNCHANGED <<st, set, filter, coil, last, relay>>
<1>1. /\ run = "up" /\ set = {} /\ run' = "hung"
      /\ UNCHANGED <<st, set, filter, relay, coil, avc_state, last>>
  BY DEF NullParser
<1> QED BY <1>1 DEF TypeInv, StoreOK

\* and the rest of the invariant.
LEMMA NullKeeps ==
    ASSUME DevInv, NullParser
    PROVE  DevInv'
<1>1. TypeInv' /\ run = "up" /\ run' = "hung" /\ UNCHANGED <<st, set, filter, coil, last, relay>>
  BY NullTypes DEF DevInv
<1>2. RepliesTrue' /\ CommandHonest' /\ CommandObeyed' /\ CoilOff'
  BY <1>1 DEF DevInv, RepliesTrue, Shown, CommandHonest, CommandObeyed, CoilOff
<1> QED BY <1>1, <1>2 DEF DevInv

\* A loss of power is a reset.
LEMMA PowerLossResets ==
    ASSUME TypeInv, PowerLoss
    PROVE  Reset
<1>1. run # "off" /\ st' = Cleared(st) /\ PowerDown /\ last' = NoCommand /\ UNCHANGED relay
  BY DEF PowerLoss
<1>2. Good(st)
  BY <1>1 DEF TypeInv, StoreOK
<1>3. Resting(st') /\ st'.ee = st.ee
  BY <1>1, <1>2, ClearedFacts DEF Good
<1>4. Served(st) => Served(st')
  BY <1>3, RestingServed DEF Served
<1> QED BY <1>1, <1>3, <1>4 DEF Reset

\* Every step is one of these.
LEMMA StepKinds ==
    ASSUME Next, run = "up" => Ready, TypeInv
    PROVE  Boot \/ NullParser \/ Reset \/ \E func : Handled(func)
<1>1. CASE Boot \/ NullParser
  BY <1>1
<1>2. CASE PowerLoss
  BY <1>2, PowerLossResets
<1>3. ASSUME NEW a \in Addr, NEW func \in {"0x01", "0x04", "0x31", "0x3F", "0x21", "0x25"},
             Query(a, func)
      PROVE  Handled(func)
  BY <1>3, QueryHandled, AcceptedFacts DEF Query
<1>4. CASE \E a \in Addr :
         \/ func_yk_query_state(a) \/ func_yk_report_state(a)
         \/ func_avc_query_state(a) \/ func_avc_production_query(a)
         \/ func_cold_lock_query_all(a) \/ func_cold_lock_control(a)
  BY <1>3, <1>4 DEF func_yk_query_state, func_yk_report_state, func_avc_query_state,
     func_avc_production_query, func_cold_lock_query_all, func_cold_lock_control
<1>5. CASE \E a \in Addr : \E p \in {{"K0"}, {"K1"}}, o \in {0, 1} : func_yk_control(a, p, o)
  BY <1>5, YkControlHandled, AcceptedFacts DEF func_yk_control
<1>6. CASE \E a \in Addr : \E b \in Addr, n \in Sn : func_yk_modify_addr(a, b, n)
  BY <1>6, YkModifyHandled, AcceptedFacts DEF func_yk_modify_addr
<1>7. CASE \E a \in Addr : \E n \in Sn : func_yk_production_modify_sn(a, n)
  BY <1>7, YkSnHandled, AcceptedFacts DEF func_yk_production_modify_sn
<1>8. CASE \E a \in Addr : \E n \in Sn : func_avc_modify_sn(a, n)
  BY <1>8, AvcSnHandled, AcceptedFacts DEF func_avc_modify_sn
<1>9. CASE \E a \in Addr : \E w \in {OPEN, CLOSE} : func_avc_control_command(a, w)
  BY <1>9, CommandHandled, AcceptedFacts DEF func_avc_control_command
<1>10. CASE \E a \in Addr : \E w \in {OPEN, CLOSE} : func_avc_control_request(a, w)
  BY <1>10, RequestHandled, AcceptedFacts DEF func_avc_control_request
<1>11. CASE \E a \in Addr : \E b \in Addr, n \in Sn :
               func_avc_modify_device(a, AVC_SWITCH, b, n)
  <2>1. PICK a \in Addr, b \in Addr, n \in Sn : func_avc_modify_device(a, AVC_SWITCH, b, n)
    BY <1>11
  <2>2. run = "up"
    BY <2>1, AcceptedFacts DEF func_avc_modify_device
  <2> QED BY <2>1, <2>2, DeviceHandled
<1>12. CASE \E a \in Addr : \E v \in {0, 1} : func_cold_lock_modify_timeout(a, v, 1 - v)
  <2>1. PICK a \in Addr, v \in {0, 1} : func_cold_lock_modify_timeout(a, v, 1 - v)
    BY <1>12
  <2>2. 1 - v \in {0, 1}
    OBVIOUS
  <2>3. run = "up"
    BY <2>1, AcceptedFacts DEF func_cold_lock_modify_timeout
  <2> QED BY <2>1, <2>2, <2>3, TimeoutHandled
<1>13. CASE \E a \in Addr : \E b \in Addr, n \in Sn : func_cold_lock_modify_addr(a, b, n)
  BY <1>13, ColdAddrHandled, AcceptedFacts DEF func_cold_lock_modify_addr
<1>14. CASE \E a \in Addr : \E c \in {"0x27", "0x2F"} : func_cold_lock_stub(a, c)
  BY <1>14, StubHandled, AcceptedFacts DEF func_cold_lock_stub
<1> QED BY <1>1, <1>2, <1>4, <1>5, <1>6, <1>7, <1>8, <1>9, <1>10, <1>11, <1>12, <1>13, <1>14
        DEF Next

\* The invariant gives the handlers what they start from.
LEMMA DevReady ==
    ASSUME DevInv
    PROVE  run = "up" => Ready
<1>1. run = "up" => st.faults \in Nat
  BY StoreParts DEF DevInv, TypeInv, StoreOK, Good
<1> QED BY <1>1 DEF DevInv, Ready, Healed, Half

\* The EEPROM at first.
LEMMA InitStore ==
    ASSUME Init
    PROVE  Resting(st)
<1>1. PICK t \in InitTypes, a \in Addr, n \in Sn :
         st = [ee |-> [type |-> t, addr |-> a, sn |-> n, exec |-> 0, cmd |-> 0, relay |-> relay],
               ram |-> Blank, info |-> NoInfo, faults |-> 0]
  BY DEF Init
<1> DEFINE r == [type |-> t, addr |-> a, sn |-> n, exec |-> 0, cmd |-> 0, relay |-> relay]
<1>2. relay \in {0, 1} /\ t \in TypeByte
  BY DeviceAssumption DEF Init, OPEN, CLOSE
<1>3. /\ r["type"] = t /\ r["addr"] = a /\ r["sn"] = n /\ r["exec"] = 0 /\ r["cmd"] = 0
      /\ r["relay"] = relay
  OBVIOUS
<1>4. \A f \in Field : r[f] \in Domain(f)
  BY <1>2, <1>3, DomainParts
<1>5. r \in Records
  <2>1. r = [f \in Field |-> r[f]]
    BY DEF Field
  <2> HIDE DEF r
  <2> QED BY <1>4, <2>1, DomainAny DEF Records
<1>6. GoodRecord(r)
  BY <1>4, <1>5 DEF GoodRecord
<1> HIDE DEF r
<1>7. Blank \in Records /\ NoInfo \in Infos
  BY DEF Blank, Records, AnyValue, NoInfo, Infos, DEVICE_TYPE_MAX
<1>8. /\ st \in Stores /\ st.ee = r /\ st.ram = Blank /\ st.info = NoInfo /\ st.faults = 0
  <2>1. st = [ee |-> r, ram |-> Blank, info |-> NoInfo, faults |-> 0]
    BY <1>1 DEF r
  <2> QED BY <1>5, <1>7, <2>1 DEF Stores
<1> QED BY <1>6, <1>8 DEF Resting

\* The initial states.
LEMMA InitialFacts ==
    ASSUME Init
    PROVE  TypeInv /\ run = "off" /\ set = {} /\ coil = FALSE /\ last = NoCommand
<1>1. /\ run = "off" /\ set = {} /\ coil = FALSE /\ last = NoCommand /\ relay \in {OPEN, CLOSE}
      /\ filter = [addr |-> 0, any |-> FALSE]
      /\ avc_state = [is_action |-> FALSE, is_set |-> FALSE, is_save |-> FALSE]
  BY DEF Init
<1>2. filter \in [addr : Addr \cup {0}, any : BOOLEAN] /\ avc_state \in AvcState
  BY <1>1 DEF AvcState
<1> QED BY <1>1, <1>2, InitStore DEF TypeInv, StoreOK

\* The invariant holds initially,
LEMMA DevInit == Init => DevInv
<1> SUFFICES ASSUME Init PROVE DevInv
  OBVIOUS
<1>1. TypeInv /\ run = "off" /\ set = {} /\ coil = FALSE /\ last = NoCommand
  BY InitialFacts
<1>2. last.func # "0x35" /\ last.sent = {} /\ last.acked = {}
  BY <1>1, OffCommand
<1>3. RepliesTrue /\ CommandHonest /\ CommandObeyed
  BY <1>2 DEF RepliesTrue, CommandHonest, CommandObeyed
<1> QED BY <1>1, <1>3 DEF DevInv, CoilOff

\* every step keeps it,
LEMMA DevStep == DevInv /\ [Next]_vars => DevInv'
<1> SUFFICES ASSUME DevInv, [Next]_vars PROVE DevInv'
  OBVIOUS
<1>1. CASE Next
  <2>1. Boot \/ NullParser \/ Reset \/ \E func : Handled(func)
    BY <1>1, DevReady, StepKinds DEF DevInv
  <2> QED BY <2>1, BootKeeps, NullKeeps, ResetKeeps, HandledKeeps
<1>2. CASE UNCHANGED vars
  BY <1>2 DEF vars, DevInv, TypeInv, StoreOK, CoilOff, RepliesTrue, Shown, CommandHonest,
              CommandObeyed
<1> QED BY <1>1, <1>2

\* and so it always holds.
LEMMA DevInductive == Spec => []DevInv
BY DevInit, DevStep, PTL DEF Spec
-----------------------------------------------------------------------------
(***************************************************************************)
(* The theorems.                                                            *)
(***************************************************************************)
\* Every variable of the device has a value of its C type, whatever transfers
\* fail and whatever frames come: the address, number and type of lock->info too.
THEOREM DeviceTypeCorrect == Spec => []TypeOK
<1>1. TypeInv => TypeOK
  <2> SUFFICES ASSUME TypeInv PROVE TypeOK
    OBVIOUS
  <2>1. /\ st \in Stores /\ GoodRecord(st.ee) /\ (st.ram = Blank \/ GoodRecord(st.ram))
        /\ st.faults <= MaxFaults /\ run \in {"off", "up", "hung"}
    BY DeviceAssumption DEF TypeInv, StoreOK, Resting, Good
  <2>2. \A f \in Field : st.ee[f] \in Domain(f) /\ st.ram[f] \in Domain(f) \cup {0}
    BY <2>1 DEF GoodRecord, Blank
  <2>3. st.info \in Infos /\ st.faults \in 0..MaxFaults
    BY <2>1, StoreParts, DeviceAssumption
  <2> QED BY <2>1, <2>2, <2>3 DEF TypeOK, TypeInv, Infos, AvcState
<1> QED BY <1>1, DevInductive, PTL DEF DevInv

\* After any number of failed transfers, a change that a reply reports as made is
\* in the EEPROM; and where none of the command's own transfers failed, so is
\* every value that the reply gives.
THEOREM RepliesAreTrue == Spec => []RepliesTrue
BY DevInductive, PTL DEF DevInv

\* The result in the reply to 0x35 is honest about the relay and the EEPROM.
THEOREM CommandsHonest == Spec => []CommandHonest
BY DevInductive, PTL DEF DevInv

\* A command 0x35 after which nothing has failed since boot has moved the relay and
\* saved that.
THEOREM CommandsObeyed == Spec => []CommandObeyed
BY DevInductive, PTL DEF DevInv

\* Between commands the copy in RAM differs from the EEPROM only after two faults.
THEOREM FaultHeals == Spec => []SingleFaultHeals
<1>1. DevInv => SingleFaultHeals
  BY DEF DevInv, SingleFaultHeals, Healed
<1> QED BY <1>1, DevInductive, PTL

\* A command that starts from a copy that agrees with the EEPROM changes no field
\* but those that it names, whatever fails on the way.
THEOREM NamedFieldsOnly == Spec => OnlyNamedFields
<1> DEFINE A == st.ram = st.ee =>
                   \A f \in Field : st.ee[f]' # st.ee[f] => f \in Named(last'.func)
<1>1. DevInv /\ [Next]_vars => [A]_vars
  <2> SUFFICES ASSUME DevInv, Next, st.ram = st.ee, NEW f \in Field,
                      f \notin Named(last'.func)
               PROVE  st'.ee[f] = st.ee[f]
    OBVIOUS
  <2>1. Boot \/ NullParser \/ Reset \/ \E func : Handled(func)
    BY DevReady, StepKinds DEF DevInv
  <2>2. CASE Boot
    BY <2>2, BootFacts DEF DevInv
  <2>3. CASE NullParser
    BY <2>3 DEF NullParser
  <2>4. CASE Reset
    BY <2>4 DEF Reset
  <2>5. CASE \E func : Handled(func)
    <3>1. PICK func : Handled(func)
      BY <2>5
    <3>2. After(st, st', Named(func)) /\ last'.func = func
      BY <3>1 DEF Handled
    <3> QED BY <3>2 DEF After, Kept
  <2> QED BY <2>1, <2>2, <2>3, <2>4, <2>5
<1>2. Spec => [][A]_vars
  BY <1>1, DevInductive, PTL DEF Spec
<1> QED BY <1>2 DEF OnlyNamedFields
-----------------------------------------------------------------------------
(***************************************************************************)
(* Redelivery: frames may be handled twice and the shell may interfere.     *)
(***************************************************************************)
\* The table fits the type in the EEPROM, or it has the codes that change types.
TableFits ==
    run = "up" /\ st.faults = 0 /\ touched = {} =>
        \/ set = protocol_init(get_device(st.ee["type"]))
        \/ set \in {yk_codes, avc_codes}

Reaches ==
    /\ set = cold_codes => filter.any
    /\ AddressReachable /\ ParserBound /\ TableFits

RInv ==
    /\ TypeInv
    /\ run = "up" => Half(st)
    /\ msg \in Frames \cup {NoMsg}
    /\ Reaches

(***************************************************************************)
(* What one delivery leaves, if nothing has failed since boot: a function   *)
(* of the frame and of what was there, and applying it twice is the same as *)
(* applying it once.                                                        *)
(***************************************************************************)
\* The EEPROM r after a delivery of m that found e and did not restart.
Leaves(m, e, r) ==
    /\ \A f \in Field \ Named(m.func) : r[f] = e[f]
    /\ m.func = "0x03" => r["addr"] = e["addr"]
    /\ m.func = "0x07" => r["sn"] = m.sn /\ r["type"] = Typed(e["type"], YK_LOCK)
    /\ m.func = "0x37" => r["sn"] = m.sn /\ r["type"] = Typed(e["type"], AVC_SWITCH)
    /\ m.func = "0x35" => r["relay"] = m.want
    /\ m.func = "0x32" => r["relay"] = CLOSE
    /\ m.func = "0x33" => IF e["sn"] = HeaderSn
                          THEN r["type"] = YK_LOCK /\ r["addr"] = m.addr
                          ELSE r["type"] = e["type"] /\ r["addr"] = e["addr"]
    /\ m.func = "0x2A" => r["exec"] = m.exec /\ r["cmd"] = m.cmd
    /\ m.func = "0x23" => r["addr"] = IF e["sn"] = m.sn THEN m.new ELSE e["addr"]

\* The position q of the relay after a delivery of m that found p, coil off.
Puts(m, p, q) ==
    /\ m.func = "0x02" => q = IF "K0" \in m.port
                              THEN (IF m.opt = 0 THEN CLOSE ELSE OPEN) ELSE p
    /\ m.func = "0x35" => q = m.want
    /\ m.func = "0x32" => q = CLOSE
    /\ m.func \notin {"0x02", "0x35", "0x32"} => q = p

\* The frame in msg_buff has had its effect already.
Settled ==
    msg # NoMsg /\ ~disturbed /\ st.faults = 0 =>
        Leaves(msg, st.ee, st.ee) /\ (coil \/ Puts(msg, relay, relay))

\* The arguments of a frame have their types.
LEMMA FrameFacts ==
    ASSUME NEW m \in Frames
    PROVE  /\ m.addr \in Addr
           /\ m.func \in {"0x03", "0x23", "0x33"} => m.new \in Addr
           /\ m.func \in {"0x07", "0x37"} => m.sn \in Sn
           /\ m.func \in {"0x35", "0x32"} => m.want \in {OPEN, CLOSE}
           /\ m.func = "0x2A" => m.exec \in {0, 1} /\ m.cmd \in {0, 1}
BY DEF Frames

\* What a delivery of m has done, if it did not restart the device.
Delivered(m) ==
    /\ Handled(m.func)
    /\ st'.faults = 0 => Leaves(m, st.ee, st'.ee) /\ (coil \/ Puts(m, relay, relay'))

\* The fields that a command does not name are as before.
LEMMA OthersLeft ==
    ASSUME Ready, NEW func, Handled(func), st'.faults = 0
    PROVE  \A f \in Field \ Named(func) : st'.ee[f] = st.ee[f]
<1>1. st.faults \in Nat /\ After(st, st', Named(func)) /\ Half(st)
  BY ReadyFacts DEF Handled
<1>2. st.faults = 0 /\ st.ram = st.ee
  BY <1>1, ReadyFacts, StoreParts DEF After, Good, Half
<1> QED BY <1>1, <1>2 DEF After, Kept

\* A delivery, the first or the second, restarts the device or does this.
LEMMA DeliveryKinds ==
    ASSUME RInv, NEW m \in Frames, protocol_handler(m)
    PROVE  Reset \/ Delivered(m)
<1>r. run = "up" => Ready
  BY DEF RInv, Ready
<1>o. ASSUME run = "up", Handled(m.func), st'.faults = 0
      PROVE  \A f \in Field \ Named(m.func) : st'.ee[f] = st.ee[f]
  BY <1>r, <1>o, OthersLeft
<1>1. ASSUME m.func \in {"0x01", "0x04", "0x31", "0x3F", "0x21", "0x25"},
             Query(m.addr, m.func)
      PROVE  Delivered(m)
  <2>1. run = "up" /\ Handled(m.func) /\ relay' = relay
    BY <1>r, <1>1, QueryHandled, AcceptedFacts DEF Query
  <2> QED BY <1>1, <1>o, <2>1 DEF Delivered, Leaves, Puts
<1>2. CASE \/ m.func = "0x01" /\ func_yk_query_state(m.addr)
           \/ m.func = "0x04" /\ func_yk_report_state(m.addr)
           \/ m.func = "0x31" /\ func_avc_query_state(m.addr)
           \/ m.func = "0x3F" /\ func_avc_production_query(m.addr)
           \/ m.func = "0x21" /\ func_cold_lock_query_all(m.addr)
           \/ m.func = "0x25" /\ func_cold_lock_control(m.addr)
  BY <1>1, <1>2 DEF func_yk_query_state, func_yk_report_state, func_avc_query_state,
     func_avc_production_query, func_cold_lock_query_all, func_cold_lock_control
<1>3. CASE m.func = "0x02" /\ func_yk_control(m.addr, m.port, m.opt)
  <2>1. run = "up"
    BY <1>3, AcceptedFacts DEF func_yk_control
  <2>2. /\ Handled(m.func)
        /\ ~coil /\ st'.faults = 0 =>
              relay' = IF "K0" \in m.port
                       THEN (IF m.opt = 0 THEN CLOSE ELSE OPEN) ELSE relay
    BY <1>r, <1>3, <2>1, YkControlHandled
  <2> QED BY <1>3, <1>o, <2>1, <2>2 DEF Delivered, Leaves, Puts
<1>4. CASE m.func = "0x03" /\ func_yk_modify_addr(m.addr, m.new, m.sn)
  <2>1. m.new \in Addr /\ run = "up"
    BY <1>4, FrameFacts, AcceptedFacts DEF func_yk_modify_addr
  <2>2. (Handled(m.func) /\ st'.ee = st.ee /\ relay' = relay) \/ Reset
    BY <1>r, <1>4, <2>1, YkModifyHandled
  <2> QED BY <1>4, <1>o, <2>1, <2>2 DEF Delivered, Leaves, Puts
<1>5. CASE m.func = "0x07" /\ func_yk_production_modify_sn(m.addr, m.sn)
  <2>1. m.sn \in Sn /\ run = "up"
    BY <1>5, FrameFacts, AcceptedFacts DEF func_yk_production_modify_sn
  <2>2. /\ Handled(m.func) /\ relay' = relay
        /\ st'.faults = 0 => /\ st'.ee["sn"] = m.sn
                             /\ st'.ee["type"] = Typed(st.ee["type"], YK_LOCK)
    BY <1>r, <1>5, <2>1, YkSnHandled
  <2> QED BY <1>5, <1>o, <2>1, <2>2 DEF Delivered, Leaves, Puts
<1>6. CASE m.func = "0x35" /\ func_avc_control_command(m.addr, m.want)
  <2>1. m.want \in {OPEN, CLOSE} /\ run = "up"
    BY <1>6, FrameFacts, AcceptedFacts DEF func_avc_control_command
  <2>2. /\ Handled(m.func)
        /\ st'.faults = 0 => /\ st'.ee["relay"] = m.want
                             /\ coil \/ relay' = m.want
    BY <1>r, <1>6, <2>1, CommandHandled
  <2> QED BY <1>6, <1>o, <2>1, <2>2 DEF Delivered, Leaves, Puts
<1>7. CASE m.func = "0x32" /\ func_avc_control_request(m.addr, m.want)
  <2>1. m.want \in {OPEN, CLOSE} /\ run = "up"
    BY <1>7, FrameFacts, AcceptedFacts DEF func_avc_control_request
  <2>2. /\ Handled(m.func)
        /\ st'.faults = 0 => /\ st'.ee["relay"] = CLOSE
                             /\ coil \/ relay' = CLOSE
    BY <1>r, <1>7, <2>1, RequestHandled
  <2> QED BY <1>7, <1>o, <2>1, <2>2 DEF Delivered, Leaves, Puts
<1>8. CASE m.func = "0x33" /\ func_avc_modify_device(m.addr, AVC_SWITCH, m.new, m.sn)
  <2>1. m.addr \in Addr /\ run = "up"
    BY <1>8, FrameFacts, AcceptedFacts DEF func_avc_modify_device
  <2>2. /\ Handled(m.func) /\ relay' = relay
        /\ st'.faults = 0 => IF st.ee["sn"] = HeaderSn
                             THEN st'.ee["type"] = YK_LOCK /\ st'.ee["addr"] = m.addr
                             ELSE st'.ee = st.ee
    BY <1>r, <1>8, <2>1, DeviceHandled
  <2> QED BY <1>8, <1>o, <2>1, <2>2 DEF Delivered, Leaves, Puts
<1>9. CASE m.func = "0x37" /\ func_avc_modify_sn(m.addr, m.sn)
  <2>1. m.sn \in Sn /\ run = "up"
    BY <1>9, FrameFacts, AcceptedFacts DEF func_avc_modify_sn
  <2>2. /\ Handled(m.func) /\ relay' = relay
        /\ st'.faults = 0 => /\ st'.ee["sn"] = m.sn
                             /\ st'.ee["type"] = Typed(st.ee["type"], AVC_SWITCH)
    BY <1>r, <1>9, <2>1, AvcSnHandled
  <2> QED BY <1>9, <1>o, <2>1, <2>2 DEF Delivered, Leaves, Puts
<1>10. CASE m.func = "0x2A" /\ func_cold_lock_modify_timeout(m.addr, m.exec, m.cmd)
  <2>1. m.exec \in {0, 1} /\ m.cmd \in {0, 1} /\ run = "up"
    BY <1>10, FrameFacts, AcceptedFacts DEF func_cold_lock_modify_timeout
  <2>2. /\ Handled(m.func) /\ relay' = relay
        /\ st'.faults = 0 => st'.ee["exec"] = m.exec /\ st'.ee["cmd"] = m.cmd
    BY <1>r, <1>10, <2>1, TimeoutHandled
  <2> QED BY <1>10, <1>o, <2>1, <2>2 DEF Delivered, Leaves, Puts
<1>11. CASE m.func = "0x23" /\ func_cold_lock_modify_addr(m.addr, m.new, m.sn)
  <2>1. m.new \in Addr /\ run = "up"
    BY <1>11, FrameFacts, AcceptedFacts DEF func_cold_lock_modify_addr
  <2>2. /\ Handled(m.func) /\ relay' = relay
        /\ st'.faults = 0 =>
              st'.ee["addr"] = IF st.ee["sn"] = m.sn THEN m.new ELSE st.ee["addr"]
    BY <1>r, <1>11, <2>1, ColdAddrHandled
  <2> QED BY <1>11, <1>o, <2>1, <2>2 DEF Delivered, Leaves, Puts
<1>12. CASE func_cold_lock_stub(m.addr, m.func)
  <2>1. run = "up"
    BY <1>12, AcceptedFacts DEF func_cold_lock_stub
  <2>2. m.func \in {"0x27", "0x2F"} /\ Handled(m.func) /\ relay' = relay
    BY <1>r, <1>12, <2>1, StubHandled
  <2> QED BY <1>o, <2>1, <2>2 DEF Delivered, Leaves, Puts
<1> QED BY <1>2, <1>3, <1>4, <1>5, <1>6, <1>7, <1>8, <1>9, <1>10, <1>11, <1>12
        DEF protocol_handler

\* A handler leaves the device within reach: the address and the type that it may
\* have stored are those that the filter and the table allow for.
LEMMA HandledReaches ==
    ASSUME RInv, NEW m \in Frames, Delivered(m), touched' = touched
    PROVE  Reaches'
<1>1. /\ run = "up" /\ run' = "up" /\ m.func \in set /\ set' = set /\ filter' = filter
      /\ Handled(m.func) /\ Ready
  BY DEF Delivered, Handled, RInv, Ready
<1>2. ASSUME st'.faults = 0
      PROVE  /\ st.faults = 0 /\ st.ram = st.ee /\ Leaves(m, st.ee, st'.ee)
             /\ "type" \notin Named(m.func) => st'.ee["type"] = st.ee["type"]
  <2>1. st.faults \in Nat /\ After(st, st', Named(m.func)) /\ Half(st) /\ st'.faults \in Nat
    BY <1>1, ReadyFacts, StoreParts DEF Handled, After, Good
  <2>2. st.faults = 0 /\ st.ram = st.ee
    BY <1>2, <2>1 DEF After, Half
  <2>3. Leaves(m, st.ee, st'.ee)
    BY <1>2 DEF Delivered
  <2> QED BY <2>2, <2>3, DomainParts DEF Leaves
<1>3. set' = cold_codes => filter'.any
  BY <1>1 DEF RInv, Reaches
<1>4. /\ "0x23" \in set => set = cold_codes
      /\ {"0x07", "0x37", "0x33"} \cap set # {} => set \in {yk_codes, avc_codes}
  BY Codes DEF RInv, TypeInv
<1>5. AddressReachable'
  <2> SUFFICES ASSUME st'.faults = 0, "addr" \notin touched
               PROVE  filter.any \/ filter.addr = st'.ee.addr
    BY <1>1 DEF AddressReachable
  <2>1. filter.any \/ filter.addr = st.ee.addr
    BY <1>1, <1>2 DEF RInv, Reaches, AddressReachable
  <2>2. \/ st'.ee["addr"] = st.ee["addr"] \/ m.func = "0x23"
        \/ filter.any \/ st'.ee["addr"] = filter.addr
    BY <1>1, <1>2 DEF Handled, Reached
  <2>3. m.func = "0x23" => filter.any
    BY <1>1, <1>4 DEF RInv, Reaches
  <2> QED BY <2>1, <2>2, <2>3
<1>6. ParserBound'
  <2> SUFFICES ASSUME st'.faults = 0, "type" \notin touched
               PROVE  set # {} /\ st'.ee["type"] # DEVICE_TYPE_MAX
    BY <1>1 DEF ParserBound
  <2>1. set # {} /\ st.ee["type"] # DEVICE_TYPE_MAX
    BY <1>1, <1>2 DEF RInv, Reaches, ParserBound
  <2>2. CASE "type" \notin Named(m.func)
    BY <1>2, <2>1, <2>2
  <2>3. CASE "type" \in Named(m.func)
    <3>1. m.func \in {"0x07", "0x37", "0x33"}
      BY <2>3, NamedValues
    <3> QED BY <1>2, <2>1, <3>1 DEF Leaves, Typed, YK_LOCK, AVC_SWITCH, DEVICE_TYPE_MAX
  <2> QED BY <2>1, <2>2, <2>3
<1>7. TableFits'
  <2> SUFFICES ASSUME st'.faults = 0, touched = {}
               PROVE  \/ set = protocol_init(get_device(st'.ee["type"]))
                      \/ set \in {yk_codes, avc_codes}
    BY <1>1 DEF TableFits
  <2>1. CASE "type" \notin Named(m.func)
    BY <1>1, <1>2, <2>1 DEF RInv, Reaches, TableFits
  <2>2. CASE "type" \in Named(m.func)
    <3>1. m.func \in {"0x07", "0x37", "0x33"}
      BY <2>2, NamedValues
    <3> QED BY <1>1, <1>4, <3>1
  <2> QED BY <2>1, <2>2
<1> QED BY <1>3, <1>5, <1>6, <1>7 DEF Reaches

\* There is nothing to reach in a device that is off.
LEMMA ResetReaches ==
    ASSUME Reset
    PROVE  Reaches' /\ run' = "off"
<1>1. run' = "off" /\ set' = {}
  BY DEF Reset, PowerDown
<1>2. {} # cold_codes
  BY DEF cold_codes
<1> QED BY <1>1, <1>2 DEF Reaches, AddressReachable, ParserBound, TableFits

\* A delivery keeps the invariant.
LEMMA DeliverKeeps ==
    ASSUME RInv, NEW m \in Frames, Deliver(m)
    PROVE  RInv' /\ (Served(st) => Served(st'))
<1>1. Reset \/ Delivered(m)
  BY DeliveryKinds DEF Deliver
<1>2. msg' \in Frames \cup {NoMsg}
  BY DEF Deliver
<1>3. CASE Reset
  <2>1. TypeInv' /\ run' = "off" /\ Reaches'
    BY <1>3, ResetTypes, ResetReaches DEF RInv
  <2> QED BY <1>2, <1>3, <2>1 DEF RInv, Reset
<1>4. CASE Delivered(m)
  <2>1. Handled(m.func) /\ run' = "up"
    BY <1>4 DEF Delivered, Handled
  <2>2. touched' = touched
    BY <2>1 DEF Deliver
  <2>3. TypeInv' /\ Reaches'
    BY <1>4, <2>1, <2>2, HandledTypes, HandledReaches DEF RInv
  <2> QED BY <1>2, <2>1, <2>3 DEF RInv, Handled, After
<1> QED BY <1>1, <1>3, <1>4

\* So does a command of the shell, which leaves the copy of a failed write unhealed.
LEMMA ShellKeeps ==
    ASSUME RInv, NEW f \in {"type", "addr", "sn"}, NEW v \in Domain(f), cmd_modify(f, v)
    PROVE  RInv' /\ (Served(st) => Served(st'))
<1>1. PICK m \in config_modify(st, f, v) : st' = m.s
  BY DEF cmd_modify
<1>2. /\ run = "up" /\ (f = "type" => v \in YK_LOCK..AVC_SWITCH)
      /\ UNCHANGED <<run, set, filter, relay, coil, avc_state>> /\ msg' = msg
      /\ touched' = touched \cup ({f} \ {"sn"})
  BY DEF cmd_modify, Unmoved
<1>3. f = "type" => v # DEVICE_TYPE_MAX
  BY <1>2 DEF YK_LOCK, AVC_SWITCH, DEVICE_TYPE_MAX
<1>4. f \in Field /\ Good(st)
  BY <1>2, DomainParts DEF RInv, TypeInv, StoreOK
<1>5. After(st, m.s, {f}) /\ Half(m.s)
  BY <1>1, <1>3, <1>4, ModifyFacts
<1>6. TypeInv'
  BY <1>1, <1>2, <1>5 DEF RInv, TypeInv, StoreOK, After
<1>7. ASSUME st'.faults = 0
      PROVE  st.faults = 0 /\ \A g \in Field : g # f => st'.ee[g] = st.ee[g]
  <2>1. st.faults \in Nat /\ st'.faults \in Nat /\ Half(st)
    BY <1>1, <1>2, <1>4, <1>5, StoreParts DEF After, Good, RInv
  <2>2. st.faults = 0 /\ st.ram = st.ee
    BY <1>1, <1>5, <1>7, <2>1 DEF After, Half
  <2> QED BY <1>1, <1>5, <2>2 DEF After, Kept
<1>8. Reaches'
  <2>1. AddressReachable'
    BY <1>2, <1>7, DomainParts DEF RInv, Reaches, AddressReachable
  <2>2. ParserBound'
    BY <1>2, <1>7, DomainParts DEF RInv, Reaches, ParserBound
  <2>3. TableFits'
    <3> SUFFICES ASSUME st'.faults = 0, touched' = {}
                 PROVE  \/ set = protocol_init(get_device(st'.ee["type"]))
                        \/ set \in {yk_codes, avc_codes}
      BY <1>2 DEF TableFits
    <3>1. touched = {} /\ f = "sn"
      BY <1>2
    <3>2. st.faults = 0 /\ st'.ee["type"] = st.ee["type"]
      BY <1>7, <3>1, DomainParts
    <3> QED BY <1>2, <3>1, <3>2 DEF RInv, Reaches, TableFits
  <2> QED BY <1>2, <2>1, <2>2, <2>3 DEF RInv, Reaches
<1> QED BY <1>1, <1>2, <1>5, <1>6, <1>8 DEF RInv, After

\* The pulses of the shell do not touch the configuration.
LEMMA RelayKeeps ==
    ASSUME RInv, NEW state \in {OPEN, CLOSE}, test_realy(state)
    PROVE  RInv' /\ (Served(st) => Served(st'))
<1>1. PICK p \in Pulse(st, relay, state) : st' = p.s /\ relay' = p.pos
  BY DEF test_realy
<1>2. /\ run = "up" /\ UNCHANGED <<run, set, filter, avc_state, msg, touched>>
      /\ coil' = (coil /\ state = OPEN)
  BY DEF test_realy
<1>3. Good(st) /\ relay \in {OPEN, CLOSE} /\ Half(st)
  BY <1>2 DEF RInv, TypeInv, StoreOK
<1>4. /\ After(st, p.s, {}) /\ p.s.ee = st.ee /\ p.pos \in {OPEN, CLOSE}
      /\ Half(st) => Half(p.s)
  BY <1>1, <1>3, PulseFacts
<1>5. TypeInv'
  <2>1. coil' \in BOOLEAN
    BY <1>2
  <2> QED BY <1>1, <1>2, <1>4, <2>1 DEF RInv, TypeInv, StoreOK, After
<1>6. st'.faults = 0 => st.faults = 0
  BY <1>1, <1>3, <1>4, StoreParts DEF After, Good
<1>7. Reaches'
  BY <1>1, <1>2, <1>4, <1>6 DEF RInv, Reaches, AddressReachable, ParserBound, TableFits
<1> QED BY <1>1, <1>2, <1>3, <1>4, <1>5, <1>7 DEF RInv, After

\* A boot sets filter and table by the EEPROM; switching off needs neither.
LEMMA RestartKeeps ==
    ASSUME RInv, Restart
    PROVE  RInv' /\ (Served(st) => Served(st'))
<1>1. msg' = NoMsg /\ touched' = {} /\ (Boot \/ PowerLoss)
  BY DEF Restart
<1>2. CASE Boot
  <2>1. TypeInv' /\ run' = "up" /\ Healed(st')
    BY <1>2, BootTypes DEF RInv
  <2>2. /\ st'.ee = st.ee /\ (set' = cold_codes => filter'.any)
        /\ st'.faults = 0 => /\ filter'.addr = st'.ee["addr"]
                             /\ set' = protocol_init(get_device(st'.ee["type"]))
                             /\ set' = {} <=> st'.ee["type"] = DEVICE_TYPE_MAX
        /\ st'.ee["type"] # DEVICE_TYPE_MAX => Served(st')
    BY <1>2, BootFacts DEF RInv
  <2>3. st'.faults \in Nat
    BY <2>1, StoreParts DEF TypeInv, StoreOK, Good
  <2>4. Reaches'
    BY <2>2 DEF Reaches, AddressReachable, ParserBound, TableFits
  <2>5. Half(st')
    BY <2>1, <2>3 DEF Healed, Half
  <2> QED BY <1>1, <2>1, <2>2, <2>4, <2>5 DEF RInv, Served
<1>3. CASE PowerLoss
  <2>1. Reset
    BY <1>3, PowerLossResets DEF RInv
  <2>2. TypeInv' /\ run' = "off" /\ Reaches'
    BY <2>1, ResetTypes, ResetReaches DEF RInv
  <2> QED BY <1>1, <2>1, <2>2 DEF RInv, Reset
<1> QED BY <1>1, <1>2, <1>3

\* The call of a NULL parser.
LEMMA HangKeeps ==
    ASSUME RInv, Hang
    PROVE  RInv' /\ (Served(st) => Served(st'))
<1>1. /\ TypeInv' /\ run = "up" /\ run' = "hung" /\ UNCHANGED <<st, set, filter, coil, last, relay>>
      /\ UNCHANGED <<msg, touched>>
  BY NullTypes DEF RInv, Hang
<1>2. Reaches'
  BY <1>1 DEF RInv, Reaches, AddressReachable, ParserBound, TableFits
<1> QED BY <1>1, <1>2 DEF RInv

\* The invariant holds initially,
LEMMA RInvInit == RInit => RInv
<1> SUFFICES ASSUME RInit PROVE RInv
  OBVIOUS
<1>1. TypeInv /\ run = "off" /\ set = {} /\ msg = NoMsg
  BY InitialFacts DEF RInit
<1>2. Reaches
  BY <1>1 DEF Reaches, AddressReachable, ParserBound, TableFits, cold_codes
<1> QED BY <1>1, <1>2 DEF RInv

\* and every step keeps it, and the type one that is served.
LEMMA RStep ==
    ASSUME RInv, [RNext]_rvars
    PROVE  RInv' /\ (Served(st) => Served(st'))
<1>1. CASE \E m \in Frames : Deliver(m)
  BY <1>1, DeliverKeeps
<1>2. CASE DeliverAgain
  <2>1. msg \in Frames /\ Deliver(msg)
    BY <1>2 DEF DeliverAgain, RInv
  <2> QED BY <2>1, DeliverKeeps
<1>3. CASE Restart
  BY <1>3, RestartKeeps
<1>4. CASE \E f \in {"type", "addr", "sn"} : \E v \in Domain(f) : cmd_modify(f, v)
  BY <1>4, ShellKeeps
<1>5. CASE \E state \in {OPEN, CLOSE} : test_realy(state)
  BY <1>5, RelayKeeps
<1>6. CASE Hang
  BY <1>6, HangKeeps
<1>7. CASE UNCHANGED rvars
  BY <1>7 DEF rvars, vars, RInv, TypeInv, StoreOK, Reaches, AddressReachable, ParserBound,
              TableFits
<1> QED BY <1>1, <1>2, <1>3, <1>4, <1>5, <1>6, <1>7 DEF RNext

\* So it always holds.
LEMMA RInductive == RSpec => []RInv
<1>1. RInv /\ [RNext]_rvars => RInv'
  BY RStep
<1> QED BY <1>1, RInvInit, PTL DEF RSpec

\* Neither the master, however often its frames are handled, nor the shell, nor a
\* failed transfer puts into the EEPROM a type that the next boot has no parser for.
THEOREM AlwaysBootable == RSpec => Bootable
<1> DEFINE A == st.ee.type # DEVICE_TYPE_MAX /\ st.ram.type # DEVICE_TYPE_MAX =>
                   st.ee.type' # DEVICE_TYPE_MAX /\ st.ram.type' # DEVICE_TYPE_MAX
<1>1. RInv /\ [RNext]_rvars => [A]_rvars
  BY RStep DEF Served
<1>2. RSpec => [][A]_rvars
  BY <1>1, RInductive, PTL DEF RSpec
<1> QED BY <1>2 DEF Bootable

\* Without faults, and whatever the shell does but change the type, the parser is
\* NULL exactly if the EEPROM holds the type that get_device wrongly lets through.
THEOREM ParserIsBound == RSpec => []ParserBound
<1>1. RInv => ParserBound
  BY DEF RInv, Reaches
<1> QED BY <1>1, RInductive, PTL

\* Without faults, and unless the shell has changed the configuration since boot,
\* the device answers at the address in its EEPROM, and a type changed under the
\* old table can be changed again: for any addresses, numbers and types, and
\* however often each frame is handled.
THEOREM DeviceIsReachable == RSpec => []Reachable
<1>1. RInv => AddressReachable
  BY DEF RInv, Reaches
<1>2. RInv => TypeReachable
  <2> SUFFICES ASSUME RInv, run = "up", st.faults = 0, touched = {},
                      set # protocol_init(get_device(st.ee["type"])),
                      NEW func \in {"0x07", "0x37"}
               PROVE  Accepted(st.ee.addr, func)
    BY DEF TypeReachable
  <2>1. set \in {yk_codes, avc_codes}
    BY DEF RInv, Reaches, TableFits
  <2>2. func \in set /\ set # {}
    BY <2>1, Codes DEF RInv, TypeInv
  <2>3. filter.any \/ st.ee.addr = filter.addr
    BY DEF RInv, Reaches, AddressReachable
  <2>4. PassesFilter(3, st.ee.addr) /\ protocol_parser(3, func)
    BY <2>2, <2>3 DEF PassesFilter, protocol_parser
  <2> QED BY <2>2, <2>4 DEF Accepted
<1>3. RInv => Reachable
  BY <1>1, <1>2 DEF Reachable
<1> QED BY <1>3, RInductive, PTL

\* What a delivery leaves is determined by the frame and what it finds,
LEMMA LeavesOne ==
    ASSUME NEW m \in Frames, NEW e, NEW r, NEW q, Leaves(m, e, r), Leaves(m, e, q),
           GoodRecord(r), GoodRecord(q)
    PROVE  r = q
<1>1. \A f \in Field \ Named(m.func) : r[f] = q[f]
  BY DEF Leaves
<1>2. \A f \in Named(m.func) : r[f] = q[f]
  <2>1. CASE m.func \in {"0x03", "0x23"}
    BY <2>1, NamedValues DEF Leaves
  <2>2. CASE m.func \in {"0x07", "0x37"}
    BY <2>2, NamedValues DEF Leaves
  <2>3. CASE m.func \in {"0x32", "0x35"}
    BY <2>3, NamedValues DEF Leaves
  <2>4. CASE m.func = "0x33"
    BY <2>4, NamedValues DEF Leaves
  <2>5. CASE m.func = "0x2A"
    BY <2>5, NamedValues DEF Leaves
  <2>6. CASE m.func \notin {"0x03", "0x23", "0x07", "0x37", "0x32", "0x35", "0x33", "0x2A"}
    BY <2>6, NamedValues
  <2> QED BY <2>1, <2>2, <2>3, <2>4, <2>5, <2>6
<1> QED BY <1>1, <1>2, SameRecord

\* and the same frame leaves that as it is:
LEMMA LeavesTwice ==
    ASSUME NEW m \in Frames, NEW e, NEW r, Leaves(m, e, r)
    PROVE  Leaves(m, r, r)
<1>1. /\ m.func = "0x07" => r["type"] = Typed(r["type"], YK_LOCK)
      /\ m.func = "0x37" => r["type"] = Typed(r["type"], AVC_SWITCH)
  BY DEF Leaves, Typed, get_device, YK_LOCK, AVC_SWITCH, DEVICE_TYPE_MAX
<1>2. m.func \in {"0x33", "0x23"} => r["sn"] = e["sn"]
  BY NamedValues, DomainParts DEF Leaves
<1> QED BY <1>1, <1>2 DEF Leaves

\* likewise the relay, also after the two operations of 0x32.
LEMMA PutsTwice ==
    ASSUME NEW m \in Frames, NEW p, NEW q, Puts(m, p, q)
    PROVE  Puts(m, q, q)
BY DEF Puts

\* Where a delivery puts the relay is determined as well.
LEMMA PutsOne ==
    ASSUME NEW m, NEW p, NEW q, NEW r, Puts(m, p, q), Puts(m, p, r)
    PROVE  q = r
BY DEF Puts

\* A delivery that did not restart the device and came before any fault.
LEMMA DeliveryEffect ==
    ASSUME RInv, NEW m \in Frames, Deliver(m), run' = "up", st'.faults = 0
    PROVE  /\ st.faults = 0 /\ Leaves(m, st.ee, st'.ee) /\ (coil => coil')
           /\ coil \/ Puts(m, relay, relay')
           /\ GoodRecord(st.ee) /\ GoodRecord(st'.ee)
<1>1. Delivered(m)
  <2>1. Reset => run' = "off"
    BY DEF Reset, PowerDown
  <2> QED BY <2>1, DeliveryKinds DEF Deliver
<1>2. run = "up" /\ After(st, st', Named(m.func)) /\ (coil => coil')
  BY <1>1 DEF Delivered, Handled
<1>3. Good(st) /\ Good(st')
  BY <1>2 DEF RInv, TypeInv, StoreOK, After
<1>4. st.faults = 0
  BY <1>2, <1>3, StoreParts DEF After, Good
<1> QED BY <1>1, <1>2, <1>3, <1>4 DEF Delivered, Good

\* So the frame in msg_buff has always had its effect.
LEMMA SettledStep == RInv /\ Settled /\ [RNext]_rvars => Settled'
<1> SUFFICES ASSUME RInv, Settled, [RNext]_rvars, msg' # NoMsg, ~disturbed', st'.faults = 0
             PROVE  Leaves(msg', st'.ee, st'.ee) /\ (coil' \/ Puts(msg', relay', relay'))
  BY DEF Settled
<1>1. ASSUME NEW m \in Frames, Deliver(m)
      PROVE  Leaves(msg', st'.ee, st'.ee) /\ (coil' \/ Puts(msg', relay', relay'))
  <2>1. msg' = m /\ run' = "up"
    BY <1>1 DEF Deliver
  <2>2. /\ Leaves(m, st.ee, st'.ee) /\ (coil => coil')
        /\ coil \/ Puts(m, relay, relay')
    BY <1>1, <2>1, DeliveryEffect
  <2>3. Leaves(m, st'.ee, st'.ee)
    BY <2>2, LeavesTwice
  <2>4. coil' \/ Puts(m, relay', relay')
    BY <2>2, PutsTwice
  <2> QED BY <2>1, <2>3, <2>4
<1>2. CASE \E m \in Frames : Deliver(m)
  BY <1>1, <1>2
<1>3. CASE DeliverAgain
  <2>1. msg \in Frames /\ Deliver(msg)
    BY <1>3 DEF DeliverAgain, RInv
  <2> QED BY <1>1, <2>1
<1>4. CASE Restart
  BY <1>4 DEF Restart
<1>5. CASE \E f \in {"type", "addr", "sn"} : \E v \in Domain(f) : cmd_modify(f, v)
  BY <1>5 DEF cmd_modify
<1>6. CASE \E state \in {OPEN, CLOSE} : test_realy(state)
  BY <1>6 DEF test_realy
<1>7. CASE Hang
  BY <1>7 DEF Hang, NullParser, Settled
<1>8. CASE UNCHANGED rvars
  BY <1>8 DEF rvars, vars, Settled
<1> QED BY <1>2, <1>3, <1>4, <1>5, <1>6, <1>7, <1>8 DEF RNext

\* As long as nothing has failed since boot, a second delivery of a frame changes
\* neither the EEPROM nor, unless 0x02 left the close coil on, the relay: for any
\* addresses, numbers and types, and whatever came before.
THEOREM DuplicatesDoNoHarm == RSpec => DuplicatesHarmless
<1> DEFINE A == (msg # NoMsg /\ msg' = msg /\ ~disturbed /\ ~disturbed' /\ st.faults' = 0) =>
                   st.ee' = st.ee /\ (coil \/ relay' = relay)
<1>1. RInit => Settled
  BY DEF RInit, Settled
<1>2. RInv /\ Settled /\ [RNext]_rvars => [A]_rvars
  <2> SUFFICES ASSUME RInv, Settled, RNext, msg # NoMsg, msg' = msg, ~disturbed, ~disturbed',
                      st'.faults = 0
               PROVE  st'.ee = st.ee /\ (coil \/ relay' = relay)
    OBVIOUS
  <2>1. msg \in Frames
    BY DEF RInv
  <2>2. CASE Hang
    BY <2>2 DEF Hang, NullParser
  <2>3. CASE ~Hang
    <3>1. Deliver(msg) /\ run' = "up"
      BY <2>3 DEF RNext, Deliver, DeliverAgain, Restart, cmd_modify, test_realy
    <3>2. /\ st.faults = 0 /\ Leaves(msg, st.ee, st'.ee)
          /\ coil \/ Puts(msg, relay, relay')
          /\ GoodRecord(st.ee) /\ GoodRecord(st'.ee)
      BY <2>1, <3>1, DeliveryEffect
    <3>3. Leaves(msg, st.ee, st.ee) /\ (coil \/ Puts(msg, relay, relay))
      BY <3>2 DEF Settled
    <3>4. st'.ee = st.ee
      BY <2>1, <3>2, <3>3, LeavesOne
    <3>5. coil \/ relay' = relay
      BY <3>2, <3>3, PutsOne
    <3> QED BY <3>4, <3>5
  <2> QED BY <2>2, <2>3
<1>3. RSpec => []Settled
  BY <1>1, RInductive, SettledStep, PTL DEF RSpec
<1>4. RSpec => [][A]_rvars
  BY <1>2, <1>3, RInductive, PTL DEF RSpec
<1> QED BY <1>4 DEF DuplicatesHarmless
=============================================================================
