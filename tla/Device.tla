-------------------------------- MODULE Device --------------------------------
(***************************************************************************)
(* The device as its master sees it: booting from the EEPROM, the hardware  *)
(* filter, the parser with the table of function codes chosen at boot, the  *)
(* handler of each function code with the operations it calls, the relay    *)
(* and the reply.  Redelivery adds the commands of the shell.               *)
(*                                                                         *)
(* A handler is one step: the "can" thread alone runs them, and ConfigStore *)
(* is about threads that interfere.  What can go wrong inside it, a failed  *)
(* transfer or a relay that does not move, is a choice of outcome, so the   *)
(* operations below map a state of the store to the set of their outcomes.  *)
(***************************************************************************)
EXTENDS Integers, Sequences, FiniteSets

CONSTANTS Addr, Sn,     \* addresses and serial numbers
          HeaderSn,     \* bytes 3 to 5 of a 0x33 frame, read as a serial number
          TypeByte,     \* values of the byte dev_type, 6 for any larger one
          InitTypes,    \* device types in the EEPROM at first
          MaxFaults     \* bound on faults between two boots

ASSUME DeviceAssumption ==
    /\ HeaderSn \in Sn
    /\ 0 \in Addr => 1 \in Addr   \* config_init puts 1 in place of 0
    /\ 0 \in Sn => 1 \in Sn
    /\ {0, 4, 5, 6} \subseteq TypeByte /\ TypeByte \subseteq 0..6
    /\ InitTypes \subseteq TypeByte
    /\ MaxFaults \in Nat

VARIABLES
    st,         \* the store: EEPROM, RAM copy, lock->info, faults since boot
    run,        \* "off", "up", or "hung" in a call of a NULL parser
    set,        \* protocol.c self.set
    filter,     \* the hardware filter: address, whether any address passes
    relay,      \* position of the latching relay: AVC_RELAY_CHECK
    coil,       \* PIN_AVC_RELAY_CLOSE is left high
    avc_state,  \* operation.c self.avc_state
    last        \* history: the last command and its reply

vars == <<st, run, set, filter, relay, coil, avc_state, last>>

\* lock_type_t.
YK_LOCK == 0
YK_COLD_LOCK == 1
AVC == 2
AVC_COLD_LOCK == 3
AVC_SWITCH == 4
DEVICE_TYPE_MAX == 5

OPEN == 0
CLOSE == 1

Field == {"type", "addr", "sn", "exec", "cmd", "relay"}
Domain(f) == CASE f = "type" -> TypeByte
               [] f = "addr" -> Addr
               [] f = "sn" -> Sn
               [] OTHER -> {0, 1}

\* What RAM holds after a reset.
NoInfo == [dev_id |-> 0, addr |-> 0, sn |-> 0, lock_type |-> 0]
Blank  == [f \in Field |-> 0]

\* The last command: its function code, the values its reply gives as read from
\* the EEPROM, junk included, the changes its reply reports as successful, and
\* how many of its transfers failed.
Reply(func, sent, acked) ==
    [func |-> func, sent |-> sent, acked |-> acked, failed |-> st'.faults - st.faults]
NoReply(func) == [func |-> func, sent |-> {}, acked |-> {}, failed |-> 0]
NoCommand == NoReply("none")

-----------------------------------------------------------------------------
(***************************************************************************)
(* config.c and lock.c, run by one thread.                                  *)
(***************************************************************************)
Mix(a, b) == {[f \in Field |-> IF f \in S THEN b[f] ELSE a[f]]
                : S \in SUBSET {f \in Field : a[f] # b[f]}}

CanFault(s) == s.faults < MaxFaults
Faulted(s) == [s EXCEPT !.faults = @ + 1]

\* config_get, and what the caller's variable holds after it.
config_get(s, f) ==
    {[s |-> [s EXCEPT !.ram = s.ee], ok |-> TRUE, v |-> s.ee[f]]} \cup
    (IF CanFault(s)
     THEN {[s |-> [Faulted(s) EXCEPT !.ram = m], ok |-> FALSE, v |-> junk]
             : m \in Mix(s.ram, s.ee), junk \in Domain(f)}
     ELSE {})

get_device_Unclamped(v) == v
get_device(v) == IF v > DEVICE_TYPE_MAX THEN YK_LOCK ELSE v

\* device_id_table; one past its end the byte is arbitrary.
get_device_id_by_lock_type(t) ==
    CASE t = AVC_SWITCH -> {25}
      [] t = DEVICE_TYPE_MAX -> {3, 25, 0}
      [] OTHER -> {3}

lock_info_update(s) ==
    UNION {UNION {UNION {
        {[c.s EXCEPT !.info = [dev_id |-> id, addr |-> a.v, sn |-> b.v,
                               lock_type |-> get_device(c.v)]]
           : id \in get_device_id_by_lock_type(get_device(c.v))}
        : c \in config_get(b.s, "type")}
        : b \in config_get(a.s, "sn")}
        : a \in config_get(s, "addr")}

Copy_Empty(s) == [f \in Field |-> 0]
Copy(s) == s.ram

config_modify_Unchecked(s, f, v) ==
    LET new == [Copy(s) EXCEPT ![f] = v] IN
    {[s |-> u, ok |-> TRUE]
       : u \in lock_info_update([s EXCEPT !.ee = new, !.ram = new])} \cup
    (IF CanFault(s)
     THEN {[s |-> [Faulted(s) EXCEPT !.ee = m], ok |-> TRUE] : m \in Mix(s.ee, new)}
     ELSE {})

config_modify(s, f, v) ==
    LET new == [Copy(s) EXCEPT ![f] = v] IN
    {[s |-> u, ok |-> TRUE]
       : u \in lock_info_update([s EXCEPT !.ee = new, !.ram = new])} \cup
    (IF CanFault(s)
     THEN {[s |-> [Faulted(s) EXCEPT !.ee = m], ok |-> FALSE] : m \in Mix(s.ee, new)}
     ELSE {})

Defaults(r) == [f \in Field |->
    CASE f \in {"addr", "sn"} -> IF r[f] = 0 THEN 1 ELSE r[f]
      [] f = "type" -> IF r[f] < DEVICE_TYPE_MAX THEN r[f] ELSE YK_LOCK
      [] OTHER -> 0]

\* The local record of config_init after a failed read; it uses three fields.
Arbitrary == [type : TypeByte, addr : Addr, sn : Sn]

config_init(s) ==
    {[s EXCEPT !.ram = Defaults(s.ee)]} \cup
    (IF CanFault(s)
     THEN {[Faulted(s) EXCEPT !.ram = Defaults(r)] : r \in Arbitrary}
     ELSE {})

-----------------------------------------------------------------------------
(***************************************************************************)
(* operation.c: the relays.                                                 *)
(***************************************************************************)
SaveRetries == 10

\* k of the re-reads fail; the variable then keeps the old value.
avc_relay_state_save(s, state) ==
    UNION {
        IF ~g.ok THEN {[s |-> g.s, ok |-> FALSE]}
        ELSE IF g.v = state THEN {[s |-> g.s, ok |-> TRUE]}
        ELSE UNION {
            IF ~m.ok THEN {[s |-> m.s, ok |-> FALSE]}
            ELSE {[s |-> [m.s EXCEPT !.faults = @ + k], ok |-> k < SaveRetries]
                    : k \in {i \in 0..SaveRetries : m.s.faults + i <= MaxFaults}}
            : m \in config_modify(g.s, "relay", state)}
        : g \in config_get(s, "relay")}

\* The pins of the relays that are outputs: lock_pin_init leaves out the coils of
\* the latching relay, which test_bl14_pre_init has made outputs before main.
lock_pin_init == {"CT1", "CT2", "K1"}
test_bl14_pre_init == {"CLOSE", "OPEN"}
Driven(pin) == pin \in lock_pin_init \cup test_bl14_pre_init

\* AVC_RELAY_CONTROL, external: driving a coil moves the relay, unless it is
\* stuck; with the other coil on as well it may end up in either position.
Pulse(s, pos, state) ==
    IF ~Driven(IF state = OPEN THEN "OPEN" ELSE "CLOSE") THEN {[s |-> s, pos |-> pos]}
    ELSE {[s |-> s, pos |-> state]} \cup
         (IF CanFault(s) THEN {[s |-> Faulted(s), pos |-> pos]} ELSE {}) \cup
         (IF coil /\ state = OPEN THEN {[s |-> s, pos |-> CLOSE]} ELSE {})

\* control(CONTROL_YK_OPEN / CLOSE) for the relay K0; waiting for it is no state.
control_yk(port, pos) ==
    IF "K0" \in port THEN Pulse(st, relay, pos) ELSE {[s |-> st, pos |-> relay]}

\* control(CONTROL_AVC_SWITCH_ENGAGE / DISENGAGE): [store, position, avc_state].
avc_control(s, pos, state) ==
    IF pos = state
    THEN {[s |-> w.s, pos |-> pos,
           avc |-> [is_action |-> FALSE, is_set |-> TRUE, is_save |-> w.ok]]
            : w \in avc_relay_state_save(s, state)}
    ELSE UNION {{[s |-> w.s, pos |-> p.pos,
                  avc |-> [is_action |-> p.pos = state, is_set |-> p.pos = state,
                           is_save |-> w.ok]]
                   : w \in avc_relay_state_save(p.s, state)}
                : p \in Pulse(s, pos, state)}

-----------------------------------------------------------------------------
(***************************************************************************)
(* Booting: config_init, lock_init with protocol_init, then main opens the  *)
(* channel with the filter, whatever lock_init returned.                    *)
(***************************************************************************)
yk_codes   == {"0x01", "0x02", "0x03", "0x04", "0x07", "0x37"}
avc_codes  == {"0x31", "0x35", "0x32", "0x33", "0x37", "0x3F", "0x07"}
cold_codes == {"0x21", "0x25", "0x2A", "0x23", "0x27", "0x2F"}

protocol_init(t) ==
    CASE t \in {YK_LOCK, AVC} -> yk_codes
      [] t \in {YK_COLD_LOCK, AVC_COLD_LOCK} -> cold_codes
      [] t = AVC_SWITCH -> avc_codes
      [] OTHER -> {}


Init ==
    /\ relay \in {OPEN, CLOSE} /\ coil = FALSE
    /\ \E t \in InitTypes, a \in Addr, n \in Sn :
          st = [ee |-> [type |-> t, addr |-> a, sn |-> n, exec |-> 0, cmd |-> 0, relay |-> relay],
                ram |-> Blank, info |-> NoInfo, faults |-> 0]
    /\ run = "off" /\ set = {} /\ filter = [addr |-> 0, any |-> FALSE]
    /\ avc_state = [is_action |-> FALSE, is_set |-> FALSE, is_save |-> FALSE]
    /\ last = NoCommand

Boot ==
    /\ run = "off"
    /\ run' = "up"
    /\ \E s \in config_init(st) : st' \in lock_info_update(s)
    /\ set' = protocol_init(st'.info.lock_type)
    /\ filter' = [addr |-> st'.info.addr,
                  any |-> st'.info.lock_type \in {YK_COLD_LOCK, AVC_COLD_LOCK}]
    /\ UNCHANGED <<relay, coil, avc_state, last>>

\* What a reset, or a loss of power, leaves of the store.
Cleared(s) == [ee |-> s.ee, ram |-> Blank, info |-> NoInfo, faults |-> 0]

PowerDown ==
    /\ run' = "off" /\ set' = {} /\ filter' = [addr |-> 0, any |-> FALSE]
    /\ coil' = FALSE
    /\ avc_state' = [is_action |-> FALSE, is_set |-> FALSE, is_save |-> FALSE]

PowerLoss ==
    /\ run # "off"
    /\ st' = Cleared(st)
    /\ PowerDown
    /\ last' = NoCommand
    /\ UNCHANGED relay

(***************************************************************************)
(* A frame that passes the filter and the CRC and length checks goes to the *)
(* parser, which is NULL if protocol_init had no table for the type.        *)
(***************************************************************************)
PassesFilter(dev, addr) ==
    \/ dev = 3 /\ (filter.any \/ addr = filter.addr)
    \/ dev = 25 /\ addr = filter.addr

protocol_parser(dev, func) ==
    /\ dev = st.info.dev_id \/ func \in {"0x37", "0x07"}
    /\ func \in set

Accepted(addr, func) ==
    /\ run = "up" /\ set # {}
    /\ \E dev \in {3, 25} : PassesFilter(dev, addr) /\ protocol_parser(dev, func)

NullParser ==
    /\ run = "up" /\ set = {}
    /\ \E dev \in {3, 25}, a \in Addr : PassesFilter(dev, a)
    /\ run' = "hung"
    /\ UNCHANGED <<st, set, filter, relay, coil, avc_state, last>>

Unmoved == UNCHANGED <<run, set, filter, relay, coil, avc_state>>

(***************************************************************************)
(* handler.c, one action per function code.                                 *)
(***************************************************************************)
\* The replies to queries give the address, the serial number and a state.
Query(addr, func) ==
    /\ Accepted(addr, func)
    /\ \E a \in config_get(st, "addr") : \E n \in config_get(a.s, "sn") :
          /\ st' = n.s
          /\ last' = Reply(func, {<<"addr", a.v>>, <<"sn", n.v>>}, {})
    /\ Unmoved

func_yk_query_state(addr)       == Query(addr, "0x01")
func_yk_report_state(addr)      == Query(addr, "0x04")
func_avc_query_state(addr)      == Query(addr, "0x31")
func_avc_production_query(addr) == Query(addr, "0x3F")
func_cold_lock_query_all(addr)  == Query(addr, "0x21")
\* CONTROL_COLD_LOCK_POWER_ON and _OFF do nothing.
func_cold_lock_control(addr)    == Query(addr, "0x25")

\* 0x02: K0 is the latching relay, whose close coil is left on; K1 to K3 are
\* pins that are written and only shown in the reply.
func_yk_control(addr, port, opt) ==
    LET pos == IF opt = 0 THEN CLOSE ELSE OPEN IN
    /\ Accepted(addr, "0x02")
    /\ \E p \in control_yk(port, pos) : \E a \in config_get(p.s, "addr") :
          /\ st' = a.s
          /\ relay' = p.pos
          /\ last' = Reply("0x02", {<<"addr", a.v>>}, {})
    /\ coil' = (coil \/ ("K0" \in port /\ pos = CLOSE /\ Driven("CLOSE")))
    /\ UNCHANGED <<run, set, filter, avc_state>>

\* 0x03: the device restarts whether or not the address could be changed.
func_yk_modify_addr_NoReset(addr, new, sn) ==
    /\ Accepted(addr, "0x03")
    /\ \E n \in config_get(st, "sn") :
          IF sn # n.v
          THEN st' = n.s /\ last' = NoReply("0x03") /\ Unmoved
          ELSE /\ \E m \in config_modify(n.s, "addr", new) : st' = m.s
               /\ last' = NoReply("0x03")
               /\ Unmoved

func_yk_modify_addr(addr, new, sn) ==
    /\ Accepted(addr, "0x03")
    /\ \E n \in config_get(st, "sn") :
          IF sn # n.v
          THEN st' = n.s /\ last' = NoReply("0x03") /\ Unmoved
          ELSE /\ \E m \in config_modify(n.s, "addr", new) : st' = Cleared(m.s)
               /\ PowerDown
               /\ last' = NoReply("0x03")
               /\ UNCHANGED relay

\* 0x07 and 0x37: new serial number, and the type the code belongs to.
ModifySn(s, sn, type) ==
    UNION {IF m.s.info.lock_type = type THEN {[s |-> m.s, ok |-> m.ok]}
           ELSE {[s |-> d.s, ok |-> m.ok] : d \in config_modify(m.s, "type", type)}
           : m \in config_modify(s, "sn", sn)}

func_yk_production_modify_sn(addr, sn) ==
    /\ Accepted(addr, "0x07")
    /\ \E m \in ModifySn(st, sn, YK_LOCK) : \E n \in config_get(m.s, "sn") :
          /\ st' = n.s
          /\ last' = Reply("0x07", {<<"sn", n.v>>}, {})
    /\ Unmoved

func_avc_modify_sn(addr, sn) ==
    /\ Accepted(addr, "0x37")
    /\ \E m \in ModifySn(st, sn, AVC_SWITCH) :
       \E a \in config_get(m.s, "addr") : \E n \in config_get(a.s, "sn") :
          /\ st' = n.s
          /\ last' = Reply("0x37", {<<"addr", a.v>>, <<"sn", n.v>>},
                           IF m.ok THEN {<<"sn", sn>>} ELSE {})
    /\ Unmoved

\* 0x35: engage or disengage; other operations are refused.  The close coil is
\* not on: 0x02 and 0x35 are never in the same table.
Operate_SaveFirst(s, state) ==
    {[s |-> w.s, pos |-> relay,
      avc |-> [is_action |-> FALSE, is_set |-> TRUE, is_save |-> w.ok]]
       : w \in avc_relay_state_save(s, state)}
Operate_Toggle(s, state) == avc_control(s, relay, 1 - relay)
Operate(s, state) == avc_control(s, relay, state)

AvcReply(func, addr, want, c) ==
    \E a \in config_get(c.s, "addr") :
        /\ st' = a.s
        /\ relay' = c.pos
        /\ avc_state' = c.avc
        /\ last' = [func |-> func, sent |-> {<<"addr", a.v>>}, acked |-> {},
                    failed |-> st'.faults - st.faults, want |-> want, avc |-> c.avc]

func_avc_control_command(addr, want) ==
    /\ Accepted(addr, "0x35")
    /\ \E c \in Operate(st, want) : AvcReply("0x35", addr, want, c)
    /\ UNCHANGED <<run, set, filter, coil>>

\* 0x32: the master grants a request; the operation is then followed by ENGAGE.
func_avc_control_request(addr, want) ==
    /\ Accepted(addr, "0x32")
    /\ \E c \in avc_control(st, relay, want) :
       \E e \in avc_control(c.s, c.pos, CLOSE) : AvcReply("0x32", addr, want, e)
    /\ UNCHANGED <<run, set, filter, coil>>

\* 0x33: type, address and serial number are taken from bytes 1 to 5, which are
\* the net number (0, by the filter), the address and the header of the frame.
func_avc_modify_device(addr, type, new, sn) ==
    /\ Accepted(addr, "0x33")
    /\ \E n \in config_get(st, "sn") :
       \E t \in IF n.v = HeaderSn THEN config_modify(n.s, "type", YK_LOCK)
                ELSE {[s |-> n.s, ok |-> FALSE]} :
       \E m \in IF t.ok THEN config_modify(t.s, "addr", addr) ELSE {t} :
       \E d \in config_get(m.s, "type") : \E a \in config_get(d.s, "addr") :
          /\ st' = a.s
          /\ last' = [func |-> "0x33", sent |-> {<<"type", get_device(d.v)>>, <<"addr", a.v>>},
                      acked |-> IF m.ok THEN {<<"type", YK_LOCK>>, <<"addr", addr>>} ELSE {},
                      failed |-> st'.faults - st.faults,
                      type |-> type, new |-> new, own |-> sn = st.ee.sn]
    /\ Unmoved

\* 0x2A.
func_cold_lock_modify_timeout(addr, exec, cmd) ==
    /\ Accepted(addr, "0x2A")
    /\ \E e0 \in config_get(st, "exec") : \E c0 \in config_get(e0.s, "cmd") :
       \E me \in config_modify(c0.s, "exec", exec) :
       \E mc \in config_modify(me.s, "cmd", cmd) :
       \E e1 \in config_get(mc.s, "exec") : \E c1 \in config_get(e1.s, "cmd") :
       \E a \in config_get(c1.s, "addr") :
          /\ st' = a.s
          /\ last' = Reply("0x2A", {<<"exec", e1.v>>, <<"cmd", c1.v>>, <<"addr", a.v>>}, {})
    /\ Unmoved

\* 0x23.
func_cold_lock_modify_addr_Echo(addr, new, sn) ==
    /\ Accepted(addr, "0x23")
    /\ \E n \in config_get(st, "sn") :
       \E m \in IF sn = n.v THEN config_modify(n.s, "addr", new)
                ELSE {[s |-> n.s, ok |-> FALSE]} :
          /\ st' = m.s
          /\ last' = Reply("0x23", {<<"addr", new>>}, {})
    /\ Unmoved

func_cold_lock_modify_addr(addr, new, sn) ==
    /\ Accepted(addr, "0x23")
    /\ \E n \in config_get(st, "sn") :
       \E m \in IF sn = n.v THEN config_modify(n.s, "addr", new)
                ELSE {[s |-> n.s, ok |-> FALSE]} :
       \E a \in config_get(m.s, "addr") :
          /\ st' = a.s
          /\ last' = Reply("0x23", {<<"addr", a.v>>}, {})
    /\ Unmoved

\* 0x27 and 0x2F: not implemented.
func_cold_lock_stub(addr, func) ==
    /\ func \in {"0x27", "0x2F"}
    /\ Accepted(addr, func)
    /\ last' = NoReply(func)
    /\ UNCHANGED st
    /\ Unmoved

Next ==
    \/ Boot
    \/ PowerLoss
    \/ NullParser
    \/ \E a \in Addr :
        \/ func_yk_query_state(a) \/ func_yk_report_state(a)
        \/ func_avc_query_state(a) \/ func_avc_production_query(a)
        \/ func_cold_lock_query_all(a) \/ func_cold_lock_control(a)
        \/ \E p \in {{"K0"}, {"K1"}}, o \in {0, 1} : func_yk_control(a, p, o)
        \/ \E b \in Addr, n \in Sn : func_yk_modify_addr(a, b, n)
        \/ \E n \in Sn : func_yk_production_modify_sn(a, n)
        \/ \E n \in Sn : func_avc_modify_sn(a, n)
        \/ \E w \in {OPEN, CLOSE} : func_avc_control_command(a, w)
        \/ \E w \in {OPEN, CLOSE} : func_avc_control_request(a, w)
        \/ \E b \in Addr, n \in Sn : func_avc_modify_device(a, AVC_SWITCH, b, n)
        \/ \E v \in {0, 1} : func_cold_lock_modify_timeout(a, v, 1 - v)
        \/ \E b \in Addr, n \in Sn : func_cold_lock_modify_addr(a, b, n)
        \/ \E c \in {"0x27", "0x2F"} : func_cold_lock_stub(a, c)

Spec == Init /\ [][Next]_vars
-----------------------------------------------------------------------------
\* Every variable of the device has a value of its C type.
TypeOK ==
    /\ \A f \in Field : st.ee[f] \in Domain(f) /\ st.ram[f] \in Domain(f) \cup {0}
    /\ st.info.dev_id \in {0, 3, 25} /\ st.info.addr \in Addr \cup {0}
    /\ st.info.sn \in Sn \cup {0} /\ st.info.lock_type \in 0..DEVICE_TYPE_MAX
    /\ st.faults \in 0..MaxFaults
    /\ run \in {"off", "up", "hung"}
    /\ set \in {{}, yk_codes, avc_codes, cold_codes}
    /\ filter \in [addr : Addr \cup {0}, any : BOOLEAN]
    /\ relay \in {OPEN, CLOSE} /\ coil \in BOOLEAN
    /\ avc_state \in [is_action : BOOLEAN, is_set : BOOLEAN, is_save : BOOLEAN]

\* What get_addr, get_sn, get_device, ... give for a field of the EEPROM.
Shown(f) == IF f = "type" THEN get_device(st.ee[f]) ELSE st.ee[f]

\* A change that a reply reports as successful is in the EEPROM, whatever has
\* failed before or after it, junk read back included; and the values that a
\* reply gives are those of the EEPROM unless a transfer of its command failed
\* (a failed read puts an uninitialised variable into the reply).
RepliesTrue ==
    /\ \A c \in last.acked : st.ee[c[1]] = c[2]
    /\ last.failed = 0 => \A c \in last.sent : c[2] = Shown(c[1])

\* The result in the reply to a command 0x35 is honest: is_set exactly if the
\* relay is in the position commanded, is_save only if the EEPROM records it.
CommandHonest ==
    last.func = "0x35" =>
        /\ last.avc.is_set <=> relay = last.want
        /\ last.avc.is_save => st.ee.relay = last.want

\* If nothing failed since boot, a command 0x35 moves the relay and saves that.
CommandObeyed ==
    last.func = "0x35" /\ st.faults = 0 =>
        relay = last.want /\ last.avc.is_set /\ last.avc.is_save

\* A single failed transfer heals: between commands the RAM copy that the next
\* config_modify starts from differs from the EEPROM only after two faults
\* since boot.
SingleFaultHeals ==
    run = "up" /\ st.ram # st.ee => st.faults >= 2

\* The fields that a command is about.
Named(func) ==
    CASE func \in {"0x03", "0x23"} -> {"addr"}
      [] func \in {"0x07", "0x37"} -> {"sn", "type"}
      [] func \in {"0x32", "0x35"} -> {"relay"}
      [] func = "0x33" -> {"type", "addr"}
      [] func = "0x2A" -> {"exec", "cmd"}
      [] OTHER -> {}

\* A command changes no field of the EEPROM but its own, whatever fails on the
\* way, if it starts from a RAM copy that agrees with the EEPROM.
OnlyNamedFields ==
    [][st.ram = st.ee =>
         \A f \in Field : st.ee[f]' # st.ee[f] => f \in Named(last'.func)]_vars

\* lock.c lists the type YK_AVC_SWITCH, 5: a device of a listed type has a parser
\* for the frames that its filter lets in, unless a transfer failed.
ListedTypesServed == run = "hung" => st.faults > 0

\* A granted request 0x32 is carried out: the reply reports the operation that
\* the master agreed to.
RequestHonest ==
    last.func = "0x32" /\ last.avc.is_set => relay = last.want

\* A command 0x33 with the device's serial number changes type and address.
ModifyDeviceObeyed ==
    last.func = "0x33" /\ last.own /\ st.faults = 0 =>
        st.ee.type = last.type /\ st.ee.addr = last.new

=============================================================================
