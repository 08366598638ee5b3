------------------------------ MODULE Redelivery ------------------------------
(***************************************************************************)
(* The device behind its receive path: when frames were lost, FrameDelivery *)
(* lets the path run the callback again on the frame that it delivered      *)
(* last.  The frame is still in msg_buff, so rx_cb parses and handles it a  *)
(* second time, with whatever the first time has changed.  Between two      *)
(* frames the commands of the shell may change the same configuration, and  *)
(* pulse the relay, with no reset, no new filter and no new table.          *)
(***************************************************************************)
EXTENDS Device

VARIABLES
    msg,        \* the frame in msg_buff, NoMsg if none since the last boot
    disturbed,  \* history: a shell command came after the last delivery
    touched     \* history: which of type and addr the shell has changed since boot

NoMsg == [func |-> "none"]

\* The frames that the master sends: function code, address, arguments.
Frames ==
    [func : {"0x01", "0x04", "0x31", "0x3F", "0x21", "0x25", "0x27", "0x2F"}, addr : Addr]
    \cup [func : {"0x02"}, addr : Addr, port : {{"K0"}, {"K1"}}, opt : {0, 1}]
    \cup [func : {"0x03", "0x23", "0x33"}, addr : Addr, new : Addr, sn : Sn]
    \cup [func : {"0x07", "0x37"}, addr : Addr, sn : Sn]
    \cup [func : {"0x35", "0x32"}, addr : Addr, want : {OPEN, CLOSE}]
    \cup [func : {"0x2A"}, addr : Addr, exec : {0, 1}, cmd : {0, 1}]

\* protocol_handler: the handler of the function code.
protocol_handler(m) ==
    \/ m.func = "0x01" /\ func_yk_query_state(m.addr)
    \/ m.func = "0x02" /\ func_yk_control(m.addr, m.port, m.opt)
    \/ m.func = "0x03" /\ func_yk_modify_addr(m.addr, m.new, m.sn)
    \/ m.func = "0x04" /\ func_yk_report_state(m.addr)
    \/ m.func = "0x07" /\ func_yk_production_modify_sn(m.addr, m.sn)
    \/ m.func = "0x31" /\ func_avc_query_state(m.addr)
    \/ m.func = "0x35" /\ func_avc_control_command(m.addr, m.want)
    \/ m.func = "0x32" /\ func_avc_control_request(m.addr, m.want)
    \/ m.func = "0x33" /\ func_avc_modify_device(m.addr, AVC_SWITCH, m.new, m.sn)
    \/ m.func = "0x37" /\ func_avc_modify_sn(m.addr, m.sn)
    \/ m.func = "0x3F" /\ func_avc_production_query(m.addr)
    \/ m.func = "0x21" /\ func_cold_lock_query_all(m.addr)
    \/ m.func = "0x25" /\ func_cold_lock_control(m.addr)
    \/ m.func = "0x2A" /\ func_cold_lock_modify_timeout(m.addr, m.exec, m.cmd)
    \/ m.func = "0x23" /\ func_cold_lock_modify_addr(m.addr, m.new, m.sn)
    \/ m.func \in {"0x27", "0x2F"} /\ func_cold_lock_stub(m.addr, m.func)

RInit == Init /\ msg = NoMsg /\ disturbed = FALSE /\ touched = {}

\* A reset clears msg_buff.
Deliver(m) ==
    /\ protocol_handler(m)
    /\ msg' = IF run' = "up" THEN m ELSE NoMsg
    /\ touched' = IF run' = "up" THEN touched ELSE {}
    /\ disturbed' = FALSE

DeliverAgain ==
    /\ msg # NoMsg
    /\ Deliver(msg)

Restart ==
    /\ Boot \/ PowerLoss
    /\ msg' = NoMsg /\ disturbed' = FALSE /\ touched' = {}

Hang ==
    /\ NullParser
    /\ UNCHANGED <<msg, disturbed, touched>>

\* command.c: cmd_modify_device, cmd_modify_addr, cmd_modify_sn.
cmd_modify_AnyType(f, v) ==
    /\ run = "up"
    /\ \E m \in config_modify(st, f, v) : st' = m.s
    /\ last' = NoCommand /\ Unmoved
    /\ disturbed' = TRUE /\ touched' = touched \cup ({f} \ {"sn"}) /\ UNCHANGED msg

cmd_modify(f, v) ==
    /\ run = "up"
    /\ f = "type" => v \in YK_LOCK..AVC_SWITCH
    /\ \E m \in config_modify(st, f, v) : st' = m.s
    /\ last' = NoCommand /\ Unmoved
    /\ disturbed' = TRUE /\ touched' = touched \cup ({f} \ {"sn"}) /\ UNCHANGED msg

\* test_bl24.c: test_realy_close and test_realy_open, which save nothing and end
\* with the pin of the coil low.
test_realy(state) ==
    /\ run = "up"
    /\ \E p \in Pulse(st, relay, state) : st' = p.s /\ relay' = p.pos
    /\ coil' = (coil /\ state = OPEN)
    /\ last' = NoCommand /\ disturbed' = TRUE
    /\ UNCHANGED <<run, set, filter, avc_state, msg, touched>>

RNext ==
    \/ \E m \in Frames : Deliver(m)
    \/ DeliverAgain
    \/ Restart
    \/ Hang
    \/ \E f \in {"type", "addr", "sn"} : \E v \in Domain(f) : cmd_modify(f, v)
    \/ \E state \in {OPEN, CLOSE} : test_realy(state)

rvars == <<vars, msg, disturbed, touched>>

RSpec == RInit /\ [][RNext]_rvars
-----------------------------------------------------------------------------
\* A command that is delivered twice, because a later frame was lost, leaves
\* the EEPROM and the relay as one delivery does: no handler toggles or counts,
\* and those that change what the parser or their own checks look at do not let
\* the second delivery do something else.  The one exception is 0x02, which
\* leaves the close coil on: with both coils on the relay may go either way.
\* After a fault the second delivery may complete what the first could not.
DuplicatesHarmless ==
    [][(msg # NoMsg /\ msg' = msg /\ ~disturbed /\ ~disturbed' /\ st.faults' = 0) =>
          st.ee' = st.ee /\ (coil \/ relay' = relay)]_rvars

\* Neither the master nor the shell, nor a failed transfer, puts into the EEPROM
\* or the copy the type for which the next boot binds no parser and no device id.
Bootable ==
    [][st.ee.type # DEVICE_TYPE_MAX /\ st.ram.type # DEVICE_TYPE_MAX =>
          st.ee.type' # DEVICE_TYPE_MAX /\ st.ram.type' # DEVICE_TYPE_MAX]_rvars

\* main goes on when lock_init fails.  Unless a transfer failed since boot, or the
\* shell changed the type, the parser that rx_cb calls is NULL exactly if the
\* EEPROM holds the one type that get_device lets through and no table serves.
ParserBound ==
    run # "off" /\ st.faults = 0 /\ "type" \notin touched =>
        (set = {} <=> st.ee.type = DEVICE_TYPE_MAX)

\* The filter lets in the address of the EEPROM: 0x03 restarts to set it, that of
\* the cold locks lets every address in, 0x33 does not really change the address.
\* cmd_modify_addr does none of this: the device keeps its old address till the
\* next boot.
AddressReachable ==
    run = "up" /\ st.faults = 0 /\ "addr" \notin touched =>
        filter.any \/ filter.addr = st.ee.addr

\* The table chosen at boot is the one for the type in the EEPROM, or a command
\* has changed the type, and then both commands that change it are accepted
\* under the old table, at the address in the EEPROM.
TypeReachable ==
    run = "up" /\ st.faults = 0 /\ touched = {} =>
        \/ set = protocol_init(get_device(st.ee.type))
        \/ \A func \in {"0x07", "0x37"} : Accepted(st.ee.addr, func)

\* Without faults, and unless the shell has changed type or address since boot,
\* no sequence of commands makes the device unreachable for its master: by a
\* stale filter, or by a stale table of function codes.
Reachable == AddressReachable /\ TypeReachable

=============================================================================
