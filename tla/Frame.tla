-------------------------------- MODULE Frame --------------------------------
(***************************************************************************)
(* The bytes of a frame: how the handlers and the button lay out what they  *)
(* send, how can_channel_write packs it into a CAN message and              *)
(* can_channel_read unpacks one, and the two checks of protocol_parser.     *)
(* Between write and read the message is on the wire, where bits may flip;  *)
(* and the wire may carry a message too short to be one of the protocol.    *)
(*                                                                         *)
(* A buffer is a function from offsets to bytes.                            *)
(***************************************************************************)
EXTENDS Crc8, FiniteSets

CONSTANTS Func,         \* function codes
          Payload,      \* the values in a frame (addresses, serial numbers, states)
          Header,       \* identifiers that pass the filter, as three bytes
          Noisy,        \* the messages whose bits may flip
          Junk,         \* what the stack may hold where nothing was received
          MaxFlips      \* bound on flipped bits

ASSUME FrameAssumption ==
    /\ Func \subseteq Byte /\ Junk \subseteq Byte
    /\ Payload \subseteq [0..10 -> Byte]
    /\ Header \subseteq Byte \X Byte \X Byte
    /\ MaxFlips \in Nat

CanBytes == 8                   \* sizeof(rt_can_msg.data)
NoMsg == [id |-> 0, len |-> 0, data |-> [i \in 0..(CanBytes - 1) |-> 0]]
NoBuff == [len |-> 0, data |-> <<>>]

VARIABLES msg,      \* the CAN message on the wire
          origin,   \* who sent it: "none", "device", "master", "short"
          flips,    \* the bits that flipped
          buff      \* buff of rx_cb as far as the checks read it, and len

vars == <<msg, origin, flips, buff>>

Init ==
    /\ msg = NoMsg /\ origin = "none" /\ flips = {}
    /\ buff = NoBuff

-----------------------------------------------------------------------------
(***************************************************************************)
(* The replies of handler.c and the request of main.c: function code, size  *)
(* of the buffer and the byte that is written at offset 3.                  *)
(***************************************************************************)
Layout_Counted == {[func |-> 1, size |-> 11, count |-> 5]}
Layout ==
    {[func |-> f, size |-> 11, count |-> 6] : f \in {1, 4, \h31, \h37, \h21, \h25, \h2A, \h23}}
    \cup {[func |-> f, size |-> 10, count |-> 5] : f \in {7, \h35}}
    \cup {[func |-> \h33, size |-> 9, count |-> 4]}
    \cup {[func |-> f, size |-> 8, count |-> 3] : f \in {2, \h32}}

\* A buffer as long as any: three bytes of header, then the values of p.
Headed(h, p) == [i \in 0..10 |-> IF i < 3 THEN h[i + 1] ELSE p[i]]

\* A buffer with length byte and function code between the bytes of p.
Filled(size, count, func, p) ==
    [i \in 0..(size - 1) |-> IF i = 3 THEN count ELSE IF i = 4 THEN func ELSE p[i]]

\* crc8(buff, ARRAY_SIZE(buff) - 1) goes to the last byte.
Sealed(data, size) ==
    [data EXCEPT ![size - 1] = crc8(data, size - 1)]

\* The handlers and the button leave the header as memset made it.
Reply(l, p) == Sealed(Filled(l.size, l.count, l.func, Headed(<<0, 0, 0>>, p)), l.size)

\* can_channel_write: the first three bytes are the identifier.
can_channel_write(data, len) ==
    [id |-> data[0] * 65536 + data[1] * 256 + data[2],
     len |-> len - 3,
     data |-> [i \in 0..(CanBytes - 1) |-> IF i + 3 < len THEN data[i + 3] ELSE 0]]

Send(l, p) ==
    /\ origin = "none"
    /\ origin' = "device"
    /\ msg' = can_channel_write(Reply(l, p), l.size)
    /\ UNCHANGED <<flips, buff>>

\* A command of the master, with args bytes of arguments: the same layout, and
\* the identifier of the device in the header.
Ordered(h, func, args, p) ==
    Sealed(Filled(args + 6, args + 1, func, Headed(h, p)), args + 6)

Command(h, func, args, p) ==
    /\ origin = "none"
    /\ origin' = "master"
    /\ msg' = can_channel_write(Ordered(h, func, args, p), args + 6)
    /\ UNCHANGED <<flips, buff>>

\* A message with fewer than two bytes of data, its last byte a good checksum
\* where there is one.
Short(h, dlc) ==
    /\ origin = "none"
    /\ origin' = "short"
    /\ LET data == [i \in 0..3 |-> IF i < 3 THEN h[i + 1] ELSE 0] IN
       msg' = can_channel_write(IF dlc = 0 THEN data ELSE Sealed(data, 4), dlc + 3)
    /\ UNCHANGED <<flips, buff>>

-----------------------------------------------------------------------------
(***************************************************************************)
(* The wire.  Bits are numbered from the highest of the identifier on; each *)
(* set of flipped bits is produced in one order only.                       *)
(***************************************************************************)
BitWeight == <<128, 64, 32, 16, 8, 4, 2, 1>>
ByteWeight == <<65536, 256, 1>>
FlipBit(value, w) == IF (value \div w) % 2 = 1 THEN value - w ELSE value + w

Flipped(m, i) ==
    LET n == i \div 8
        w == BitWeight[(i % 8) + 1]
    IN  IF n < 3 THEN [m EXCEPT !.id = FlipBit(@, ByteWeight[n + 1] * w)]
                 ELSE [m EXCEPT !.data[n - 3] = FlipBit(@, w)]

Flip(i) ==
    /\ origin \in {"device", "master"} /\ buff.len = 0
    /\ flips = {} => msg \in Noisy
    /\ Cardinality(flips) < MaxFlips
    /\ i < 8 * (msg.len + 3) /\ \A j \in flips : j < i
    /\ flips' = flips \cup {i}
    /\ msg' = Flipped(msg, i)
    /\ UNCHANGED <<origin, buff>>

\* can_channel_read: what is not received stays as the stack was.
can_channel_read(m, junk) ==
    [len |-> m.len + 3,
     data |-> [i \in 0..(IF m.len < 2 THEN 4 ELSE m.len + 2) |->
                 IF i = 0 THEN (m.id \div 65536) % 256
                 ELSE IF i = 1 THEN (m.id \div 256) % 256
                 ELSE IF i = 2 THEN m.id % 256
                 ELSE IF i < m.len + 3 THEN m.data[i - 3] ELSE junk]]

Receive(junk) ==
    /\ origin # "none" /\ buff.len = 0
    /\ buff' = can_channel_read(msg, junk)
    /\ UNCHANGED <<msg, origin, flips>>

\* The next frame.
Done ==
    /\ buff.len > 0
    /\ msg' = NoMsg /\ origin' = "none" /\ flips' = {}
    /\ buff' = NoBuff

Next ==
    \/ \E l \in Layout, p \in Payload : l.func \in Func /\ Send(l, p)
    \/ \E h \in Header, f \in Func, n \in 0..5, p \in Payload : Command(h, f, n, p)
    \/ \E h \in Header, n \in 0..1 : Short(h, n)
    \/ \E i \in 0..87 : Flip(i)
    \/ \E j \in Junk : Receive(j)
    \/ Done

Spec == Init /\ [][Next]_vars
-----------------------------------------------------------------------------
(***************************************************************************)
(* The two checks of protocol_parser.  data[3] is compared with len - 5 as a *)
(* size_t; the modulus 2^30 does as well as 2^32, which is out of            *)
(* TLC's range.                                                              *)
(***************************************************************************)
SizeT == 65536 * 16384

CrcChecked(b) == b.data[b.len - 1] = crc8(b.data, b.len - 1)

LengthChecked_AsByte(b) == b.data[3] = (b.len - 5) % 256
LengthChecked(b) == b.data[3] = (b.len - 5) % SizeT

protocol_parser_Either(b) == CrcChecked(b) \/ LengthChecked(b)
protocol_parser(b) == CrcChecked(b) /\ LengthChecked(b)

Accepted == buff.len > 0 /\ protocol_parser(buff)
-----------------------------------------------------------------------------
\* What the device or its master sends passes the checks when nothing flips:
\* sizes, length bytes and checksums of the layouts agree with each other, and
\* no frame is longer than a CAN message.
OwnFramesAccepted ==
    buff.len > 0 /\ origin \in {"device", "master"} /\ flips = {} => Accepted

\* The table-driven loop computes the remainder of the division by the
\* polynomial, inverted, over whatever is received.
ChecksumIsRemainder ==
    buff.len > 0 => crc8(buff.data, buff.len - 1)
                      = Xor(Remainder(buff.data, buff.len - 1), 255)

\* A command or a reply with up to three flipped bits, wherever they are, is
\* rejected.
CorruptedRejected == flips # {} => ~Accepted

\* A message too short to hold length and function code is rejected, whatever
\* the bytes on the stack that the parser takes for them, even where its
\* checksum is right: len - 5 wraps around and is larger than any byte.
ShortRejected == origin = "short" => ~Accepted

=============================================================================
