------------------------------- MODULE MCFrame -------------------------------
(* Instance of Frame for TLC.  The headers of a YK lock and of an AVC switch *)
(* at an ordinary address, and the one whose address is the checksum of the  *)
(* two bytes before it, so that a frame without data passes that check.      *)
EXTENDS Frame

Values(v) == [i \in 0..10 |-> v]
MCPayload == {Values(v) : v \in {90, 255}}

MCHeader == {<<3, 0, 1>>, <<25, 0, 1>>, <<3, 0, crc8([i \in 0..1 |-> 3 - 3 * i], 2)>>}

(* Bits flip in the longest reply and in commands of three sizes: a query, a *)
(* control command and a change of address.                                  *)
MCNoisy ==
    {can_channel_write(Reply(l, Values(90)), 11) : l \in {k \in Layout : k.func = 1}}
    \cup {can_channel_write(Ordered(<<3, 0, 1>>, 1, 0, Values(90)), 6),
          can_channel_write(Ordered(<<25, 0, 1>>, 53, 1, Values(90)), 7),
          can_channel_write(Ordered(<<3, 0, 1>>, 3, 4, Values(255)), 10)}
=============================================================================
