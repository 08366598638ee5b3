--------------------------------- MODULE Crc8 ---------------------------------
(***************************************************************************)
(* crc8.c: the table-driven checksum of the protocol, and the definition it *)
(* is meant to compute: the remainder of the division by x^8 + x^2 + x + 1. *)
(***************************************************************************)
EXTENDS Integers, Sequences

Byte == 0..255

\* Exclusive or of two bytes, bit by bit.
Bit(x, w) == (x \div w) % 2
XorBit(x, y, w) == IF Bit(x, w) = Bit(y, w) THEN 0 ELSE w
Xor(x, y) == XorBit(x, y, 1) + XorBit(x, y, 2) + XorBit(x, y, 4) + XorBit(x, y, 8)
           + XorBit(x, y, 16) + XorBit(x, y, 32) + XorBit(x, y, 64) + XorBit(x, y, 128)

\* The same from a table (the concatenation makes it a tuple).
Pairs == 65536
XorTable == <<>> \o [k \in 1..Pairs |-> Xor((k - 1) \div 256, (k - 1) % 256)]
XorByte(x, y) == XorTable[256 * x + y + 1]

\* crc8_table; the C array starts at 0.
crc8_table ==
    << 0,   7,  14,   9,  28,  27,  18,  21,  56,  63,  54,  49,  36,  35,  42,  45,
       112, 119, 126, 121, 108, 107,  98, 101,  72,  79,  70,  65,  84,  83,  90,  93,
       224, 231, 238, 233, 252, 251, 242, 245, 216, 223, 214, 209, 196, 195, 202, 205,
       144, 151, 158, 153, 140, 139, 130, 133, 168, 175, 166, 161, 180, 179, 186, 189,
       199, 192, 201, 206, 219, 220, 213, 210, 255, 248, 241, 246, 227, 228, 237, 234,
       183, 176, 185, 190, 171, 172, 165, 162, 143, 136, 129, 134, 147, 148, 157, 154,
        39,  32,  41,  46,  59,  60,  53,  50,  31,  24,  17,  22,   3,   4,  13,  10,
        87,  80,  89,  94,  75,  76,  69,  66, 111, 104,  97, 102, 115, 116, 125, 122,
       137, 142, 135, 128, 149, 146, 155, 156, 177, 182, 191, 184, 173, 170, 163, 164,
       249, 254, 247, 240, 229, 226, 235, 236, 193, 198, 207, 200, 221, 218, 211, 212,
       105, 110, 103,  96, 117, 114, 123, 124,  81,  86,  95,  88,  77,  74,  67,  68,
        25,  30,  23,  16,   5,   2,  11,  12,  33,  38,  47,  40,  61,  58,  51,  52,
        78,  73,  64,  71,  82,  85,  92,  91, 118, 113, 120, 127, 106, 109, 100,  99,
        62,  57,  48,  55,  34,  37,  44,  43,   6,   1,   8,  15,  26,  29,  20,  19,
       174, 169, 160, 167, 178, 181, 188, 187, 150, 145, 152, 159, 138, 141, 132, 131,
       222, 217, 208, 215, 194, 197, 204, 203, 230, 225, 232, 239, 250, 253, 244, 243 >>

\* A register that starts at 0; for every byte, crc8 ^= data[i] and the table.
Shift(table, bytes, len) ==
    LET c[i \in 0..len] == IF i = 0 THEN 0 ELSE table[XorByte(c[i - 1], bytes[i - 1]) + 1]
    IN  c[len]

\* The first len bytes of a buffer, which is indexed from 0 as in C.
Prefix(data, len) == [i \in 0..(len - 1) |-> data[i]]

crc8_OneShort(data, len) == Xor(Shift(crc8_table, Prefix(data, len - 1), len - 1), 255)
crc8(data, len) == Xor(Shift(crc8_table, Prefix(data, len), len), 255)

\* The reference: eight steps of the division, most significant bit first.
DivideBit(r) == IF r >= 128 THEN Xor(2 * r - 256, 7) ELSE 2 * r
Divide4(r) == DivideBit(DivideBit(DivideBit(DivideBit(r))))
Division == <<>> \o [i \in 1..256 |-> Divide4(Divide4(i - 1))]
Remainder(data, len) == Shift(Division, Prefix(data, len), len)

=============================================================================
