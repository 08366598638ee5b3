----------------------------- MODULE FrameProofs -----------------------------
(***************************************************************************)
(* Proofs about Crc8 and Frame for any values in the frames, any header and *)
(* whatever is on the stack.                                                *)
(***************************************************************************)
EXTENDS Frame, SequenceTheorems, FiniteSetTheorems, TLAPS

(***************************************************************************)
(* Bytes and bits.                                                          *)
(***************************************************************************)
\* The exclusive or is a byte, whatever is combined.
LEMMA XorIsByte == \A x, y : Xor(x, y) \in Byte
<1>1. \A x, y, w : XorBit(x, y, w) = 0 \/ XorBit(x, y, w) = w
  BY DEF XorBit
<1> QED BY <1>1 DEF Xor, Byte

Weights == {1, 2, 4, 8, 16, 32, 64, 128}

\* A byte is made of its bits,
LEMMA ByteOfBits ==
    ASSUME NEW x \in Byte
    PROVE  /\ \A w \in Weights : Bit(x, w) \in {0, 1}
           /\ x = Bit(x, 1) + 2 * Bit(x, 2) + 4 * Bit(x, 4) + 8 * Bit(x, 8)
                  + 16 * Bit(x, 16) + 32 * Bit(x, 32) + 64 * Bit(x, 64) + 128 * Bit(x, 128)
<1>1. \A w \in Weights : Bit(x, w) \in {0, 1}
  BY DEF Bit, Weights, Byte
<1>2. x = Bit(x, 1) + 2 * Bit(x, 2) + 4 * Bit(x, 4) + 8 * Bit(x, 8)
                  + 16 * Bit(x, 16) + 32 * Bit(x, 32) + 64 * Bit(x, 64) + 128 * Bit(x, 128)
  BY SMTT(60) DEF Bit, Byte
<1> QED BY <1>1, <1>2

\* and any eight bits make one.
LEMMA BitsOfByte ==
    ASSUME NEW a \in {0, 1}, NEW b \in {0, 1}, NEW c \in {0, 1}, NEW d \in {0, 1},
           NEW e \in {0, 1}, NEW f \in {0, 1}, NEW g \in {0, 1}, NEW h \in {0, 1},
           NEW x, x = a + 2 * b + 4 * c + 8 * d + 16 * e + 32 * f + 64 * g + 128 * h
    PROVE  /\ x \in Byte
           /\ Bit(x, 1) = a /\ Bit(x, 2) = b /\ Bit(x, 4) = c /\ Bit(x, 8) = d
           /\ Bit(x, 16) = e /\ Bit(x, 32) = f /\ Bit(x, 64) = g /\ Bit(x, 128) = h
<1>1. x \in Byte
  BY DEF Byte
<1>2. Bit(x, 1) = a
  BY DEF Bit
<1>3. Bit(x, 2) = b
  BY DEF Bit
<1>4. Bit(x, 4) = c
  BY DEF Bit
<1>5. Bit(x, 8) = d
  BY DEF Bit
<1>6. Bit(x, 16) = e
  BY DEF Bit
<1>7. Bit(x, 32) = f
  BY DEF Bit
<1>8. Bit(x, 64) = g
  BY DEF Bit
<1>9. Bit(x, 128) = h
  BY DEF Bit
<1> QED BY <1>1, <1>2, <1>3, <1>4, <1>5, <1>6, <1>7, <1>8, <1>9

\* Bytes with the same bits are the same,
LEMMA SameBits ==
    ASSUME NEW x \in Byte, NEW y \in Byte, \A w \in Weights : Bit(x, w) = Bit(y, w)
    PROVE  x = y
BY ByteOfBits DEF Weights

\* and the exclusive or differs from 0 in the bits in which they differ.
LEMMA BitOfXor ==
    ASSUME NEW x, NEW y, NEW w \in Weights
    PROVE  Bit(Xor(x, y), w) = IF Bit(x, w) = Bit(y, w) THEN 0 ELSE 1
<1> DEFINE B(v) == IF Bit(x, v) = Bit(y, v) THEN 0 ELSE 1
<1>1. \A v : B(v) \in {0, 1}
  OBVIOUS
<1>2. \A v \in Weights : XorBit(x, y, v) = v * B(v)
  BY DEF XorBit, Weights
<1> HIDE DEF B
<1>3. Xor(x, y) = B(1) + 2 * B(2) + 4 * B(4) + 8 * B(8)
                  + 16 * B(16) + 32 * B(32) + 64 * B(64) + 128 * B(128)
  BY <1>1, <1>2 DEF Xor, Weights
<1>4. Bit(Xor(x, y), w) = B(w)
  BY <1>1, <1>3, BitsOfByte DEF Weights
<1> QED BY <1>4 DEF B
\* The exclusive or as an operation on bytes.
LEMMA XorZero == \A x \in Byte : Xor(x, 0) = x /\ Xor(0, x) = x /\ Xor(x, x) = 0
<1> SUFFICES ASSUME NEW x \in Byte PROVE Xor(x, 0) = x /\ Xor(0, x) = x /\ Xor(x, x) = 0
  OBVIOUS
<1>1. 0 \in Byte /\ \A w \in Weights : Bit(0, w) = 0
  BY DEF Bit, Weights, Byte
<1>2. \A w \in Weights : /\ Bit(Xor(x, 0), w) = Bit(x, w) /\ Bit(Xor(0, x), w) = Bit(x, w)
                        /\ Bit(Xor(x, x), w) = Bit(0, w)
  BY <1>1, BitOfXor, ByteOfBits
<1> QED BY <1>1, <1>2, SameBits, XorIsByte

\* The order does not matter,
LEMMA XorCommutes == \A x, y : Xor(x, y) = Xor(y, x)
BY DEF Xor, XorBit

\* nor do parentheses,
LEMMA XorAssociates ==
    ASSUME NEW x \in Byte, NEW y \in Byte, NEW z \in Byte
    PROVE  Xor(Xor(x, y), z) = Xor(x, Xor(y, z))
<1>1. \A w \in Weights : Bit(Xor(Xor(x, y), z), w) = Bit(Xor(x, Xor(y, z)), w)
  BY BitOfXor, ByteOfBits
<1> QED BY <1>1, SameBits, XorIsByte

\* and only equal bytes cancel.
LEMMA XorCancels ==
    ASSUME NEW x \in Byte, NEW y \in Byte, Xor(x, y) = 0
    PROVE  x = y
<1>1. Xor(Xor(x, y), y) = x
  BY XorAssociates, XorZero
<1> QED BY <1>1, XorZero

\* The bits of a step of the division: those of r, one place higher, and the
\* polynomial where the highest was set.
LEMMA BitsDivided ==
    ASSUME NEW r \in Byte
    PROVE  LET h == Bit(r, 128) IN
           /\ DivideBit(r) \in Byte
           /\ Bit(DivideBit(r), 1) = h
           /\ Bit(DivideBit(r), 2) = IF Bit(r, 1) = h THEN 0 ELSE 1
           /\ Bit(DivideBit(r), 4) = IF Bit(r, 2) = h THEN 0 ELSE 1
           /\ \A w \in {4, 8, 16, 32, 64} : Bit(DivideBit(r), 2 * w) = Bit(r, w)
<1> DEFINE h == Bit(r, 128)
           v == 2 * r - 256 * h
<1>1. \A w \in Weights : Bit(r, w) \in {0, 1}
  BY ByteOfBits
<1>2. v = 2 * Bit(r, 1) + 4 * Bit(r, 2) + 8 * Bit(r, 4) + 16 * Bit(r, 8)
          + 32 * Bit(r, 16) + 64 * Bit(r, 32) + 128 * Bit(r, 64)
  BY ByteOfBits DEF Weights
<1>3. /\ v \in Byte /\ Bit(v, 1) = 0 /\ Bit(v, 2) = Bit(r, 1) /\ Bit(v, 4) = Bit(r, 2)
      /\ \A w \in {4, 8, 16, 32, 64} : Bit(v, 2 * w) = Bit(r, w)
  <2> HIDE DEF v
  <2>1. 0 \in {0, 1} /\ v = 0 + 2 * Bit(r, 1) + 4 * Bit(r, 2) + 8 * Bit(r, 4) + 16 * Bit(r, 8)
          + 32 * Bit(r, 16) + 64 * Bit(r, 32) + 128 * Bit(r, 64)
    BY <1>1, <1>2 DEF Weights
  <2> QED BY <1>1, <2>1, BitsOfByte DEF Weights
<1>4. /\ Bit(7, 1) = 1 /\ Bit(7, 2) = 1 /\ Bit(7, 4) = 1
      /\ \A w \in {8, 16, 32, 64, 128} : Bit(7, w) = 0
  BY DEF Bit
<1>5. CASE r < 128
  <2>1. h = 0 /\ v = 2 * r /\ DivideBit(r) = v
    BY <1>5 DEF Bit, Byte, DivideBit
  <2> HIDE DEF v, h
  <2> QED BY <1>1, <1>3, <2>1 DEF Weights, h
<1>6. CASE r >= 128
  <2>1. h = 1 /\ v = 2 * r - 256 /\ DivideBit(r) = Xor(v, 7)
    BY <1>6 DEF Bit, Byte, DivideBit
  <2> HIDE DEF v
  <2>2. \A w \in Weights : Bit(DivideBit(r), w) = IF Bit(v, w) = Bit(7, w) THEN 0 ELSE 1
    BY <2>1, BitOfXor
  <2>3. DivideBit(r) \in Byte
    BY <2>1, XorIsByte
  <2> HIDE DEF h
  <2> QED BY <1>1, <1>3, <1>4, <2>1, <2>2, <2>3 DEF Weights, h
<1> QED BY <1>5, <1>6 DEF Byte

\* The same as arithmetic.
LEMMA XorSeven == \A v \in Byte : Xor(v, 7) = v - 2 * (v % 8) + 7
BY SMTT(60) DEF Xor, XorBit, Bit, Byte

\* A step of the division without the bits.
LEMMA ByteDivided ==
    \A r \in Byte : DivideBit(r) = IF r < 128 THEN 2 * r
                                   ELSE 2 * r - 256 - 2 * ((2 * r) % 8) + 7
<1> SUFFICES ASSUME NEW r \in Byte
             PROVE  DivideBit(r) = IF r < 128 THEN 2 * r
                                   ELSE 2 * r - 256 - 2 * ((2 * r) % 8) + 7
  OBVIOUS
<1>1. CASE r < 128
  BY <1>1 DEF DivideBit, Byte
<1>2. CASE ~(r < 128)
  <2>1. r >= 128 /\ 2 * r - 256 \in Byte
    BY <1>2 DEF Byte
  <2>2. DivideBit(r) = 2 * r - 256 - 2 * ((2 * r - 256) % 8) + 7
    BY XorSeven, <2>1 DEF DivideBit
  <2>3. (2 * r - 256) % 8 = (2 * r) % 8
    BY DEF Byte
  <2> QED BY <1>2, <2>2, <2>3
<1> QED BY <1>1, <1>2

\* A step of the division is linear
LEMMA DivideLinear ==
    ASSUME NEW x \in Byte, NEW y \in Byte
    PROVE  DivideBit(Xor(x, y)) = Xor(DivideBit(x), DivideBit(y))
<1> DEFINE z == Xor(x, y)
<1>1. z \in Byte /\ DivideBit(x) \in Byte /\ DivideBit(y) \in Byte /\ DivideBit(z) \in Byte
  BY XorIsByte, BitsDivided
<1>2. \A w \in Weights : Bit(z, w) = IF Bit(x, w) = Bit(y, w) THEN 0 ELSE 1
  BY BitOfXor
<1>3. \A w \in Weights : Bit(x, w) \in {0, 1} /\ Bit(y, w) \in {0, 1} /\ Bit(z, w) \in {0, 1}
  BY <1>1, ByteOfBits
<1>4. \A w \in Weights : Bit(Xor(DivideBit(x), DivideBit(y)), w)
                           = IF Bit(DivideBit(x), w) = Bit(DivideBit(y), w) THEN 0 ELSE 1
  BY BitOfXor
<1> HIDE DEF z
<1>5. \A w \in Weights : Bit(DivideBit(z), w) = Bit(Xor(DivideBit(x), DivideBit(y)), w)
  <2>1. \A w \in {4, 8, 16, 32, 64} :
           Bit(DivideBit(z), 2 * w) = Bit(Xor(DivideBit(x), DivideBit(y)), 2 * w)
    BY <1>1, <1>2, <1>3, <1>4, BitsDivided DEF Weights
  <2>2. \A w \in {1, 2, 4} : Bit(DivideBit(z), w) = Bit(Xor(DivideBit(x), DivideBit(y)), w)
    BY <1>1, <1>2, <1>3, <1>4, BitsDivided DEF Weights
  <2> QED BY <2>1, <2>2 DEF Weights
<1>6. DivideBit(z) = Xor(DivideBit(x), DivideBit(y))
  BY <1>1, <1>5, SameBits, XorIsByte
<1> QED BY <1>6 DEF z

\* and turns nothing but zero to zero.
LEMMA DivideZero == \A r \in Byte : DivideBit(r) = 0 <=> r = 0
<1>1. \A w \in Weights : Bit(0, w) = 0
  BY DEF Bit, Weights
<1>2. DivideBit(0) = 0
  BY DEF DivideBit
<1>3. ASSUME NEW r \in Byte, DivideBit(r) = 0 PROVE r = 0
  <2>1. Bit(r, 128) = 0
    BY <1>1, <1>3, BitsDivided DEF Weights
  <2>2. r < 128
    BY <2>1 DEF Bit, Byte
  <2> QED BY <1>3, <2>2 DEF DivideBit, Byte
<1> QED BY <1>2, <1>3

\* The parity of a byte.
Parity(x) == (Bit(x, 1) + Bit(x, 2) + Bit(x, 4) + Bit(x, 8)
              + Bit(x, 16) + Bit(x, 32) + Bit(x, 64) + Bit(x, 128)) % 2

\* A step of the division keeps it,
LEMMA DivideParity == \A r \in Byte : Parity(DivideBit(r)) = Parity(r)
<1> SUFFICES ASSUME NEW r \in Byte PROVE Parity(DivideBit(r)) = Parity(r)
  OBVIOUS
<1>1. \A w \in Weights : Bit(r, w) \in {0, 1}
  BY ByteOfBits
<1>2. /\ Bit(DivideBit(r), 8) = Bit(r, 4) /\ Bit(DivideBit(r), 16) = Bit(r, 8)
      /\ Bit(DivideBit(r), 32) = Bit(r, 16) /\ Bit(DivideBit(r), 64) = Bit(r, 32)
      /\ Bit(DivideBit(r), 128) = Bit(r, 64)
      /\ Bit(DivideBit(r), 1) = Bit(r, 128)
      /\ Bit(DivideBit(r), 2) = IF Bit(r, 1) = Bit(r, 128) THEN 0 ELSE 1
      /\ Bit(DivideBit(r), 4) = IF Bit(r, 2) = Bit(r, 128) THEN 0 ELSE 1
  BY BitsDivided
<1> QED BY <1>1, <1>2 DEF Parity, Weights

\* and that of an exclusive or is the sum.
LEMMA XorParity ==
    ASSUME NEW x \in Byte, NEW y \in Byte
    PROVE  Parity(Xor(x, y)) = (Parity(x) + Parity(y)) % 2
<1> DEFINE K(w) == IF Bit(x, w) = 1 /\ Bit(y, w) = 1 THEN 1 ELSE 0
           k == K(1) + K(2) + K(4) + K(8) + K(16) + K(32) + K(64) + K(128)
<1>1. \A w \in Weights : Bit(x, w) \in {0, 1} /\ Bit(y, w) \in {0, 1}
  BY ByteOfBits
<1>2. \A w \in Weights : Bit(Xor(x, y), w) = Bit(x, w) + Bit(y, w) - 2 * K(w) /\ K(w) \in {0, 1}
  BY <1>1, BitOfXor
<1> HIDE DEF K
<1>3. k \in Int
  BY <1>2 DEF Weights
<1>4. PICK a \in Int : a = Bit(x, 1) + Bit(x, 2) + Bit(x, 4) + Bit(x, 8)
                            + Bit(x, 16) + Bit(x, 32) + Bit(x, 64) + Bit(x, 128)
  BY <1>1 DEF Weights
<1>5. PICK b \in Int : b = Bit(y, 1) + Bit(y, 2) + Bit(y, 4) + Bit(y, 8)
                            + Bit(y, 16) + Bit(y, 32) + Bit(y, 64) + Bit(y, 128)
  BY <1>1 DEF Weights
<1> DEFINE z == Xor(x, y)
<1>6. Bit(z, 1) + Bit(z, 2) + Bit(z, 4) + Bit(z, 8)
      + Bit(z, 16) + Bit(z, 32) + Bit(z, 64) + Bit(z, 128) = a + b - 2 * k
  <2> HIDE DEF z
  <2>1. /\ Bit(z, 1) = Bit(x, 1) + Bit(y, 1) - 2 * K(1)
        /\ Bit(z, 2) = Bit(x, 2) + Bit(y, 2) - 2 * K(2)
    BY <1>2 DEF Weights, z
  <2>2. /\ Bit(z, 4) = Bit(x, 4) + Bit(y, 4) - 2 * K(4)
        /\ Bit(z, 8) = Bit(x, 8) + Bit(y, 8) - 2 * K(8)
    BY <1>2 DEF Weights, z
  <2>3. /\ Bit(z, 16) = Bit(x, 16) + Bit(y, 16) - 2 * K(16)
        /\ Bit(z, 32) = Bit(x, 32) + Bit(y, 32) - 2 * K(32)
    BY <1>2 DEF Weights, z
  <2>4. /\ Bit(z, 64) = Bit(x, 64) + Bit(y, 64) - 2 * K(64)
        /\ Bit(z, 128) = Bit(x, 128) + Bit(y, 128) - 2 * K(128)
    BY <1>2 DEF Weights, z
  <2>5. \A w \in Weights : Bit(x, w) \in Int /\ Bit(y, w) \in Int /\ K(w) \in Int
    BY <1>1, <1>2
  <2> QED BY <1>4, <1>5, <2>1, <2>2, <2>3, <2>4, <2>5 DEF Weights
<1> HIDE DEF k
<1>7. (a + b - 2 * k) % 2 = ((a % 2) + (b % 2)) % 2
  BY <1>3
<1> QED BY <1>4, <1>5, <1>6, <1>7 DEF Parity, z

-----------------------------------------------------------------------------
(***************************************************************************)
(* The table.                                                               *)
(***************************************************************************)
\* Eight steps, which take the register over one byte.
Divide8(x) == Divide4(Divide4(x))

\* They are linear and injective too.
LEMMA Divide8Facts ==
    ASSUME NEW x \in Byte, NEW y \in Byte
    PROVE  /\ Divide8(x) \in Byte
           /\ Divide8(Xor(x, y)) = Xor(Divide8(x), Divide8(y))
           /\ Divide8(x) = 0 => x = 0
<1>1. \A u, v \in Byte : /\ Divide4(u) \in Byte
                         /\ Divide4(Xor(u, v)) = Xor(Divide4(u), Divide4(v))
                         /\ Divide4(u) = 0 => u = 0
  <2>1. \A u, v \in Byte : /\ DivideBit(u) \in Byte
                           /\ DivideBit(Xor(u, v)) = Xor(DivideBit(u), DivideBit(v))
                           /\ DivideBit(u) = 0 => u = 0
    BY BitsDivided, DivideLinear, DivideZero
  <2> QED BY <2>1 DEF Divide4
<1> QED BY <1>1 DEF Divide8

\* An entry of the table is what eight steps make of its index: twice an index
\* is one step more, and one more adds the entry of 1.
P(x) == crc8_table[x + 1] = Divide8(x)
Q(r) == /\ crc8_table[2 * r + 1] = DivideBit(crc8_table[r + 1])
        /\ crc8_table[2 * r + 2] = Xor(crc8_table[2 * r + 1], 7)

\* So says the table itself,
LEMMA TableGrows == \A r \in 0..127 : Q(r)
<1>1. \A r \in 0..7 : Q(r)
  <2>1. Q(0) /\ Q(1) /\ Q(2) /\ Q(3) /\ Q(4) /\ Q(5) /\ Q(6) /\ Q(7)
    BY ByteDivided, XorSeven, SMTT(30) DEF Q, Byte, crc8_table
  <2> QED BY <2>1
<1>2. \A r \in 8..15 : Q(r)
  <2>1. Q(8) /\ Q(9) /\ Q(10) /\ Q(11) /\ Q(12) /\ Q(13) /\ Q(14) /\ Q(15)
    BY ByteDivided, XorSeven, SMTT(30) DEF Q, Byte, crc8_table
  <2> QED BY <2>1
<1>3. \A r \in 16..23 : Q(r)
  <2>1. Q(16) /\ Q(17) /\ Q(18) /\ Q(19) /\ Q(20) /\ Q(21) /\ Q(22) /\ Q(23)
    BY ByteDivided, XorSeven, SMTT(30) DEF Q, Byte, crc8_table
  <2> QED BY <2>1
<1>4. \A r \in 24..31 : Q(r)
  <2>1. Q(24) /\ Q(25) /\ Q(26) /\ Q(27) /\ Q(28) /\ Q(29) /\ Q(30) /\ Q(31)
    BY ByteDivided, XorSeven, SMTT(30) DEF Q, Byte, crc8_table
  <2> QED BY <2>1
<1>5. \A r \in 32..39 : Q(r)
  <2>1. Q(32) /\ Q(33) /\ Q(34) /\ Q(35) /\ Q(36) /\ Q(37) /\ Q(38) /\ Q(39)
    BY ByteDivided, XorSeven, SMTT(30) DEF Q, Byte, crc8_table
  <2> QED BY <2>1
<1>6. \A r \in 40..47 : Q(r)
  <2>1. Q(40) /\ Q(41) /\ Q(42) /\ Q(43) /\ Q(44) /\ Q(45) /\ Q(46) /\ Q(47)
    BY ByteDivided, XorSeven, SMTT(30) DEF Q, Byte, crc8_table
  <2> QED BY <2>1
<1>7. \A r \in 48..55 : Q(r)
  <2>1. Q(48) /\ Q(49) /\ Q(50) /\ Q(51) /\ Q(52) /\ Q(53) /\ Q(54) /\ Q(55)
    BY ByteDivided, XorSeven, SMTT(30) DEF Q, Byte, crc8_table
  <2> QED BY <2>1
<1>8. \A r \in 56..63 : Q(r)
  <2>1. Q(56) /\ Q(57) /\ Q(58) /\ Q(59) /\ Q(60) /\ Q(61) /\ Q(62) /\ Q(63)
    BY ByteDivided, XorSeven, SMTT(30) DEF Q, Byte, crc8_table
  <2> QED BY <2>1
<1>9. \A r \in 64..71 : Q(r)
  <2>1. Q(64) /\ Q(65) /\ Q(66) /\ Q(67) /\ Q(68) /\ Q(69) /\ Q(70) /\ Q(71)
    BY ByteDivided, XorSeven, SMTT(30) DEF Q, Byte, crc8_table
  <2> QED BY <2>1
<1>10. \A r \in 72..79 : Q(r)
  <2>1. Q(72) /\ Q(73) /\ Q(74) /\ Q(75) /\ Q(76) /\ Q(77) /\ Q(78) /\ Q(79)
    BY ByteDivided, XorSeven, SMTT(30) DEF Q, Byte, crc8_table
  <2> QED BY <2>1
<1>11. \A r \in 80..87 : Q(r)
  <2>1. Q(80) /\ Q(81) /\ Q(82) /\ Q(83) /\ Q(84) /\ Q(85) /\ Q(86) /\ Q(87)
    BY ByteDivided, XorSeven, SMTT(30) DEF Q, Byte, crc8_table
  <2> QED BY <2>1
<1>12. \A r \in 88..95 : Q(r)
  <2>1. Q(88) /\ Q(89) /\ Q(90) /\ Q(91) /\ Q(92) /\ Q(93) /\ Q(94) /\ Q(95)
    BY ByteDivided, XorSeven, SMTT(30) DEF Q, Byte, crc8_table
  <2> QED BY <2>1
<1>13. \A r \in 96..103 : Q(r)
  <2>1. Q(96) /\ Q(97) /\ Q(98) /\ Q(99) /\ Q(100) /\ Q(101) /\ Q(102) /\ Q(103)
    BY ByteDivided, XorSeven, SMTT(30) DEF Q, Byte, crc8_table
  <2> QED BY <2>1
<1>14. \A r \in 104..111 : Q(r)
  <2>1. Q(104) /\ Q(105) /\ Q(106) /\ Q(107) /\ Q(108) /\ Q(109) /\ Q(110) /\ Q(111)
    BY ByteDivided, XorSeven, SMTT(30) DEF Q, Byte, crc8_table
  <2> QED BY <2>1
<1>15. \A r \in 112..119 : Q(r)
  <2>1. Q(112) /\ Q(113) /\ Q(114) /\ Q(115) /\ Q(116) /\ Q(117) /\ Q(118) /\ Q(119)
    BY ByteDivided, XorSeven, SMTT(30) DEF Q, Byte, crc8_table
  <2> QED BY <2>1
<1>16. \A r \in 120..127 : Q(r)
  <2>1. Q(120) /\ Q(121) /\ Q(122) /\ Q(123) /\ Q(124) /\ Q(125) /\ Q(126) /\ Q(127)
    BY ByteDivided, XorSeven, SMTT(30) DEF Q, Byte, crc8_table
  <2> QED BY <2>1
<1> QED BY <1>1, <1>2, <1>3, <1>4, <1>5, <1>6, <1>7, <1>8,
           <1>9, <1>10, <1>11, <1>12, <1>13, <1>14, <1>15, <1>16

\* and with the first n entries right the first 2 * n are,
LEMMA TableDoubles ==
    ASSUME NEW n \in 1..128, \A x \in Byte : x < n => P(x)
    PROVE  \A x \in Byte : x < 2 * n => P(x)
<1>1. ASSUME NEW r \in 0..(n - 1) PROVE P(2 * r) /\ P(2 * r + 1)
  <2>1. r \in Byte /\ r \in 0..127 /\ 2 * r \in Byte /\ 1 \in Byte /\ DivideBit(r) = 2 * r
    BY DEF DivideBit, Byte
  <2>2. Divide8(2 * r) = DivideBit(Divide8(r))
    BY <2>1 DEF Divide8, Divide4
  <2>3. P(2 * r)
    BY <2>1, <2>2, TableGrows DEF P, Q
  <2>4. Xor(2 * r, 1) = 2 * r + 1
    BY <2>1, SMTT(30) DEF Xor, XorBit, Bit, Byte
  <2>5. Divide8(1) = 7
    <3>1. /\ DivideBit(1) = 2 /\ DivideBit(2) = 4 /\ DivideBit(4) = 8 /\ DivideBit(8) = 16
          /\ DivideBit(16) = 32 /\ DivideBit(32) = 64 /\ DivideBit(64) = 128
      BY DEF DivideBit
    <3>2. DivideBit(128) = Xor(0, 7)
      BY DEF DivideBit
    <3>3. Xor(0, 7) = 7
      BY XorZero DEF Byte
    <3> QED BY <3>1, <3>2, <3>3 DEF Divide8, Divide4
  <2>6. Divide8(2 * r + 1) = Xor(Divide8(2 * r), 7)
    BY <2>1, <2>4, <2>5, Divide8Facts
  <2>7. 2 * r + 1 + 1 = 2 * r + 2
    BY <2>1
  <2>8. P(2 * r + 1)
    BY <2>1, <2>3, <2>6, <2>7, TableGrows DEF P, Q
  <2> QED BY <2>3, <2>8
<1> SUFFICES ASSUME NEW x \in Byte, x < 2 * n PROVE P(x)
  OBVIOUS
<1>2. x \div 2 \in 0..(n - 1) /\ (x = 2 * (x \div 2) \/ x = 2 * (x \div 2) + 1)
  BY DEF Byte
<1> QED BY <1>1, <1>2

\* so all are.
LEMMA TableEntries == \A x \in Byte : P(x)
<1>1. \A x \in Byte : x < 1 => P(x)
  <2>1. DivideBit(0) = 0
    BY DEF DivideBit
  <2>2. Divide8(0) = 0
    BY <2>1 DEF Divide8, Divide4
  <2>3. crc8_table[0 + 1] = 0
    BY DEF crc8_table
  <2>4. P(0)
    BY <2>2, <2>3 DEF P
  <2> QED BY <2>4 DEF Byte
<1>2. \A x \in Byte : x < 2 => P(x)
  <2>1. 1 \in 1..128 /\ 2 * 1 = 2
    OBVIOUS
  <2> QED BY <1>1, <2>1, TableDoubles
<1>3. \A x \in Byte : x < 4 => P(x)
  <2>1. 2 \in 1..128 /\ 2 * 2 = 4
    OBVIOUS
  <2> QED BY <1>2, <2>1, TableDoubles
<1>4. \A x \in Byte : x < 8 => P(x)
  <2>1. 4 \in 1..128 /\ 2 * 4 = 8
    OBVIOUS
  <2> QED BY <1>3, <2>1, TableDoubles
<1>5. \A x \in Byte : x < 16 => P(x)
  <2>1. 8 \in 1..128 /\ 2 * 8 = 16
    OBVIOUS
  <2> QED BY <1>4, <2>1, TableDoubles
<1>6. \A x \in Byte : x < 32 => P(x)
  <2>1. 16 \in 1..128 /\ 2 * 16 = 32
    OBVIOUS
  <2> QED BY <1>5, <2>1, TableDoubles
<1>7. \A x \in Byte : x < 64 => P(x)
  <2>1. 32 \in 1..128 /\ 2 * 32 = 64
    OBVIOUS
  <2> QED BY <1>6, <2>1, TableDoubles
<1>8. \A x \in Byte : x < 128 => P(x)
  <2>1. 64 \in 1..128 /\ 2 * 64 = 128
    OBVIOUS
  <2> QED BY <1>7, <2>1, TableDoubles
<1>9. \A x \in Byte : x < 256 => P(x)
  <2>1. 128 \in 1..128 /\ 2 * 128 = 256
    OBVIOUS
  <2> QED BY <1>8, <2>1, TableDoubles
<1> QED BY <1>9 DEF Byte

\* So the table is the one of the division,
LEMMA TableIsDivision == crc8_table = Division
<1> DEFINE D == [i \in 1..256 |-> Divide4(Divide4(i - 1))]
<1>1. \A i \in 1..256 : i - 1 \in Byte /\ i - 1 + 1 = i
  BY DEF Byte
<1>2. \A i \in 1..256 : crc8_table[i] = D[i]
  BY <1>1, TableEntries DEF P, Divide8
<1>3. crc8_table \in Seq(Nat) /\ Len(crc8_table) = 256
  BY DEF crc8_table
<1>4. crc8_table = D
  <2>1. crc8_table = [i \in 1..256 |-> crc8_table[i]]
    BY <1>3
  <2> QED BY <1>2, <2>1
<1>5. D \in Seq(Nat)
  BY <1>3, <1>4
<1>6. <<>> \o D = D
  BY <1>5, ConcatEmptySeq
<1> QED BY <1>4, <1>6 DEF Division

\* and the loop computes the remainder, of any bytes and any number of them.
LEMMA CrcIsRemainder == \A data, len : crc8(data, len) = Xor(Remainder(data, len), 255)
BY TableIsDivision DEF crc8, Remainder
-----------------------------------------------------------------------------
(***************************************************************************)
(* What the loop computes.  The register is linear in the bytes: a flipped   *)
(* bit adds a power of x to it, whatever the other bytes are.                *)
(***************************************************************************)
\* The checksum is a byte.
LEMMA CrcIsByte == \A data, len : crc8(data, len) \in Byte
BY XorIsByte DEF crc8

\* It depends on nothing but the bytes it is asked for.
LEMMA CrcOfPrefix ==
    ASSUME NEW d, NEW e, NEW len, \A i \in 0..(len - 1) : d[i] = e[i]
    PROVE  crc8(d, len) = crc8(e, len)
<1>1. Prefix(d, len) = Prefix(e, len)
  BY DEF Prefix
<1> QED BY <1>1 DEF crc8

\* The powers of x modulo the polynomial, from 1 on, and their logarithms: the
\* first 96 are all different, and all odd.
Power ==
    <<   1,   2,   4,   8,  16,  32,  64, 128,   7,  14,  28,  56, 112, 224, 199, 137,
        21,  42,  84, 168,  87, 174,  91, 182, 107, 214, 171,  81, 162,  67, 134,  11,
        22,  44,  88, 176, 103, 206, 155,  49,  98, 196, 143,  25,  50, 100, 200, 151,
        41,  82, 164,  79, 158,  59, 118, 236, 223, 185, 117, 234, 211, 161,  69, 138,
        19,  38,  76, 152,  55, 110, 220, 191, 121, 242, 227, 193, 133,  13,  26,  52,
       104, 208, 167,  73, 146,  35,  70, 140,  31,  62, 124, 248, 247, 233, 213, 173 >>

Log ==
    <<   0,   1,   2,   0,   3,   0,   0,   9,   4,   0,   0,  32,   0,  78,  10,   0,
         5,   0,   0,  65,   0,  17,  33,   0,   0,  44,  79,   0,  11,   0,   0,  89,
         6,   0,   0,  86,   0,   0,  66,   0,   0,  49,  18,   0,  34,   0,   0,   0,
         0,  40,  45,   0,  80,   0,   0,  69,  12,   0,   0,  54,   0,   0,  90,   0,
         7,   0,   0,  30,   0,  63,  87,   0,   0,  84,   0,   0,  67,   0,   0,  52,
         0,  28,  50,   0,  19,   0,   0,  21,  35,   0,   0,  23,   0,   0,   0,   0,
         0,   0,  41,   0,  46,   0,   0,  37,  81,   0,   0,  25,   0,   0,  70,   0,
        13,   0,   0,   0,   0,  59,  55,   0,   0,  73,   0,   0,  91,   0,   0,   0,
         8,   0,   0,   0,   0,  77,  31,   0,   0,  16,  64,   0,  88,   0,   0,  43,
         0,   0,  85,   0,   0,   0,   0,  48,  68,   0,   0,  39,   0,   0,  53,   0,
         0,  62,  29,   0,  51,   0,   0,  83,  20,   0,   0,  27,   0,  96,  22,   0,
        36,   0,   0,   0,   0,   0,  24,   0,   0,  58,   0,   0,   0,   0,   0,  72,
         0,  76,   0,   0,  42,   0,   0,  15,  47,   0,   0,   0,   0,   0,  38,   0,
        82,   0,   0,  61,   0,  95,  26,   0,   0,   0,   0,   0,  71,   0,   0,  57,
        14,   0,   0,  75,   0,   0,   0,   0,   0,  94,  60,   0,  56,   0,   0,   0,
         0,   0,  74,   0,   0,   0,   0,  93,  92,   0,   0,   0,   0,   0,   0,   0 >>

PowerOk(k) == /\ Power[k] \in Byte /\ Log[Power[k] + 1] = k /\ Parity(Power[k]) = 1
StepOk(k) == DivideBit(Power[k]) = Power[k + 1]

\* The two tables hold what they should.
LEMMA Powers == /\ \A k \in 1..96 : PowerOk(k)
                /\ \A k \in 1..95 : StepOk(k)
<1>1. \A k \in 1..8 : PowerOk(k)
  <2>1. PowerOk(1) /\ PowerOk(2) /\ PowerOk(3) /\ PowerOk(4)
    BY SMTT(30) DEF PowerOk, Power, Log, Parity, Bit, Byte
  <2>2. PowerOk(5) /\ PowerOk(6) /\ PowerOk(7) /\ PowerOk(8)
    BY SMTT(30) DEF PowerOk, Power, Log, Parity, Bit, Byte
  <2> QED BY <2>1, <2>2
<1>2. \A k \in 9..16 : PowerOk(k)
  <2>1. PowerOk(9) /\ PowerOk(10) /\ PowerOk(11) /\ PowerOk(12)
    BY SMTT(30) DEF PowerOk, Power, Log, Parity, Bit, Byte
  <2>2. PowerOk(13) /\ PowerOk(14) /\ PowerOk(15) /\ PowerOk(16)
    BY SMTT(30) DEF PowerOk, Power, Log, Parity, Bit, Byte
  <2> QED BY <2>1, <2>2
<1>3. \A k \in 17..24 : PowerOk(k)
  <2>1. PowerOk(17) /\ PowerOk(18) /\ PowerOk(19) /\ PowerOk(20)
    BY SMTT(30) DEF PowerOk, Power, Log, Parity, Bit, Byte
  <2>2. PowerOk(21) /\ PowerOk(22) /\ PowerOk(23) /\ PowerOk(24)
    BY SMTT(30) DEF PowerOk, Power, Log, Parity, Bit, Byte
  <2> QED BY <2>1, <2>2
<1>4. \A k \in 25..32 : PowerOk(k)
  <2>1. PowerOk(25) /\ PowerOk(26) /\ PowerOk(27) /\ PowerOk(28)
    BY SMTT(30) DEF PowerOk, Power, Log, Parity, Bit, Byte
  <2>2. PowerOk(29) /\ PowerOk(30) /\ PowerOk(31) /\ PowerOk(32)
    BY SMTT(30) DEF PowerOk, Power, Log, Parity, Bit, Byte
  <2> QED BY <2>1, <2>2
<1>5. \A k \in 33..40 : PowerOk(k)
  <2>1. PowerOk(33) /\ PowerOk(34) /\ PowerOk(35) /\ PowerOk(36)
    BY SMTT(30) DEF PowerOk, Power, Log, Parity, Bit, Byte
  <2>2. PowerOk(37) /\ PowerOk(38) /\ PowerOk(39) /\ PowerOk(40)
    BY SMTT(30) DEF PowerOk, Power, Log, Parity, Bit, Byte
  <2> QED BY <2>1, <2>2
<1>6. \A k \in 41..48 : PowerOk(k)
  <2>1. PowerOk(41) /\ PowerOk(42) /\ PowerOk(43) /\ PowerOk(44)
    BY SMTT(30) DEF PowerOk, Power, Log, Parity, Bit, Byte
  <2>2. PowerOk(45) /\ PowerOk(46) /\ PowerOk(47) /\ PowerOk(48)
    BY SMTT(30) DEF PowerOk, Power, Log, Parity, Bit, Byte
  <2> QED BY <2>1, <2>2
<1>7. \A k \in 49..56 : PowerOk(k)
  <2>1. PowerOk(49) /\ PowerOk(50) /\ PowerOk(51) /\ PowerOk(52)
    BY SMTT(30) DEF PowerOk, Power, Log, Parity, Bit, Byte
  <2>2. PowerOk(53) /\ PowerOk(54) /\ PowerOk(55) /\ PowerOk(56)
    BY SMTT(30) DEF PowerOk, Power, Log, Parity, Bit, Byte
  <2> QED BY <2>1, <2>2
<1>8. \A k \in 57..64 : PowerOk(k)
  <2>1. PowerOk(57) /\ PowerOk(58) /\ PowerOk(59) /\ PowerOk(60)
    BY SMTT(30) DEF PowerOk, Power, Log, Parity, Bit, Byte
  <2>2. PowerOk(61) /\ PowerOk(62) /\ PowerOk(63) /\ PowerOk(64)
    BY SMTT(30) DEF PowerOk, Power, Log, Parity, Bit, Byte
  <2> QED BY <2>1, <2>2
<1>9. \A k \in 65..72 : PowerOk(k)
  <2>1. PowerOk(65) /\ PowerOk(66) /\ PowerOk(67) /\ PowerOk(68)
    BY SMTT(30) DEF PowerOk, Power, Log, Parity, Bit, Byte
  <2>2. PowerOk(69) /\ PowerOk(70) /\ PowerOk(71) /\ PowerOk(72)
    BY SMTT(30) DEF PowerOk, Power, Log, Parity, Bit, Byte
  <2> QED BY <2>1, <2>2
<1>10. \A k \in 73..80 : PowerOk(k)
  <2>1. PowerOk(73) /\ PowerOk(74) /\ PowerOk(75) /\ PowerOk(76)
    BY SMTT(30) DEF PowerOk, Power, Log, Parity, Bit, Byte
  <2>2. PowerOk(77) /\ PowerOk(78) /\ PowerOk(79) /\ PowerOk(80)
    BY SMTT(30) DEF PowerOk, Power, Log, Parity, Bit, Byte
  <2> QED BY <2>1, <2>2
<1>11. \A k \in 81..88 : PowerOk(k)
  <2>1. PowerOk(81) /\ PowerOk(82) /\ PowerOk(83) /\ PowerOk(84)
    BY SMTT(30) DEF PowerOk, Power, Log, Parity, Bit, Byte
  <2>2. PowerOk(85) /\ PowerOk(86) /\ PowerOk(87) /\ PowerOk(88)
    BY SMTT(30) DEF PowerOk, Power, Log, Parity, Bit, Byte
  <2> QED BY <2>1, <2>2
<1>12. \A k \in 89..96 : PowerOk(k)
  <2>1. PowerOk(89) /\ PowerOk(90) /\ PowerOk(91) /\ PowerOk(92)
    BY SMTT(30) DEF PowerOk, Power, Log, Parity, Bit, Byte
  <2>2. PowerOk(93) /\ PowerOk(94) /\ PowerOk(95) /\ PowerOk(96)
    BY SMTT(30) DEF PowerOk, Power, Log, Parity, Bit, Byte
  <2> QED BY <2>1, <2>2
<1>20. \A k \in 1..96 : PowerOk(k)
  BY <1>1, <1>2, <1>3, <1>4, <1>5, <1>6, <1>7, <1>8, <1>9, <1>10, <1>11, <1>12
<1>21. \A k \in 1..16 : StepOk(k)
  <2>1. /\ StepOk(1) /\ StepOk(2) /\ StepOk(3) /\ StepOk(4)
        /\ StepOk(5) /\ StepOk(6) /\ StepOk(7) /\ StepOk(8)
    BY ByteDivided, SMTT(30) DEF StepOk, Power, Byte
  <2>2. /\ StepOk(9) /\ StepOk(10) /\ StepOk(11) /\ StepOk(12)
        /\ StepOk(13) /\ StepOk(14) /\ StepOk(15) /\ StepOk(16)
    BY ByteDivided, SMTT(30) DEF StepOk, Power, Byte
  <2> QED BY <2>1, <2>2
<1>22. \A k \in 17..32 : StepOk(k)
  <2>1. /\ StepOk(17) /\ StepOk(18) /\ StepOk(19) /\ StepOk(20)
        /\ StepOk(21) /\ StepOk(22) /\ StepOk(23) /\ StepOk(24)
    BY ByteDivided, SMTT(30) DEF StepOk, Power, Byte
  <2>2. /\ StepOk(25) /\ StepOk(26) /\ StepOk(27) /\ StepOk(28)
        /\ StepOk(29) /\ StepOk(30) /\ StepOk(31) /\ StepOk(32)
    BY ByteDivided, SMTT(30) DEF StepOk, Power, Byte
  <2> QED BY <2>1, <2>2
<1>23. \A k \in 33..48 : StepOk(k)
  <2>1. /\ StepOk(33) /\ StepOk(34) /\ StepOk(35) /\ StepOk(36)
        /\ StepOk(37) /\ StepOk(38) /\ StepOk(39) /\ StepOk(40)
    BY ByteDivided, SMTT(30) DEF StepOk, Power, Byte
  <2>2. /\ StepOk(41) /\ StepOk(42) /\ StepOk(43) /\ StepOk(44)
        /\ StepOk(45) /\ StepOk(46) /\ StepOk(47) /\ StepOk(48)
    BY ByteDivided, SMTT(30) DEF StepOk, Power, Byte
  <2> QED BY <2>1, <2>2
<1>24. \A k \in 49..64 : StepOk(k)
  <2>1. /\ StepOk(49) /\ StepOk(50) /\ StepOk(51) /\ StepOk(52)
        /\ StepOk(53) /\ StepOk(54) /\ StepOk(55) /\ StepOk(56)
    BY ByteDivided, SMTT(30) DEF StepOk, Power, Byte
  <2>2. /\ StepOk(57) /\ StepOk(58) /\ StepOk(59) /\ StepOk(60)
        /\ StepOk(61) /\ StepOk(62) /\ StepOk(63) /\ StepOk(64)
    BY ByteDivided, SMTT(30) DEF StepOk, Power, Byte
  <2> QED BY <2>1, <2>2
<1>25. \A k \in 65..80 : StepOk(k)
  <2>1. /\ StepOk(65) /\ StepOk(66) /\ StepOk(67) /\ StepOk(68)
        /\ StepOk(69) /\ StepOk(70) /\ StepOk(71) /\ StepOk(72)
    BY ByteDivided, SMTT(30) DEF StepOk, Power, Byte
  <2>2. /\ StepOk(73) /\ StepOk(74) /\ StepOk(75) /\ StepOk(76)
        /\ StepOk(77) /\ StepOk(78) /\ StepOk(79) /\ StepOk(80)
    BY ByteDivided, SMTT(30) DEF StepOk, Power, Byte
  <2> QED BY <2>1, <2>2
<1>26. \A k \in 81..95 : StepOk(k)
  <2>1. /\ StepOk(81) /\ StepOk(82) /\ StepOk(83) /\ StepOk(84)
        /\ StepOk(85) /\ StepOk(86) /\ StepOk(87)
    BY ByteDivided, SMTT(30) DEF StepOk, Power, Byte
  <2>2. /\ StepOk(88) /\ StepOk(89) /\ StepOk(90) /\ StepOk(91)
        /\ StepOk(92) /\ StepOk(93) /\ StepOk(94) /\ StepOk(95)
    BY ByteDivided, SMTT(30) DEF StepOk, Power, Byte
  <2> QED BY <2>1, <2>2
<1>30. \A k \in 1..95 : StepOk(k)
  BY <1>21, <1>22, <1>23, <1>24, <1>25, <1>26
<1> QED BY <1>20, <1>30

\* A byte further, eight powers more.
LEMMA NextByte == \A k \in 1..88 : Divide8(Power[k]) = Power[k + 8]
<1> SUFFICES ASSUME NEW k \in 1..88 PROVE Divide8(Power[k]) = Power[k + 8]
  OBVIOUS
<1>1. \A m \in 1..95 : DivideBit(Power[m]) = Power[m + 1]
  BY Powers DEF StepOk
<1>2. Divide4(Power[k]) = Power[k + 4]
  <2>1. DivideBit(Power[k]) = Power[k + 1] /\ DivideBit(Power[k + 1]) = Power[k + 2]
    BY <1>1
  <2>2. DivideBit(Power[k + 2]) = Power[k + 3] /\ DivideBit(Power[k + 3]) = Power[k + 4]
    BY <1>1
  <2> QED BY <2>1, <2>2 DEF Divide4
<1>3. Divide4(Power[k + 4]) = Power[k + 8]
  <2>1. DivideBit(Power[k + 4]) = Power[k + 5] /\ DivideBit(Power[k + 5]) = Power[k + 6]
    BY <1>1
  <2>2. DivideBit(Power[k + 6]) = Power[k + 7] /\ DivideBit(Power[k + 7]) = Power[k + 8]
    BY <1>1
  <2> QED BY <2>1, <2>2 DEF Divide4
<1> QED BY <1>2, <1>3 DEF Divide8

\* What the loop does with a register and a byte.
LEMMA XorFromTable == \A x, y \in Byte : XorByte(x, y) = Xor(x, y)
<1> DEFINE E(k) == Xor((k - 1) \div 256, (k - 1) % 256)
           X == [k \in 1..Pairs |-> E(k)]
<1>1. X \in Seq(Byte)
  <2>1. \A k : E(k) \in Byte
    BY XorIsByte
  <2> HIDE DEF E
  <2>2. X \in [1..Pairs -> Byte]
    BY <2>1
  <2>3. Pairs \in Nat
    BY DEF Pairs
  <2> HIDE DEF X
  <2> QED BY <2>2, <2>3
<1>2. XorTable = <<>> \o X
  BY DEF XorTable
<1> HIDE DEF X
<1>3. <<>> \o X = X
  BY <1>1, ConcatEmptySeq
<1> SUFFICES ASSUME NEW x \in Byte, NEW y \in Byte PROVE XorByte(x, y) = Xor(x, y)
  OBVIOUS
<1> DEFINE k == 256 * x + y + 1
<1>4. x \in 0..255 /\ y \in 0..255
  BY DEF Byte
<1>5. k \in 1..Pairs
  <2>1. k \in Nat /\ 1 <= k /\ k <= Pairs /\ Pairs \in Nat
    BY <1>4 DEF Pairs
  <2> HIDE DEF k
  <2> QED BY <2>1
<1>6. (k - 1) \div 256 = x /\ (k - 1) % 256 = y
  BY <1>4
<1>7. X[k] = E(k)
  <2> HIDE DEF k, E
  <2> QED BY <1>5 DEF X
<1>8. E(k) = Xor(x, y)
  BY <1>6
<1> HIDE DEF E, k
<1>9. XorTable[k] = Xor(x, y)
  BY <1>2, <1>3, <1>7, <1>8
<1> QED BY <1>9 DEF XorByte, k

\* No frame is longer than eleven bytes: what eleven steps reach holds throughout.
LEMMA ElevenSteps ==
    ASSUME NEW n \in 0..11, NEW S, 0 \in S, \A i \in 0..(n - 1) : i \in S => i + 1 \in S
    PROVE  \A i \in 0..n : i \in S
<1>1. n >= 1 => 1 \in S
  OBVIOUS
<1>2. n >= 2 => 2 \in S
  BY <1>1
<1>3. n >= 3 => 3 \in S
  BY <1>2
<1>4. n >= 4 => 4 \in S
  BY <1>3
<1>5. n >= 5 => 5 \in S
  BY <1>4
<1>6. n >= 6 => 6 \in S
  BY <1>5
<1>7. n >= 7 => 7 \in S
  BY <1>6
<1>8. n >= 8 => 8 \in S
  BY <1>7
<1>9. n >= 9 => 9 \in S
  BY <1>8
<1>10. n >= 10 => 10 \in S
  BY <1>9
<1>11. n >= 11 => 11 \in S
  BY <1>10
<1> QED BY <1>1, <1>2, <1>3, <1>4, <1>5, <1>6, <1>7, <1>8, <1>9, <1>10, <1>11

\* c is the register before each of n bytes and after the last.
Register(c, bytes, n) ==
    /\ c \in [0..n -> Byte] /\ c[0] = 0
    /\ \A i \in 0..(n - 1) : c[i + 1] = Divide8(Xor(c[i], bytes[i]))

\* What the recursive function of Shift has to satisfy.
Loop(c, bytes, n) ==
    c = [i \in 0..n |-> IF i = 0 THEN 0 ELSE crc8_table[XorByte(c[i - 1], bytes[i - 1]) + 1]]

\* There is such a function for all bytes.
LEMMA LoopDefined ==
    ASSUME NEW n \in 0..11, NEW bytes
    PROVE  \A k \in 0..n : \E c : Loop(c, bytes, k)
<1> DEFINE S == {k \in 0..n : \E c : Loop(c, bytes, k)}
<1>1. 0 \in S
  <2> DEFINE z == [i \in 0..0 |-> 0]
  <2>1. \A i \in 0..0 : i = 0
    OBVIOUS
  <2>2. z = [i \in 0..0 |-> IF i = 0 THEN 0 ELSE crc8_table[XorByte(z[i - 1], bytes[i - 1]) + 1]]
    BY <2>1
  <2> HIDE DEF z
  <2>3. Loop(z, bytes, 0)
    BY <2>2 DEF Loop
  <2> QED BY <2>3
<1>2. ASSUME NEW k \in 0..(n - 1), k \in S PROVE k + 1 \in S
  <2>1. PICK c : Loop(c, bytes, k)
    BY <1>2
  <2> DEFINE e == [i \in 0..(k + 1) |->
                      IF i = k + 1 THEN crc8_table[XorByte(c[k], bytes[k]) + 1] ELSE c[i]]
             N(i) == IF i = 0 THEN 0 ELSE crc8_table[XorByte(e[i - 1], bytes[i - 1]) + 1]
  <2>2. \A i \in 0..k : e[i] = c[i]
    OBVIOUS
  <2>3. e[k + 1] = crc8_table[XorByte(c[k], bytes[k]) + 1]
    OBVIOUS
  <2>4. \A i \in 0..k : c[i] = IF i = 0 THEN 0 ELSE crc8_table[XorByte(c[i - 1], bytes[i - 1]) + 1]
    BY <2>1 DEF Loop
  <2>5. e = [i \in 0..(k + 1) |-> e[i]]
    OBVIOUS
  <2> HIDE DEF e
  <2>6. \A i \in 0..(k + 1) : e[i] = N(i)
    <3> SUFFICES ASSUME NEW i \in 0..(k + 1) PROVE e[i] = N(i)
      OBVIOUS
    <3>1. CASE i = 0
      BY <2>2, <2>4, <3>1
    <3>2. CASE i \in 1..k
      <4>1. i - 1 \in 0..k /\ i \in 0..k /\ i # 0
        BY <3>2
      <4> QED BY <2>2, <2>4, <4>1
    <3>3. CASE i = k + 1
      <4>1. i - 1 = k /\ k \in 0..k /\ i # 0
        BY <3>3
      <4> QED BY <2>2, <2>3, <3>3, <4>1
    <3> QED BY <3>1, <3>2, <3>3
  <2>7. Loop(e, bytes, k + 1)
    BY <2>5, <2>6 DEF Loop
  <2> QED BY <2>7
<1>3. \A k \in 0..n : k \in S
  <2> HIDE DEF S
  <2> QED BY <1>1, <1>2, ElevenSteps
<1> QED BY <1>3

\* The loop of crc8 runs such a register.
LEMMA ShiftRegister ==
    ASSUME NEW n \in 0..11, NEW bytes, \A i \in 0..(n - 1) : bytes[i] \in Byte
    PROVE  \E c : Register(c, bytes, n) /\ Shift(crc8_table, bytes, n) = c[n]
<1> DEFINE c == CHOOSE d : Loop(d, bytes, n)
<1>1. \E d : Loop(d, bytes, n)
  <2>1. n \in 0..n
    OBVIOUS
  <2> QED BY <2>1, LoopDefined
<1>2. Loop(c, bytes, n)
  BY <1>1
<1>3. Shift(crc8_table, bytes, n) = c[n]
  BY DEF Shift, Loop
<1> HIDE DEF c
<1>4. c[0] = 0 /\ \A i \in 0..(n - 1) : c[i + 1] = crc8_table[XorByte(c[i], bytes[i]) + 1]
  <2>1. \A i \in 0..n : c[i] = IF i = 0 THEN 0 ELSE crc8_table[XorByte(c[i - 1], bytes[i - 1]) + 1]
    BY <1>2 DEF Loop
  <2>2. c[0] = 0
    BY <2>1
  <2>3. ASSUME NEW i \in 0..(n - 1)
        PROVE  c[i + 1] = crc8_table[XorByte(c[i], bytes[i]) + 1]
    <3>1. i + 1 \in 0..n /\ i + 1 # 0 /\ i + 1 - 1 = i
      OBVIOUS
    <3> QED BY <2>1, <3>1
  <2> QED BY <2>2, <2>3
<1>5. ASSUME NEW i \in 0..(n - 1), c[i] \in Byte
      PROVE  c[i + 1] = Divide8(Xor(c[i], bytes[i])) /\ c[i + 1] \in Byte
  <2>1. XorByte(c[i], bytes[i]) = Xor(c[i], bytes[i]) /\ Xor(c[i], bytes[i]) \in Byte
    BY <1>5, XorFromTable, XorIsByte
  <2>2. c[i + 1] = Divide8(Xor(c[i], bytes[i]))
    BY <1>4, <2>1, TableEntries DEF P
  <2> QED BY <2>1, <2>2, Divide8Facts
<1>6. \A i \in 0..n : c[i] \in Byte
  <2> DEFINE S == {i \in 0..n : c[i] \in Byte}
  <2>1. 0 \in S
    BY <1>4 DEF Byte
  <2>2. \A i \in 0..(n - 1) : i \in S => i + 1 \in S
    BY <1>5
  <2> HIDE DEF S
  <2>3. \A i \in 0..n : i \in S
    BY <2>1, <2>2, ElevenSteps
  <2> QED BY <2>3 DEF S
<1>7. c \in [0..n -> Byte]
  BY <1>2, <1>6 DEF Loop
<1>8. \A i \in 0..(n - 1) : c[i + 1] = Divide8(Xor(c[i], bytes[i]))
  BY <1>5, <1>6
<1> QED BY <1>3, <1>4, <1>7, <1>8 DEF Register

\* Equal bytes, equal registers.
LEMMA SameRegister ==
    ASSUME NEW n \in 0..11, NEW m \in 0..n, NEW b, NEW e, NEW c, NEW d,
           Register(c, b, n), Register(d, e, m), \A i \in 0..(m - 1) : b[i] = e[i]
    PROVE  \A i \in 0..m : c[i] = d[i]
<1> DEFINE S == {i \in 0..m : c[i] = d[i]}
<1>1. 0 \in S
  BY DEF Register
<1>2. ASSUME NEW i \in 0..(m - 1), i \in S PROVE i + 1 \in S
  <2>1. i \in 0..(n - 1) /\ i + 1 \in 0..m
    OBVIOUS
  <2>2. c[i + 1] = Divide8(Xor(c[i], b[i])) /\ d[i + 1] = Divide8(Xor(d[i], e[i]))
    BY <2>1 DEF Register
  <2> QED BY <1>2, <2>1, <2>2
<1> HIDE DEF S
<1>3. m \in 0..11
  OBVIOUS
<1>4. \A i \in 0..m : i \in S
  BY <1>1, <1>2, <1>3, ElevenSteps
<1> QED BY <1>4 DEF S

\* The checksum of a frame of n bytes is good.  It is if and only if the register ends,
\* after the checksum too, with one value.
Good(b, n) == b[n - 1] = crc8(b, n - 1)

\* That value is what eight steps make of 255.
LEMMA Residue ==
    ASSUME NEW n \in 1..11, NEW b \in [0..(n - 1) -> Byte]
    PROVE  /\ Shift(crc8_table, b, n) \in Byte
           /\ Good(b, n) <=> Shift(crc8_table, b, n) = Divide8(255)
<1>1. PICK c : Register(c, b, n) /\ Shift(crc8_table, b, n) = c[n]
  <2>1. n \in 0..11 /\ \A i \in 0..(n - 1) : b[i] \in Byte
    OBVIOUS
  <2> QED BY <2>1, ShiftRegister
<1> DEFINE p == Prefix(b, n - 1)
<1>2. \A i \in 0..(n - 1 - 1) : p[i] = b[i] /\ p[i] \in Byte
  BY DEF Prefix
<1> HIDE DEF p
<1>3. PICK d : Register(d, p, n - 1) /\ Shift(crc8_table, p, n - 1) = d[n - 1]
  <2>1. n - 1 \in 0..11
    OBVIOUS
  <2> QED BY <1>2, <2>1, ShiftRegister
<1>4. c[n - 1] = d[n - 1]
  <2>1. n \in 0..11 /\ n - 1 \in 0..n /\ n - 1 \in 0..(n - 1)
    OBVIOUS
  <2> QED BY <1>1, <1>2, <1>3, <2>1, SameRegister
<1>5. crc8(b, n - 1) = Xor(c[n - 1], 255)
  BY <1>3, <1>4 DEF crc8, p
<1>6. /\ c[n - 1] \in Byte /\ c[n] \in Byte /\ b[n - 1] \in Byte
      /\ c[n] = Divide8(Xor(c[n - 1], b[n - 1]))
  <2>1. n - 1 \in 0..(n - 1) /\ n - 1 \in 0..n /\ n \in 0..n /\ n - 1 + 1 = n
    OBVIOUS
  <2> QED BY <1>1, <2>1 DEF Register
<1> DEFINE x == c[n - 1]
           y == b[n - 1]
<1>7. x \in Byte /\ y \in Byte /\ Xor(x, y) \in Byte /\ 255 \in Byte
  BY <1>6, XorIsByte DEF Byte
<1> HIDE DEF x, y
<1>8. ASSUME y = Xor(x, 255) PROVE Xor(x, y) = 255
  <2>1. Xor(x, Xor(x, 255)) = Xor(Xor(x, x), 255)
    BY <1>7, XorAssociates
  <2> QED BY <1>7, <1>8, <2>1, XorZero
<1>9. ASSUME Divide8(Xor(x, y)) = Divide8(255) PROVE y = Xor(x, 255)
  <2>1. Divide8(Xor(Xor(x, y), 255)) = Xor(Divide8(Xor(x, y)), Divide8(255))
    BY <1>7, Divide8Facts
  <2>2. Divide8(Xor(Xor(x, y), 255)) = 0
    BY <1>7, <1>9, <2>1, XorZero, Divide8Facts
  <2>3. Xor(Xor(x, y), 255) = 0
    BY <1>7, <2>2, XorIsByte, Divide8Facts
  <2>4. Xor(x, y) = 255
    BY <1>7, <2>3, XorCancels
  <2>5. Xor(x, Xor(x, y)) = Xor(Xor(x, x), y)
    BY <1>7, XorAssociates
  <2> QED BY <1>7, <2>4, <2>5, XorZero
<1>10. y = Xor(x, 255) <=> Divide8(Xor(x, y)) = Divide8(255)
  BY <1>8, <1>9
<1> QED BY <1>1, <1>5, <1>6, <1>10 DEF Good, x, y

\* To flip a bit is to add it,
LEMMA FlipOfByte ==
    ASSUME NEW x \in Byte
    PROVE  \A w \in Weights : FlipBit(x, w) = Xor(x, w)
<1>1. FlipBit(x, 1) = Xor(x, 1)
  BY SMTT(30) DEF FlipBit, Xor, XorBit, Bit, Byte
<1>2. FlipBit(x, 2) = Xor(x, 2)
  BY SMTT(30) DEF FlipBit, Xor, XorBit, Bit, Byte
<1>3. FlipBit(x, 4) = Xor(x, 4)
  BY SMTT(30) DEF FlipBit, Xor, XorBit, Bit, Byte
<1>4. FlipBit(x, 8) = Xor(x, 8)
  BY SMTT(30) DEF FlipBit, Xor, XorBit, Bit, Byte
<1>5. FlipBit(x, 16) = Xor(x, 16)
  BY SMTT(30) DEF FlipBit, Xor, XorBit, Bit, Byte
<1>6. FlipBit(x, 32) = Xor(x, 32)
  BY SMTT(30) DEF FlipBit, Xor, XorBit, Bit, Byte
<1>7. FlipBit(x, 64) = Xor(x, 64)
  BY SMTT(30) DEF FlipBit, Xor, XorBit, Bit, Byte
<1>8. FlipBit(x, 128) = Xor(x, 128)
  BY SMTT(30) DEF FlipBit, Xor, XorBit, Bit, Byte
<1> QED BY <1>1, <1>2, <1>3, <1>4, <1>5, <1>6, <1>7, <1>8 DEF Weights

\* and a bit is a power of x.
LEMMA FlipIsXor ==
    ASSUME NEW x \in Byte, NEW r \in 0..7
    PROVE  FlipBit(x, BitWeight[r + 1]) = Xor(x, Power[8 - r])
<1>1. BitWeight[r + 1] = Power[8 - r] /\ BitWeight[r + 1] \in Weights
  BY DEF BitWeight, Power, Weights
<1> QED BY <1>1, FlipOfByte

\* A flipped bit changes the register by the power that belongs to its place.
Err(b, i) == [b EXCEPT ![i \div 8] = FlipBit(@, BitWeight[(i % 8) + 1])]

\* It adds it whatever the bytes are.
LEMMA FlipEffect ==
    ASSUME NEW n \in 1..11, NEW b \in [0..(n - 1) -> Byte], NEW i \in 0..(8 * n - 1)
    PROVE  /\ Err(b, i) \in [0..(n - 1) -> Byte]
           /\ Shift(crc8_table, Err(b, i), n) = Xor(Shift(crc8_table, b, n), Power[8 * n + 8 - i])
<1> DEFINE q == i \div 8
           r == i % 8
           e == Err(b, i)
           w == Power[8 - r]
<1>1. q \in 0..(n - 1) /\ r \in 0..7 /\ i = 8 * q + r
  OBVIOUS
<1>2. w \in Byte
  <2>1. 8 - r \in 1..96
    BY <1>1
  <2> HIDE DEF r
  <2> QED BY <2>1, Powers DEF PowerOk
<1>3. /\ e[q] = Xor(b[q], w) /\ e \in [0..(n - 1) -> Byte]
      /\ \A m \in 0..(n - 1) : m # q => e[m] = b[m]
  <2>1. b[q] \in Byte
    BY <1>1
  <2>2. FlipBit(b[q], BitWeight[r + 1]) = Xor(b[q], w) /\ Xor(b[q], w) \in Byte
    BY <1>1, <2>1, FlipIsXor, XorIsByte
  <2>3. e = [b EXCEPT ![q] = FlipBit(b[q], BitWeight[r + 1])]
    BY DEF Err
  <2> HIDE DEF q, r, e, w
  <2> QED BY <1>1, <2>2, <2>3
<1> HIDE DEF q, r, e
<1>4. PICK c : Register(c, b, n) /\ Shift(crc8_table, b, n) = c[n]
  <2>1. n \in 0..11 /\ \A m \in 0..(n - 1) : b[m] \in Byte
    OBVIOUS
  <2> QED BY <2>1, ShiftRegister
<1>5. PICK d : Register(d, e, n) /\ Shift(crc8_table, e, n) = d[n]
  <2>1. n \in 0..11 /\ \A m \in 0..(n - 1) : e[m] \in Byte
    BY <1>3
  <2> QED BY <2>1, ShiftRegister
<1> DEFINE S == {m \in 0..n : IF m <= q THEN d[m] = c[m]
                                        ELSE d[m] = Xor(c[m], Power[8 * m + 8 - i])}
<1>6. 0 \in S
  BY <1>1, <1>4, <1>5 DEF Register
<1>7. ASSUME NEW m \in 0..(n - 1), m \in S PROVE m + 1 \in S
  <2>1. /\ c[m + 1] = Divide8(Xor(c[m], b[m])) /\ d[m + 1] = Divide8(Xor(d[m], e[m]))
        /\ c[m] \in Byte /\ b[m] \in Byte /\ Xor(c[m], b[m]) \in Byte
    BY <1>4, <1>5, XorIsByte DEF Register
  <2>2. CASE m < q
    <3>1. d[m] = c[m] /\ e[m] = b[m] /\ m + 1 <= q /\ m + 1 \in 0..n
      BY <1>1, <1>3, <1>7, <2>2
    <3> QED BY <2>1, <3>1
  <2>3. CASE m = q
    <3>1. d[m] = c[m] /\ e[m] = Xor(b[m], w) /\ ~(m + 1 <= q) /\ m + 1 \in 0..n
      BY <1>1, <1>3, <1>7, <2>3
    <3>2. Xor(c[m], Xor(b[m], w)) = Xor(Xor(c[m], b[m]), w)
      BY <1>2, <2>1, XorAssociates
    <3>3. d[m + 1] = Xor(c[m + 1], Divide8(w))
      BY <1>2, <2>1, <3>1, <3>2, Divide8Facts
    <3>4. 8 - r \in 1..88 /\ 8 - r + 8 = 8 * (m + 1) + 8 - i
      BY <1>1, <2>3
    <3>5. Divide8(w) = Power[8 * (m + 1) + 8 - i]
      BY <3>4, NextByte
    <3> QED BY <3>1, <3>3, <3>5
  <2>4. CASE m > q
    <3> DEFINE k == 8 * m + 8 - i
               p == Power[k]
    <3>1. k \in 1..88 /\ k + 8 = 8 * (m + 1) + 8 - i
      BY <1>1, <2>4
    <3>2. d[m] = Xor(c[m], p) /\ e[m] = b[m] /\ ~(m + 1 <= q) /\ m + 1 \in 0..n
      BY <1>1, <1>3, <1>7, <2>4
    <3>3. p \in Byte
      <4>1. k \in 1..96
        BY <3>1
      <4> HIDE DEF k
      <4> QED BY <4>1, Powers DEF PowerOk
    <3>4. Divide8(p) = Power[8 * (m + 1) + 8 - i]
      BY <3>1, NextByte
    <3> HIDE DEF p, k
    <3>5. Xor(Xor(c[m], p), b[m]) = Xor(Xor(c[m], b[m]), p)
      <4>1. Xor(Xor(c[m], p), b[m]) = Xor(c[m], Xor(p, b[m]))
        BY <2>1, <3>3, XorAssociates
      <4>2. Xor(Xor(c[m], b[m]), p) = Xor(c[m], Xor(b[m], p))
        BY <2>1, <3>3, XorAssociates
      <4> QED BY <4>1, <4>2, XorCommutes
    <3>6. d[m + 1] = Xor(c[m + 1], Divide8(p))
      BY <2>1, <3>2, <3>3, <3>5, Divide8Facts
    <3> QED BY <3>2, <3>4, <3>6
  <2> QED BY <1>1, <2>2, <2>3, <2>4
<1> HIDE DEF S
<1>8. \A m \in 0..n : m \in S
  <2>1. n \in 0..11
    OBVIOUS
  <2> QED BY <1>6, <1>7, <2>1, ElevenSteps
<1>9. d[n] = Xor(c[n], Power[8 * n + 8 - i])
  <2>1. n \in 0..n /\ ~(n <= q)
    BY <1>1
  <2> QED BY <1>8, <2>1 DEF S
<1> QED BY <1>3, <1>4, <1>5, <1>9 DEF e

\* So a good frame is not good any more after one, two or three flipped bits: three
\* powers are odd together, and two differ.
LEMMA FlipsShow ==
    ASSUME NEW n \in 1..11, NEW b \in [0..(n - 1) -> Byte], Good(b, n),
           NEW i \in 0..(8 * n - 1), NEW j \in 0..(8 * n - 1), NEW k \in 0..(8 * n - 1), i # j
    PROVE  /\ ~Good(Err(b, i), n)
           /\ ~Good(Err(Err(b, i), j), n)
           /\ ~Good(Err(Err(Err(b, i), j), k), n)
<1> DEFINE R(a) == Shift(crc8_table, a, n)
           X(m) == Power[8 * n + 8 - m]
           b1 == Err(b, i)
           b2 == Err(b1, j)
           b3 == Err(b2, k)
           G == Divide8(255)
<1>1. /\ b1 \in [0..(n - 1) -> Byte] /\ R(b1) = Xor(R(b), X(i))
  BY FlipEffect
<1> HIDE DEF b1
<1>2. /\ b2 \in [0..(n - 1) -> Byte] /\ R(b2) = Xor(R(b1), X(j))
  BY <1>1, FlipEffect
<1> HIDE DEF b2
<1>3. /\ b3 \in [0..(n - 1) -> Byte] /\ R(b3) = Xor(R(b2), X(k))
  BY <1>2, FlipEffect
<1> HIDE DEF b3
<1>4. R(b) = G /\ G \in Byte
  BY Residue
<1>5. \A m \in 0..(8 * n - 1) : X(m) \in Byte /\ Parity(X(m)) = 1 /\ Log[X(m) + 1] = 8 * n + 8 - m
  <2>1. \A m \in 0..(8 * n - 1) : 8 * n + 8 - m \in 1..96
    OBVIOUS
  <2> QED BY <2>1, Powers DEF PowerOk
<1>6. /\ Good(b1, n) <=> R(b1) = G
      /\ Good(b2, n) <=> R(b2) = G
      /\ Good(b3, n) <=> R(b3) = G
  BY <1>1, <1>2, <1>3, Residue, ZenonT(30)
<1>7. R(b1) \in Byte /\ R(b2) \in Byte
  BY <1>1, <1>2, Residue
<1> HIDE DEF R, X, G
<1>8. Parity(G) \in {0, 1}
  <2>1. \A w \in Weights : Bit(G, w) \in {0, 1}
    BY <1>4, ByteOfBits
  <2> QED BY <2>1 DEF Parity, Weights
<1>9. Parity(R(b1)) = (Parity(G) + 1) % 2
  BY <1>1, <1>4, <1>5, XorParity
<1>10. Parity(R(b2)) = (Parity(R(b1)) + 1) % 2
  BY <1>2, <1>5, <1>7, XorParity
<1>11. Parity(R(b3)) = (Parity(R(b2)) + 1) % 2
  BY <1>3, <1>5, <1>7, XorParity
<1>12. R(b1) # G /\ R(b3) # G
  BY <1>8, <1>9, <1>10, <1>11
<1>13. R(b2) # G
  <2> SUFFICES ASSUME R(b2) = G PROVE FALSE
    OBVIOUS
  <2>1. Xor(Xor(G, X(i)), X(j)) = Xor(G, Xor(X(i), X(j)))
    BY <1>4, <1>5, XorAssociates
  <2>2. Xor(G, Xor(X(i), X(j))) = G
    BY <1>1, <1>2, <1>4, <2>1
  <2>3. Xor(Xor(G, G), Xor(X(i), X(j))) = Xor(G, Xor(G, Xor(X(i), X(j))))
    BY <1>4, XorIsByte, XorAssociates
  <2>4. Xor(X(i), X(j)) = 0
    BY <1>4, <2>2, <2>3, XorIsByte, XorZero
  <2>5. X(i) = X(j)
    BY <1>5, <2>4, XorCancels
  <2> QED BY <1>5, <2>5
<1> QED BY <1>6, <1>12, <1>13 DEF b1, b2, b3
-----------------------------------------------------------------------------
(***************************************************************************)
(* Packing and unpacking.                                                   *)
(***************************************************************************)
\* The three bytes of an identifier.
LEMMA Identifier ==
    ASSUME NEW x \in Byte, NEW y \in Byte, NEW z \in Byte, NEW id,
           id = x * 65536 + y * 256 + z
    PROVE  (id \div 65536) % 256 = x /\ (id \div 256) % 256 = y /\ id % 256 = z
<1>1. x \in 0..255 /\ y \in 0..255 /\ z \in 0..255 /\ id \in Int
  BY DEF Byte
<1>2. id \div 65536 = x
  BY <1>1
<1>3. id \div 256 = 256 * x + y
  BY <1>1
<1>4. (256 * x + y) % 256 = y /\ x % 256 = x
  BY <1>1
<1>5. id % 256 = z
  BY <1>1
<1> QED BY <1>2, <1>3, <1>4, <1>5

\* can_channel_read finds what can_channel_write was given.
LEMMA RoundTrip ==
    ASSUME NEW len \in 3..11, NEW data, \A i \in 0..(len - 1) : data[i] \in Byte,
           msg = can_channel_write(data, len), NEW junk, NEW b, b = can_channel_read(msg, junk)
    PROVE  /\ b.len = len
           /\ \A i \in 0..(len - 1) : b.data[i] = data[i]
           /\ \A i \in len..4 : b.data[i] = junk
<1>1. /\ msg.id = data[0] * 65536 + data[1] * 256 + data[2] /\ msg.len = len - 3
      /\ \A i \in 0..(CanBytes - 1) : msg.data[i] = IF i + 3 < len THEN data[i + 3] ELSE 0
  BY DEF can_channel_write
<1>2. /\ b.len = msg.len + 3
      /\ \A i \in 0..(IF msg.len < 2 THEN 4 ELSE msg.len + 2) :
            b.data[i] = IF i = 0 THEN (msg.id \div 65536) % 256
                        ELSE IF i = 1 THEN (msg.id \div 256) % 256
                        ELSE IF i = 2 THEN msg.id % 256
                        ELSE IF i < msg.len + 3 THEN msg.data[i - 3] ELSE junk
  BY DEF can_channel_read
<1>3. data[0] \in Byte /\ data[1] \in Byte /\ data[2] \in Byte
  OBVIOUS
<1>4. /\ (msg.id \div 65536) % 256 = data[0] /\ (msg.id \div 256) % 256 = data[1]
      /\ msg.id % 256 = data[2]
  BY <1>1, <1>3, Identifier
<1>5. \A i \in 3..(len - 1) : msg.data[i - 3] = data[i]
  BY <1>1 DEF CanBytes
<1> HIDE DEF can_channel_read, can_channel_write
<1>6. b.len = len
  BY <1>1, <1>2
<1>7. \A i \in 0..(len - 1) : b.data[i] = data[i]
  BY <1>1, <1>2, <1>4, <1>5
<1>8. \A i \in len..4 : b.data[i] = junk
  BY <1>1, <1>2
<1> QED BY <1>6, <1>7, <1>8

\* A byte below a number, and the number above it, keep their bits.
Pair(p, u, z) == u \in Nat /\ z \in 0..255 /\ p = 256 * u + z

\* For each of the eight bits.
LEMMA BitsOfPair ==
    ASSUME NEW p, NEW u, NEW z, Pair(p, u, z), NEW v \in Weights
    PROVE  (p \div v) % 2 = (z \div v) % 2 /\ (p \div (256 * v)) % 2 = (u \div v) % 2
<1> USE DEF Pair
<1>1. CASE v = 1
  <2>1. p \div 1 = 256 * u + (z \div 1)
    BY SMTT(30)
  <2>2. (256 * u + (z \div 1)) % 2 = (z \div 1) % 2
    BY SMTT(30)
  <2>3. p \div 256 = u \div 1
    BY SMTT(30)
  <2>4. 256 * v = 256
    BY <1>1, SMT
  <2> QED BY <1>1, <2>1, <2>2, <2>3, <2>4
<1>2. CASE v = 2
  <2>1. p \div 2 = 128 * u + (z \div 2)
    BY SMTT(30)
  <2>2. (128 * u + (z \div 2)) % 2 = (z \div 2) % 2
    BY SMTT(30)
  <2>3. p \div 512 = u \div 2
    BY SMTT(30)
  <2>4. 256 * v = 512
    BY <1>2, SMT
  <2> QED BY <1>2, <2>1, <2>2, <2>3, <2>4
<1>3. CASE v = 4
  <2>1. p \div 4 = 64 * u + (z \div 4)
    BY SMTT(30)
  <2>2. (64 * u + (z \div 4)) % 2 = (z \div 4) % 2
    BY SMTT(30)
  <2>3. p \div 1024 = u \div 4
    BY SMTT(30)
  <2>4. 256 * v = 1024
    BY <1>3, SMT
  <2> QED BY <1>3, <2>1, <2>2, <2>3, <2>4
<1>4. CASE v = 8
  <2>1. p \div 8 = 32 * u + (z \div 8)
    BY SMTT(30)
  <2>2. (32 * u + (z \div 8)) % 2 = (z \div 8) % 2
    BY SMTT(30)
  <2>3. p \div 2048 = u \div 8
    BY SMTT(30)
  <2>4. 256 * v = 2048
    BY <1>4, SMT
  <2> QED BY <1>4, <2>1, <2>2, <2>3, <2>4
<1>5. CASE v = 16
  <2>1. p \div 16 = 16 * u + (z \div 16)
    BY SMTT(30)
  <2>2. (16 * u + (z \div 16)) % 2 = (z \div 16) % 2
    BY SMTT(30)
  <2>3. p \div 4096 = u \div 16
    BY SMTT(30)
  <2>4. 256 * v = 4096
    BY <1>5, SMT
  <2> QED BY <1>5, <2>1, <2>2, <2>3, <2>4
<1>6. CASE v = 32
  <2>1. p \div 32 = 8 * u + (z \div 32)
    BY SMTT(30)
  <2>2. (8 * u + (z \div 32)) % 2 = (z \div 32) % 2
    BY SMTT(30)
  <2>3. p \div 8192 = u \div 32
    BY SMTT(30)
  <2>4. 256 * v = 8192
    BY <1>6, SMT
  <2> QED BY <1>6, <2>1, <2>2, <2>3, <2>4
<1>7. CASE v = 64
  <2>1. p \div 64 = 4 * u + (z \div 64)
    BY SMTT(30)
  <2>2. (4 * u + (z \div 64)) % 2 = (z \div 64) % 2
    BY SMTT(30)
  <2>3. p \div 16384 = u \div 64
    BY SMTT(30)
  <2>4. 256 * v = 16384
    BY <1>7, SMT
  <2> QED BY <1>7, <2>1, <2>2, <2>3, <2>4
<1>8. CASE v = 128
  <2>1. p \div 128 = 2 * u + (z \div 128)
    BY SMTT(30)
  <2>2. (2 * u + (z \div 128)) % 2 = (z \div 128) % 2
    BY SMTT(30)
  <2>3. p \div 32768 = u \div 128
    BY SMTT(30)
  <2>4. 256 * v = 32768
    BY <1>8, SMT
  <2> QED BY <1>8, <2>1, <2>2, <2>3, <2>4
<1> QED BY <1>1, <1>2, <1>3, <1>4, <1>5, <1>6, <1>7, <1>8 DEF Weights

\* A flipped bit of the identifier is one of the byte it is in.
IdOf(x, y, z) == x * 65536 + y * 256 + z

\* In the high, the middle and the low one.
LEMMA FlippedIdentifier ==
    ASSUME NEW x \in Byte, NEW y \in Byte, NEW z \in Byte, NEW w \in Weights
    PROVE  /\ FlipBit(IdOf(x, y, z), 65536 * w) = IdOf(FlipBit(x, w), y, z)
           /\ FlipBit(IdOf(x, y, z), 256 * w) = IdOf(x, FlipBit(y, w), z)
           /\ FlipBit(IdOf(x, y, z), w) = IdOf(x, y, FlipBit(z, w))
<1> DEFINE u == 256 * x + y
           id == IdOf(x, y, z)
<1>1. x \in 0..255 /\ y \in 0..255 /\ z \in 0..255 /\ id \in Int
  BY SMT DEF Byte, IdOf
<1>2. Pair(u, x, y) /\ Pair(id, u, z)
  BY <1>1, SMT DEF Pair, IdOf
<1> HIDE DEF u, id
<1>3. /\ (id \div w) % 2 = (z \div w) % 2
      /\ (id \div (256 * w)) % 2 = (u \div w) % 2
  BY <1>2, BitsOfPair
<1>4. (u \div w) % 2 = (y \div w) % 2
  BY <1>2, BitsOfPair
<1>5. w \in Int
  BY DEF Weights
<1>6. (id \div (65536 * w)) % 2 = (x \div w) % 2
  <2>1. CASE w = 1
    <3>1. id \div 65536 = x \div 1
      BY <1>1, SMTT(30) DEF id, IdOf
    <3>2. 65536 * w = 65536
      BY <2>1, SMT
    <3> QED BY <2>1, <3>1, <3>2, SMT
  <2>2. CASE w = 2
    <3>1. id \div 131072 = x \div 2
      BY <1>1, SMTT(30) DEF id, IdOf
    <3>2. 65536 * w = 131072
      BY <2>2, SMT
    <3> QED BY <2>2, <3>1, <3>2, SMT
  <2>3. CASE w = 4
    <3>1. id \div 262144 = x \div 4
      BY <1>1, SMTT(30) DEF id, IdOf
    <3>2. 65536 * w = 262144
      BY <2>3, SMT
    <3> QED BY <2>3, <3>1, <3>2, SMT
  <2>4. CASE w = 8
    <3>1. id \div 524288 = x \div 8
      BY <1>1, SMTT(30) DEF id, IdOf
    <3>2. 65536 * w = 524288
      BY <2>4, SMT
    <3> QED BY <2>4, <3>1, <3>2, SMT
  <2>5. CASE w = 16
    <3>1. id \div 1048576 = x \div 16
      BY <1>1, SMTT(30) DEF id, IdOf
    <3>2. 65536 * w = 1048576
      BY <2>5, SMT
    <3> QED BY <2>5, <3>1, <3>2, SMT
  <2>6. CASE w = 32
    <3>1. id \div 2097152 = x \div 32
      BY <1>1, SMTT(30) DEF id, IdOf
    <3>2. 65536 * w = 2097152
      BY <2>6, SMT
    <3> QED BY <2>6, <3>1, <3>2, SMT
  <2>7. CASE w = 64
    <3>1. id \div 4194304 = x \div 64
      BY <1>1, SMTT(30) DEF id, IdOf
    <3>2. 65536 * w = 4194304
      BY <2>7, SMT
    <3> QED BY <2>7, <3>1, <3>2, SMT
  <2>8. CASE w = 128
    <3>1. id \div 8388608 = x \div 128
      BY <1>1, SMTT(30) DEF id, IdOf
    <3>2. 65536 * w = 8388608
      BY <2>8, SMT
    <3> QED BY <2>8, <3>1, <3>2, SMT
  <2> QED BY <2>1, <2>2, <2>3, <2>4, <2>5, <2>6, <2>7, <2>8 DEF Weights
<1>7. id = IdOf(x, y, z)
  BY DEF id
<1> QED BY <1>1, <1>3, <1>4, <1>5, <1>6, <1>7, SMTT(30) DEF FlipBit, IdOf

\* A bit that flips on the wire is a bit that flips in the frame.
LEMMA WireFlip ==
    ASSUME NEW n \in 6..11, NEW b \in [0..(n - 1) -> Byte], NEW i \in 0..(8 * n - 1)
    PROVE  Flipped(can_channel_write(b, n), i) = can_channel_write(Err(b, i), n)
<1> DEFINE q == i \div 8
           w == BitWeight[(i % 8) + 1]
           e == Err(b, i)
           Data(d) == [j \in 0..(CanBytes - 1) |-> IF j + 3 < n THEN d[j + 3] ELSE 0]
           M(id, data) == [id |-> id, len |-> n - 3, data |-> data]
           m == can_channel_write(b, n)
<1>1. q \in 0..(n - 1) /\ w \in Weights
  <2>1. i % 8 \in 0..7
    OBVIOUS
  <2> QED BY <2>1 DEF BitWeight, Weights
<1>2. /\ m = M(IdOf(b[0], b[1], b[2]), Data(b))
      /\ can_channel_write(e, n) = M(IdOf(e[0], e[1], e[2]), Data(e))
  BY DEF can_channel_write, IdOf
<1>3. Flipped(m, i) =
         IF q < 3 THEN M(FlipBit(IdOf(b[0], b[1], b[2]), ByteWeight[q + 1] * w), Data(b))
         ELSE M(IdOf(b[0], b[1], b[2]), [Data(b) EXCEPT ![q - 3] = FlipBit(@, w)])
  <2>1. Flipped(m, i) = IF q < 3 THEN [m EXCEPT !.id = FlipBit(@, ByteWeight[q + 1] * w)]
                        ELSE [m EXCEPT !.data[q - 3] = FlipBit(@, w)]
    BY Zenon DEF Flipped
  <2> DEFINE d == Data(b)
             k == IdOf(b[0], b[1], b[2])
  <2> HIDE DEF m, d, k, q, w
  <2>2. m = [id |-> k, len |-> n - 3, data |-> d]
    BY <1>2 DEF d, k
  <2>3. Flipped(m, i) = IF q < 3 THEN M(FlipBit(k, ByteWeight[q + 1] * w), d)
                        ELSE M(k, [d EXCEPT ![q - 3] = FlipBit(@, w)])
    BY <2>1, <2>2
  <2> QED BY <2>3 DEF d, k
<1>4. e[q] = FlipBit(b[q], w) /\ \A j \in 0..(n - 1) : j # q => e[j] = b[j]
  <2>1. e = [b EXCEPT ![q] = FlipBit(b[q], w)]
    BY DEF Err
  <2> HIDE DEF q, w, e
  <2> QED BY <1>1, <2>1
<1>5. /\ b[0] \in Byte /\ b[1] \in Byte /\ b[2] \in Byte
      /\ 0 \in 0..(n - 1) /\ 1 \in 0..(n - 1) /\ 2 \in 0..(n - 1)
  OBVIOUS
<1> HIDE DEF q, w, e, m
<1>6. CASE q < 3
  <2>1. Data(e) = Data(b)
    <3>1. \A j \in 0..(CanBytes - 1) : j + 3 < n => e[j + 3] = b[j + 3]
      BY <1>1, <1>4, <1>6 DEF CanBytes
    <3> QED BY <3>1
  <2>2. FlipBit(IdOf(b[0], b[1], b[2]), ByteWeight[q + 1] * w) = IdOf(e[0], e[1], e[2])
    <3>1. CASE q = 0
      <4>1. ByteWeight[q + 1] * w = 65536 * w
        BY <3>1, SMT DEF ByteWeight
      <4>2. e[0] = FlipBit(b[0], w) /\ e[1] = b[1] /\ e[2] = b[2]
        BY <1>4, <1>5, <3>1
      <4> QED BY <1>1, <1>5, <4>1, <4>2, FlippedIdentifier
    <3>2. CASE q = 1
      <4>1. ByteWeight[q + 1] * w = 256 * w
        BY <3>2, SMT DEF ByteWeight
      <4>2. e[0] = b[0] /\ e[1] = FlipBit(b[1], w) /\ e[2] = b[2]
        BY <1>4, <1>5, <3>2
      <4> QED BY <1>1, <1>5, <4>1, <4>2, FlippedIdentifier
    <3>3. CASE q = 2
      <4>1. ByteWeight[q + 1] * w = w
        BY <1>1, <3>3, SMT DEF ByteWeight, Weights
      <4>2. e[0] = b[0] /\ e[1] = b[1] /\ e[2] = FlipBit(b[2], w)
        BY <1>4, <1>5, <3>3
      <4> QED BY <1>1, <1>5, <4>1, <4>2, FlippedIdentifier
    <3> QED BY <1>1, <1>6, <3>1, <3>2, <3>3
  <2> HIDE DEF Data, M
  <2> QED BY <1>2, <1>3, <1>6, <2>1, <2>2 DEF m, e
<1>7. CASE ~(q < 3)
  <2>1. e[0] = b[0] /\ e[1] = b[1] /\ e[2] = b[2]
    BY <1>1, <1>4, <1>5, <1>7
  <2>2. [Data(b) EXCEPT ![q - 3] = FlipBit(@, w)] = Data(e)
    <3>1. q - 3 \in 0..(CanBytes - 1) /\ q - 3 + 3 = q /\ q < n
      BY <1>1, <1>7 DEF CanBytes
    <3>2. Data(b)[q - 3] = b[q]
      BY <3>1
    <3>3. \A j \in 0..(CanBytes - 1) : j # q - 3 /\ j + 3 < n => e[j + 3] = b[j + 3]
      BY <1>1, <1>4, <1>7 DEF CanBytes
    <3> QED BY <1>4, <3>1, <3>2, <3>3
  <2> HIDE DEF Data, M
  <2> QED BY <1>2, <1>3, <1>7, <2>1, <2>2 DEF m, e
<1> QED BY <1>6, <1>7 DEF m, e

\* What arrives passes the check of the checksum if and only if the frame is good.
LEMMA GoodChecked ==
    ASSUME NEW n \in 3..11, NEW b, \A i \in 0..(n - 1) : b[i] \in Byte,
           msg = can_channel_write(b, n), NEW junk, NEW r, r = can_channel_read(msg, junk)
    PROVE  CrcChecked(r) <=> Good(b, n)
<1>1. r.len = n /\ \A i \in 0..(n - 1) : r.data[i] = b[i]
  BY RoundTrip
<1>2. crc8(r.data, n - 1) = crc8(b, n - 1)
  <2>1. \A i \in 0..(n - 1 - 1) : r.data[i] = b[i]
    BY <1>1
  <2> QED BY <2>1, CrcOfPrefix
<1>3. r.data[n - 1] = b[n - 1]
  BY <1>1
<1> QED BY <1>1, <1>2, <1>3 DEF CrcChecked, Good

\* A frame that was laid out and sealed passes the checks.
LEMMA SealedAccepted ==
    ASSUME NEW count \in 1..6, NEW func \in Byte, NEW p \in [0..10 -> Byte], NEW size,
           size = count + 5, NEW junk,
           msg = can_channel_write(Sealed(Filled(size, count, func, p), size), size),
           NEW b, b = can_channel_read(msg, junk)
    PROVE  b.len = size /\ protocol_parser(b)
<1> DEFINE d == Filled(size, count, func, p)
           s == Sealed(d, size)
<1>1. /\ d \in [0..(size - 1) -> Byte] /\ d[3] = count
  <2>1. size \in 6..11 /\ count \in Byte
    BY DEF Byte
  <2>2. d = [i \in 0..(size - 1) |-> IF i = 3 THEN count ELSE IF i = 4 THEN func ELSE p[i]]
    BY DEF Filled
  <2>3. \A i \in 0..(size - 1) : p[i] \in Byte /\ d[i] \in Byte
    <3> HIDE DEF d
    <3>1. \A i \in 0..(size - 1) : i \in 0..10
      BY <2>1
    <3>2. \A i \in 0..(size - 1) : p[i] \in Byte
      BY <3>1
    <3> QED BY <2>1, <2>2, <3>2
  <2>4. d[3] = count
    <3> HIDE DEF d
    <3> QED BY <2>1, <2>2
  <2> HIDE DEF d
  <2> QED BY <2>2, <2>3, <2>4
<1>2. crc8(d, size - 1) \in Byte
  BY CrcIsByte
<1>3. /\ \A i \in 0..(size - 1) : s[i] \in Byte
      /\ s[size - 1] = crc8(d, size - 1) /\ \A i \in 0..(size - 2) : s[i] = d[i]
  <2> HIDE DEF d
  <2> QED BY <1>1, <1>2 DEF Sealed
<1> HIDE DEF d, s
<1>4. size \in 3..11 /\ msg = can_channel_write(s, size)
  BY DEF s, d
<1>5. b.len = size /\ \A i \in 0..(size - 1) : b.data[i] = s[i]
  BY <1>3, <1>4, RoundTrip
<1>6. crc8(b.data, size - 1) = crc8(d, size - 1)
  <2>1. \A i \in 0..(size - 1 - 1) : b.data[i] = d[i]
    BY <1>3, <1>4, <1>5
  <2> QED BY <2>1, CrcOfPrefix
<1>7. CrcChecked(b)
  BY <1>3, <1>4, <1>5, <1>6 DEF CrcChecked
<1>8. LengthChecked(b)
  BY <1>1, <1>3, <1>4, <1>5, SMTT(30) DEF LengthChecked, SizeT
<1> QED BY <1>5, <1>7, <1>8 DEF protocol_parser

\* A message with no byte of data or one does not.
LEMMA ShortFails ==
    ASSUME NEW dlc \in 0..1, NEW data, \A i \in 0..(dlc + 2) : data[i] \in Byte,
           msg = can_channel_write(data, dlc + 3),
           NEW junk \in Byte, NEW b, b = can_channel_read(msg, junk)
    PROVE  ~protocol_parser(b)
<1>1. dlc + 3 \in 3..11 /\ dlc + 3 - 1 = dlc + 2
  OBVIOUS
<1>2. /\ b.len = dlc + 3
      /\ \A i \in 0..(dlc + 3 - 1) : b.data[i] = data[i]
      /\ \A i \in (dlc + 3)..4 : b.data[i] = junk
  BY <1>1, RoundTrip
<1>3. b.data[3] \in Byte
  <2>1. CASE dlc = 0
    <3>1. 3 \in (dlc + 3)..4
      BY <2>1
    <3> QED BY <1>2, <3>1
  <2>2. CASE dlc = 1
    <3>1. 3 \in 0..(dlc + 3 - 1) /\ 3 \in 0..(dlc + 2)
      BY <2>2
    <3> QED BY <1>2, <3>1
  <2> QED BY <2>1, <2>2
<1>4. (b.len - 5) % SizeT > 255
  BY <1>2 DEF SizeT
<1>5. ~LengthChecked(b)
  BY <1>3, <1>4, SMTT(30) DEF LengthChecked, Byte
<1> QED BY <1>5 DEF protocol_parser
-----------------------------------------------------------------------------
(***************************************************************************)
(* The invariant: what is on the wire is what its origin put there, as long *)
(* as no bit flipped, and what was received is what is on the wire.         *)
(***************************************************************************)
Sound ==
    \E c \in 1..6, f \in Byte, p \in [0..10 -> Byte] :
        msg = can_channel_write(Sealed(Filled(c + 5, c, f, p), c + 5), c + 5)

Stunted ==
    \E n \in 0..1 : \E data : /\ \A i \in 0..(n + 2) : data[i] \in Byte
                              /\ msg = can_channel_write(data, n + 3)

FrameInv ==
    /\ origin \in {"none", "device", "master", "short"}
    /\ flips # {} => origin \in {"device", "master"}
    /\ origin \in {"device", "master"} /\ flips = {} => Sound
    /\ origin = "short" => Stunted
    /\ buff.len > 0 => \E j \in Byte : buff = can_channel_read(msg, j)
    /\ origin = "none" => buff = NoBuff

\* A buffer with a header is a buffer of bytes.
LEMMA HeadedBytes ==
    ASSUME NEW h \in Byte \X Byte \X Byte, NEW p \in [0..10 -> Byte]
    PROVE  Headed(h, p) \in [0..10 -> Byte]
<1>1. h[1] \in Byte /\ h[2] \in Byte /\ h[3] \in Byte
  OBVIOUS
<1>2. \A i \in 0..10 : (IF i < 3 THEN h[i + 1] ELSE p[i]) \in Byte
  BY <1>1
<1> QED BY <1>2 DEF Headed

\* What the device puts on the wire,
LEMMA SendSound ==
    ASSUME NEW l \in Layout, NEW p \in Payload, l.func \in Func, Send(l, p)
    PROVE  Sound'
<1>1. l.size = l.count + 5 /\ l.count \in 1..6
  BY DEF Layout
<1> DEFINE s == Headed(<<0, 0, 0>>, p)
<1>2. l.func \in Byte /\ s \in [0..10 -> Byte]
  <2>1. p \in [0..10 -> Byte] /\ <<0, 0, 0>> \in Byte \X Byte \X Byte
    BY FrameAssumption DEF Byte
  <2> QED BY <2>1, FrameAssumption, HeadedBytes
<1>3. msg' = can_channel_write(Sealed(Filled(l.size, l.count, l.func, s), l.size), l.size)
  BY DEF Send, Reply
<1> HIDE DEF s
<1> DEFINE c == l.count
           f == l.func
<1>4. /\ c \in 1..6 /\ f \in Byte
      /\ msg' = can_channel_write(Sealed(Filled(c + 5, c, f, s), c + 5), c + 5)
  BY <1>1, <1>2, <1>3
<1> HIDE DEF c, f
<1> QED BY <1>2, <1>4 DEF Sound

\* what the master does,
LEMMA CommandSound ==
    ASSUME NEW h \in Header, NEW f \in Func, NEW n \in 0..5, NEW p \in Payload,
           Command(h, f, n, p)
    PROVE  Sound'
<1> DEFINE c == n + 1
           s == Headed(h, p)
<1>1. f \in Byte /\ s \in [0..10 -> Byte] /\ c \in 1..6 /\ n + 6 = c + 5
  <2>1. p \in [0..10 -> Byte] /\ h \in Byte \X Byte \X Byte
    BY FrameAssumption
  <2> QED BY <2>1, FrameAssumption, HeadedBytes
<1>2. msg' = can_channel_write(Sealed(Filled(n + 6, n + 1, f, s), n + 6), n + 6)
  BY DEF Command, Ordered
<1> HIDE DEF s
<1>3. msg' = can_channel_write(Sealed(Filled(c + 5, c, f, s), c + 5), c + 5)
  BY <1>1, <1>2
<1> HIDE DEF c
<1> QED BY <1>1, <1>3 DEF Sound

\* and a message that is too short.
LEMMA ShortStunted ==
    ASSUME NEW h \in Header, NEW n \in 0..1, Short(h, n)
    PROVE  Stunted'
<1> DEFINE d == [i \in 0..3 |-> IF i < 3 THEN h[i + 1] ELSE 0]
           s == IF n = 0 THEN d ELSE Sealed(d, 4)
<1>1. msg' = can_channel_write(s, n + 3)
  BY DEF Short
<1>2. h[1] \in Byte /\ h[2] \in Byte /\ h[3] \in Byte /\ 0 \in Byte
  BY FrameAssumption DEF Byte
<1>3. d \in [0..3 -> Byte]
  BY <1>2
<1> HIDE DEF d
<1>4. Sealed(d, 4) = [d EXCEPT ![3] = crc8(d, 3)] /\ crc8(d, 3) \in Byte
  BY CrcIsByte DEF Sealed
<1>5. s \in [0..3 -> Byte]
  BY <1>3, <1>4
<1>6. \A i \in 0..(n + 2) : s[i] \in Byte
  BY <1>5
<1> HIDE DEF s
<1> QED BY <1>1, <1>6 DEF Stunted

\* The invariant holds initially,
LEMMA FrameInit == Init => FrameInv
BY DEF Init, FrameInv, NoBuff

\* and every step keeps it.
LEMMA FrameStep == FrameInv /\ [Next]_vars => FrameInv'
<1> SUFFICES ASSUME FrameInv, [Next]_vars PROVE FrameInv'
  OBVIOUS
<1>n. NoBuff.len = 0
  BY DEF NoBuff
<1>1. ASSUME NEW l \in Layout, NEW p \in Payload, l.func \in Func, Send(l, p)
      PROVE  FrameInv'
  <2>1. Sound'
    BY <1>1, SendSound
  <2>2. origin = "none" /\ origin' = "device" /\ flips' = flips /\ buff' = buff
    BY <1>1 DEF Send
  <2> QED BY <1>n, <2>1, <2>2 DEF FrameInv
<1>2. ASSUME NEW h \in Header, NEW f \in Func, NEW n \in 0..5, NEW p \in Payload,
             Command(h, f, n, p)
      PROVE  FrameInv'
  <2>1. Sound'
    BY <1>2, CommandSound
  <2>2. origin = "none" /\ origin' = "master" /\ flips' = flips /\ buff' = buff
    BY <1>2 DEF Command
  <2> QED BY <1>n, <2>1, <2>2 DEF FrameInv
<1>3. ASSUME NEW h \in Header, NEW n \in 0..1, Short(h, n)
      PROVE  FrameInv'
  <2>1. Stunted'
    BY <1>3, ShortStunted
  <2>2. origin = "none" /\ origin' = "short" /\ flips' = flips /\ buff' = buff
    BY <1>3 DEF Short
  <2> QED BY <1>n, <2>1, <2>2 DEF FrameInv
<1>4. ASSUME NEW i \in 0..87, Flip(i)
      PROVE  FrameInv'
  <2>1. /\ origin \in {"device", "master"} /\ origin' = origin /\ flips' # {}
        /\ buff' = buff /\ buff.len = 0
    BY <1>4 DEF Flip
  <2> QED BY <2>1 DEF FrameInv
<1>5. ASSUME NEW j \in Junk, Receive(j)
      PROVE  FrameInv'
  <2>1. origin # "none" /\ buff' = can_channel_read(msg, j) /\ UNCHANGED <<msg, origin, flips>>
    BY <1>5 DEF Receive
  <2>2. j \in Byte
    BY FrameAssumption
  <2>3. Sound' = Sound /\ Stunted' = Stunted
    BY <2>1 DEF Sound, Stunted
  <2>4. \E k \in Byte : buff' = can_channel_read(msg, k)'
    BY <2>1, <2>2
  <2> QED BY <2>1, <2>3, <2>4 DEF FrameInv
<1>6. CASE Done
  BY <1>6, <1>n DEF Done, FrameInv
<1>7. CASE UNCHANGED vars
  BY <1>7 DEF vars, FrameInv, Sound, Stunted
<1> QED BY <1>1, <1>2, <1>3, <1>4, <1>5, <1>6, <1>7 DEF Next

\* So it always holds.
LEMMA FrameInductive == Spec => []FrameInv
BY FrameInit, FrameStep, PTL DEF Spec

(***************************************************************************)
(* With few flips: a command or a reply on the wire is a good frame in which *)
(* exactly the bits of flips are not as they were sent.                     *)
(***************************************************************************)
FewFlips == MaxFlips <= 3

Damaged(b, n) ==
    \/ flips = {} /\ msg = can_channel_write(b, n)
    \/ \E i \in 0..(8 * n - 1) : flips = {i} /\ msg = can_channel_write(Err(b, i), n)
    \/ \E i, j \in 0..(8 * n - 1) :
          i # j /\ flips = {i, j} /\ msg = can_channel_write(Err(Err(b, i), j), n)
    \/ \E i, j, k \in 0..(8 * n - 1) :
          /\ i # j /\ i # k /\ j # k /\ flips = {i, j, k}
          /\ msg = can_channel_write(Err(Err(Err(b, i), j), k), n)

DamageInv ==
    origin \in {"device", "master"} =>
        \E n \in 6..11 : \E b \in [0..(n - 1) -> Byte] : Good(b, n) /\ Damaged(b, n)

\* Three bits are three.
LEMMA ThreeFlips ==
    ASSUME NEW i, NEW j, NEW k, i # j, i # k, j # k
    PROVE  Cardinality({i, j, k}) = 3
<1>1. IsFiniteSet({}) /\ Cardinality({}) = 0
  BY FS_EmptySet
<1>2. IsFiniteSet({i}) /\ Cardinality({i}) = 1
  BY FS_Singleton
<1>3. IsFiniteSet({i, j}) /\ Cardinality({i, j}) = 2
  <2>1. {i, j} = {i} \cup {j} /\ j \notin {i}
    OBVIOUS
  <2> QED BY <1>2, <2>1, FS_AddElement
<1>4. Cardinality({i, j, k}) = 3
  <2>1. {i, j, k} = {i, j} \cup {k} /\ k \notin {i, j}
    OBVIOUS
  <2> QED BY <1>3, <2>1, FS_AddElement
<1> QED BY <1>4

\* A frame that is sent is good,
LEMMA SentGood ==
    ASSUME Sound'
    PROVE  \E n \in 6..11 : \E b \in [0..(n - 1) -> Byte] :
               Good(b, n) /\ msg' = can_channel_write(b, n)
<1>1. PICK c \in 1..6, f \in Byte, s \in [0..10 -> Byte] :
         msg' = can_channel_write(Sealed(Filled(c + 5, c, f, s), c + 5), c + 5)
  BY DEF Sound
<1> DEFINE n == c + 5
           d == Filled(n, c, f, s)
           b == Sealed(d, n)
<1>2. n \in 6..11 /\ d \in [0..(n - 1) -> Byte]
  <2>1. n \in 6..11 /\ c \in Byte
    BY DEF Byte
  <2>2. d = [i \in 0..(n - 1) |-> IF i = 3 THEN c ELSE IF i = 4 THEN f ELSE s[i]]
    BY DEF Filled
  <2> HIDE DEF d, n
  <2>3. \A i \in 0..(n - 1) : s[i] \in Byte
    <3>1. \A i \in 0..(n - 1) : i \in 0..10
      BY <2>1
    <3> QED BY <3>1
  <2> QED BY <2>1, <2>2, <2>3
<1> HIDE DEF d, n
<1>3. crc8(d, n - 1) \in Byte
  BY CrcIsByte
<1>4. /\ b \in [0..(n - 1) -> Byte] /\ b[n - 1] = crc8(d, n - 1)
      /\ \A i \in 0..(n - 1 - 1) : b[i] = d[i]
  BY <1>2, <1>3 DEF Sealed
<1> HIDE DEF b
<1>5. crc8(b, n - 1) = crc8(d, n - 1)
  BY <1>4, CrcOfPrefix, ZenonT(30)
<1>6. Good(b, n) /\ msg' = can_channel_write(b, n)
  BY <1>1, <1>4, <1>5 DEF Good, b, d, n
<1> QED BY <1>2, <1>4, <1>6

\* a flip damages it in one more bit, of which there are at most three,
LEMMA FlipDamages ==
    ASSUME FewFlips, NEW n \in 6..11, NEW b \in [0..(n - 1) -> Byte], Damaged(b, n),
           NEW h \in 0..87, Flip(h)
    PROVE  Damaged(b, n)'
<1> USE FrameAssumption
<1>0. n \in 1..11 /\ \A x, m : can_channel_write(x, m).len = m - 3
  BY DEF can_channel_write
<1>1. /\ flips' = flips \cup {h} /\ msg' = Flipped(msg, h) /\ h \notin flips
      /\ Cardinality(flips) < MaxFlips
      /\ h < 8 * (msg.len + 3)
  <2>1. /\ Cardinality(flips) < MaxFlips /\ h < 8 * (msg.len + 3)
        /\ flips' = flips \cup {h} /\ msg' = Flipped(msg, h)
        /\ \A j \in flips : j < h
    BY DEF Flip
  <2>2. h \notin flips
    BY <2>1
  <2> QED BY <2>1, <2>2
<1>2. h \in 0..(8 * n - 1)
  <2>1. msg.len = n - 3
    BY <1>0 DEF Damaged
  <2> QED BY <1>1, <2>1
<1>3. CASE flips = {} /\ msg = can_channel_write(b, n)
  <2>1. flips' = {h} /\ msg' = can_channel_write(Err(b, h), n)
    BY <1>1, <1>2, <1>3, WireFlip
  <2> QED BY <1>2, <2>1 DEF Damaged
<1>4. ASSUME NEW i \in 0..(8 * n - 1), flips = {i}, msg = can_channel_write(Err(b, i), n)
      PROVE  Damaged(b, n)'
  <2>1. Err(b, i) \in [0..(n - 1) -> Byte]
    BY <1>0, FlipEffect
  <2>2. flips' = {i, h} /\ i # h /\ msg' = can_channel_write(Err(Err(b, i), h), n)
    BY <1>1, <1>2, <1>4, <2>1, WireFlip
  <2> QED BY <1>2, <2>2 DEF Damaged
<1>5. ASSUME NEW i \in 0..(8 * n - 1), NEW j \in 0..(8 * n - 1), i # j, flips = {i, j},
             msg = can_channel_write(Err(Err(b, i), j), n)
      PROVE  Damaged(b, n)'
  <2>1. Err(Err(b, i), j) \in [0..(n - 1) -> Byte]
    BY <1>0, FlipEffect
  <2>2. /\ flips' = {i, j, h} /\ i # h /\ j # h
        /\ msg' = can_channel_write(Err(Err(Err(b, i), j), h), n)
    BY <1>1, <1>2, <1>5, <2>1, WireFlip
  <2> QED BY <1>2, <1>5, <2>2 DEF Damaged
<1>6. ASSUME NEW i, NEW j, NEW k, i # j, i # k, j # k, flips = {i, j, k}
      PROVE  FALSE
  <2>1. Cardinality(flips) = 3
    BY <1>6, ThreeFlips
  <2>2. 3 < MaxFlips /\ MaxFlips \in Nat /\ MaxFlips <= 3
    BY <1>1, <2>1 DEF FewFlips
  <2> QED BY <2>2
<1> QED BY <1>3, <1>4, <1>5, <1>6 DEF Damaged

\* and no other step touches it.
LEMMA DamageStep == FewFlips /\ DamageInv /\ FrameInv /\ [Next]_vars => DamageInv'
<1> SUFFICES ASSUME FewFlips, DamageInv, FrameInv, [Next]_vars,
                    origin' \in {"device", "master"}
             PROVE  \E n \in 6..11 : \E b \in [0..(n - 1) -> Byte] : Good(b, n) /\ Damaged(b, n)'
  BY Zenon DEF DamageInv
<1>1. ASSUME NEW l \in Layout, NEW p \in Payload, l.func \in Func, Send(l, p)
      PROVE  \E n \in 6..11 : \E b \in [0..(n - 1) -> Byte] : Good(b, n) /\ Damaged(b, n)'
  <2>1. flips' = {}
    BY <1>1 DEF Send, FrameInv
  <2>2. Sound'
    BY <1>1, SendSound
  <2> QED BY <2>1, <2>2, SentGood, Zenon DEF Damaged
<1>2. ASSUME NEW i \in 0..87, Flip(i)
      PROVE  \E n \in 6..11 : \E b \in [0..(n - 1) -> Byte] : Good(b, n) /\ Damaged(b, n)'
  <2>1. origin \in {"device", "master"}
    BY <1>2 DEF Flip
  <2>2. PICK n \in 6..11 : \E b \in [0..(n - 1) -> Byte] : Good(b, n) /\ Damaged(b, n)
    BY <2>1 DEF DamageInv
  <2>3. PICK b \in [0..(n - 1) -> Byte] : Good(b, n) /\ Damaged(b, n)
    BY <2>2
  <2>4. Damaged(b, n)'
    BY <1>2, <2>3, FlipDamages
  <2> QED BY <2>3, <2>4
<1>3. CASE UNCHANGED <<msg, origin, flips>>
  <2>1. origin \in {"device", "master"} /\ \A b, n : Damaged(b, n)' = Damaged(b, n)
    BY <1>3 DEF Damaged
  <2> QED BY <2>1 DEF DamageInv
<1>4. ASSUME NEW h \in Header, NEW f \in Func, NEW a \in 0..5, NEW p \in Payload,
             Command(h, f, a, p)
      PROVE  \E n \in 6..11 : \E b \in [0..(n - 1) -> Byte] : Good(b, n) /\ Damaged(b, n)'
  <2>1. flips' = {}
    BY <1>4 DEF Command, FrameInv
  <2>2. Sound'
    BY <1>4, CommandSound
  <2> QED BY <2>1, <2>2, SentGood, Zenon DEF Damaged
<1>5. ASSUME NEW h \in Header, NEW n \in 0..1, Short(h, n) PROVE FALSE
  BY <1>5 DEF Short
<1>6. ASSUME NEW j \in Junk, Receive(j) PROVE UNCHANGED <<msg, origin, flips>>
  BY <1>6 DEF Receive
<1>7. CASE Done
  BY <1>7 DEF Done
<1>8. CASE UNCHANGED vars
  BY <1>3, <1>8 DEF vars
<1> QED BY <1>1, <1>2, <1>3, <1>4, <1>5, <1>6, <1>7, <1>8 DEF Next
-----------------------------------------------------------------------------
(***************************************************************************)
(* The theorems.                                                            *)
(***************************************************************************)
\* Whatever values a reply, a request or a command carries, its length byte and
\* its checksum pass the checks of the parser once it is packed into a CAN
\* message and unpacked again.
THEOREM OwnFramesPass == Spec => []OwnFramesAccepted
<1>1. FrameInv => OwnFramesAccepted
  <2> SUFFICES ASSUME FrameInv, buff.len > 0, origin \in {"device", "master"}, flips = {}
               PROVE  Accepted
    BY DEF OwnFramesAccepted
  <2>1. PICK j \in Byte : buff = can_channel_read(msg, j)
    BY DEF FrameInv
  <2>2. PICK c \in 1..6, f \in Byte, p \in [0..10 -> Byte] :
           msg = can_channel_write(Sealed(Filled(c + 5, c, f, p), c + 5), c + 5)
    BY DEF FrameInv, Sound
  <2>3. protocol_parser(buff)
    BY <2>1, <2>2, SealedAccepted
  <2> QED BY <2>3 DEF Accepted
<1> QED BY <1>1, FrameInductive, PTL

\* A message too short for a length byte and a function code is rejected, for
\* every header and whatever the stack holds in their place.
THEOREM ShortOnesFail == Spec => []ShortRejected
<1>1. FrameInv => ShortRejected
  <2> SUFFICES ASSUME FrameInv, origin = "short", buff.len > 0
               PROVE  ~protocol_parser(buff)
    BY DEF ShortRejected, Accepted
  <2>1. PICK j \in Byte : buff = can_channel_read(msg, j)
    BY DEF FrameInv
  <2>2. PICK n \in 0..1 : \E data : /\ \A i \in 0..(n + 2) : data[i] \in Byte
                                    /\ msg = can_channel_write(data, n + 3)
    BY DEF FrameInv, Stunted
  <2>3. PICK data : /\ \A i \in 0..(n + 2) : data[i] \in Byte
                    /\ msg = can_channel_write(data, n + 3)
    BY <2>2
  <2> QED BY <2>1, <2>3, ShortFails
<1> QED BY <1>1, FrameInductive, PTL

\* The table of crc8.c and its loop compute the remainder of the division by the
\* polynomial, inverted, over whatever is received: the table is compared with the
\* division for each of its 256 entries.
THEOREM ChecksumRight == Spec => []ChecksumIsRemainder
<1>1. ChecksumIsRemainder
  BY CrcIsRemainder DEF ChecksumIsRemainder
<1> QED BY <1>1, PTL

\* No command and no reply is accepted with one, two or three bits flipped on the
\* wire, whatever values it carries and wherever the bits are, in the identifier,
\* the data or the checksum itself.
THEOREM CorruptedFail == ASSUME FewFlips PROVE Spec => []CorruptedRejected
<1>1. Init => DamageInv
  BY DEF Init, DamageInv
<1>2. FrameInv /\ DamageInv => CorruptedRejected
  <2> SUFFICES ASSUME FrameInv, DamageInv, flips # {}, buff.len > 0
               PROVE  ~protocol_parser(buff)
    BY DEF CorruptedRejected, Accepted
  <2>1. origin \in {"device", "master"}
    BY DEF FrameInv
  <2>2. PICK n \in 6..11 : \E b \in [0..(n - 1) -> Byte] : Good(b, n) /\ Damaged(b, n)
    BY <2>1 DEF DamageInv
  <2>3. PICK b \in [0..(n - 1) -> Byte] : Good(b, n) /\ Damaged(b, n)
    BY <2>2
  <2>4. PICK r : buff = can_channel_read(msg, r)
    BY DEF FrameInv
  <2>5. ASSUME NEW e \in [0..(n - 1) -> Byte], msg = can_channel_write(e, n), ~Good(e, n)
        PROVE  ~protocol_parser(buff)
    <3>1. n \in 3..11 /\ \A i \in 0..(n - 1) : e[i] \in Byte
      BY <2>5
    <3>2. CrcChecked(buff) <=> Good(e, n)
      BY <2>4, <2>5, <3>1, GoodChecked
    <3> QED BY <2>5, <3>2 DEF protocol_parser
  <2>6. n \in 1..11
    OBVIOUS
  <2>7. \A e \in [0..(n - 1) -> Byte], i \in 0..(8 * n - 1) : Err(e, i) \in [0..(n - 1) -> Byte]
    BY <2>6, FlipEffect
  <2>8. ASSUME NEW i \in 0..(8 * n - 1), msg = can_channel_write(Err(b, i), n)
        PROVE  ~protocol_parser(buff)
    <3>1. PICK j \in 0..(8 * n - 1) : i # j
      <4>1. 0 \in 0..(8 * n - 1) /\ 1 \in 0..(8 * n - 1)
        BY <2>6
      <4> QED BY <4>1
    <3>2. ~Good(Err(b, i), n)
      BY <2>3, <2>6, <3>1, FlipsShow, Zenon
    <3> QED BY <2>5, <2>7, <2>8, <3>2
  <2>9. ASSUME NEW i \in 0..(8 * n - 1), NEW j \in 0..(8 * n - 1), i # j,
                msg = can_channel_write(Err(Err(b, i), j), n)
         PROVE  ~protocol_parser(buff)
    <3>1. ~Good(Err(Err(b, i), j), n)
      BY <2>3, <2>6, <2>9, FlipsShow, Zenon
    <3> QED BY <2>5, <2>7, <2>9, <3>1
  <2>10. ASSUME NEW i \in 0..(8 * n - 1), NEW j \in 0..(8 * n - 1), NEW k \in 0..(8 * n - 1),
                i # j, msg = can_channel_write(Err(Err(Err(b, i), j), k), n)
         PROVE  ~protocol_parser(buff)
    <3>1. ~Good(Err(Err(Err(b, i), j), k), n)
      BY <2>3, <2>6, <2>10, FlipsShow, Zenon
    <3> QED BY <2>5, <2>7, <2>10, <3>1
  <2> QED BY <2>3, <2>8, <2>9, <2>10 DEF Damaged
<1>3. Spec => []DamageInv
  BY <1>1, FrameInductive, DamageStep, PTL DEF Spec
<1> QED BY <1>2, <1>3, FrameInductive, PTL
=============================================================================
