----------------------------- MODULE WordLength -----------------------------
(***************************************************************************)
(* The length of a word in the protocol of the MikroTik API, as the client  *)
(* writes it before a word and reads it before one: one to five bytes, the  *)
(* number of which the top bits of the first byte tell.  An int of the      *)
(* program has 64 bits (the Manager is built for amd64 and arm64), and a    *)
(* length is at least 0.                                                    *)
(***************************************************************************)
EXTENDS Integers, Sequences, TLAPS

Byte == 0..255

\* The lengths of four bytes, far above any word of the client.
Length == {l \in Nat : l < 4294967296}

\* byte(l), byte(l >> 8), byte(l >> 16) and byte(l >> 24).
Byte0(l) == l % 256
Byte1(l) == (l \div 256) % 256
Byte2(l) == (l \div 65536) % 256
Byte3(l) == (l \div 16777216) % 256

\* b | 0x80, b | 0xC0 and b | 0xE0: the top one, two or three bits are set.
Or80(b) == 128 + (b % 128)
OrC0(b) == 192 + (b % 64)
OrE0(b) == 224 + (b % 32)

\* The encoding of the length l, whose bytes are b3 to b0.
Encode(l, b3, b2, b1, b0) ==
  IF l < 128 THEN <<b0>>
  ELSE IF l < 16384 THEN <<Or80(b1), b0>>
  ELSE IF l < 2097152 THEN <<OrC0(b2), b1, b0>>
  ELSE IF l < 268435456 THEN <<OrE0(b3), b2, b1, b0>>
  ELSE <<240, b3, b2, b1, b0>>

writeLen(l) == Encode(l, Byte3(l), Byte2(l), Byte1(l), Byte0(l))

\* What readLen makes of a stream that begins with the bytes of s: the length
\* and how many bytes it has consumed.  The tests of the first byte are those
\* of its top bits, b &^ 0x80 and so on clear them.
readLen(s) ==
  IF s[1] < 128 THEN [length |-> s[1], used |-> 1]
  ELSE IF s[1] < 192
  THEN [length |-> (s[1] % 128) * 256 + s[2], used |-> 2]
  ELSE IF s[1] < 224
  THEN [length |-> (s[1] % 64) * 65536 + s[2] * 256 + s[3], used |-> 3]
  ELSE IF s[1] < 240
  THEN [length |-> (s[1] % 32) * 16777216 + s[2] * 65536 + s[3] * 256 + s[4],
        used |-> 4]
  ELSE [length |-> s[2] * 16777216 + s[3] * 65536 + s[4] * 256 + s[5],
        used |-> 5]

\* The number whose bytes are b3 to b0.
Value(b3, b2, b1, b0) == b3 * 16777216 + b2 * 65536 + b1 * 256 + b0

-----------------------------------------------------------------------------
\* A length below 2^32 is the sum of its four bytes.
LEMMA FourBytes ==
  ASSUME NEW l \in Length
  PROVE  /\ l = Value(Byte3(l), Byte2(l), Byte1(l), Byte0(l))
         /\ Byte0(l) \in Byte /\ Byte1(l) \in Byte
         /\ Byte2(l) \in Byte /\ Byte3(l) \in Byte
<1>1. /\ l = 256 * (l \div 256) + (l % 256)
      /\ l % 256 \in Byte /\ l \div 256 \in Nat /\ l \div 256 < 16777216
  BY SMT DEF Byte, Length
<1>2. PICK q \in Nat : q = l \div 256
  BY <1>1, SMT
<1>3. /\ q = 256 * (q \div 256) + (q % 256)
      /\ q % 256 \in Byte /\ q \div 256 \in Nat /\ q \div 256 < 65536
  BY <1>1, <1>2, SMT DEF Byte
<1>4. PICK r \in Nat : r = q \div 256
  BY <1>3, SMT
<1>5. /\ r = 256 * (r \div 256) + (r % 256)
      /\ r % 256 \in Byte /\ r \div 256 \in Byte
  BY <1>3, <1>4, SMT DEF Byte
<1>6. l \div 65536 = r
  BY <1>1, <1>2, <1>3, <1>4, SMT DEF Byte, Length
<1>7. l \div 16777216 = r \div 256
  BY <1>1, <1>2, <1>3, <1>4, <1>5, SMT DEF Byte, Length
<1>8. (r \div 256) % 256 = r \div 256
  BY <1>5, SMT DEF Byte
<1> QED
  BY <1>1, <1>2, <1>3, <1>4, <1>5, <1>6, <1>7, <1>8, SMT
     DEF Byte0, Byte1, Byte2, Byte3, Value

\* What readLen makes of each of the five encodings.  One byte:
LEMMA ReadShort ==
  ASSUME NEW b0 \in 0..127, NEW s, s[1] = b0
  PROVE  readLen(s) = [length |-> b0, used |-> 1]
  BY SMT DEF readLen, Byte, Value

\* Two bytes: the second carries the lower bits.
LEMMA ReadTwo ==
  ASSUME NEW b1 \in 0..63, NEW s, s[1] = Or80(b1), s[2] \in Byte
  PROVE  readLen(s) = [length |-> Value(0, 0, b1, s[2]), used |-> 2]
<1>1. Or80(b1) = 128 + b1 /\ (128 + b1) % 128 = b1
  BY SMT DEF Or80
<1> QED
  BY <1>1, SMT DEF readLen, Byte, Value

\* Three bytes.
LEMMA ReadThree ==
  ASSUME NEW b2 \in 0..31, NEW s, s[1] = OrC0(b2), s[2] \in Byte, s[3] \in Byte
  PROVE  readLen(s) = [length |-> Value(0, b2, s[2], s[3]), used |-> 3]
<1>1. OrC0(b2) = 192 + b2 /\ (192 + b2) % 64 = b2
  BY SMT DEF OrC0
<1> QED
  BY <1>1, SMT DEF readLen, Byte, Value

\* Four bytes.
LEMMA ReadFour ==
  ASSUME NEW b3 \in 0..15, NEW s, s[1] = OrE0(b3),
         s[2] \in Byte, s[3] \in Byte, s[4] \in Byte
  PROVE  readLen(s) = [length |-> Value(b3, s[2], s[3], s[4]), used |-> 4]
<1>1. OrE0(b3) = 224 + b3 /\ (224 + b3) % 32 = b3
  BY SMT DEF OrE0
<1> QED
  BY <1>1, SMT DEF readLen, Byte, Value

\* Five bytes: the first carries none of the length.
LEMMA ReadFive ==
  ASSUME NEW s, s[1] = 240,
         s[2] \in Byte, s[3] \in Byte, s[4] \in Byte, s[5] \in Byte
  PROVE  readLen(s) = [length |-> Value(s[2], s[3], s[4], s[5]), used |-> 5]
  BY SMT DEF readLen, Byte, Value

\* What is read back of an encoding is the number of its four bytes.
LEMMA EncodeRoundTrip ==
  ASSUME NEW b3 \in Byte, NEW b2 \in Byte, NEW b1 \in Byte,
         NEW b0 \in Byte, NEW l \in Nat,
         l = Value(b3, b2, b1, b0)
  PROVE  \A s \in Seq(Byte) :
           (\A k \in 1..Len(Encode(l, b3, b2, b1, b0)) :
              s[k] = Encode(l, b3, b2, b1, b0)[k])
           => readLen(s) = [length |-> l, used |-> Len(Encode(l, b3, b2, b1, b0))]
<1> DEFINE e == Encode(l, b3, b2, b1, b0)
<1>1. l < 128 => l = b0 /\ b0 \in 0..127
  BY SMT DEF Value, Byte
<1>2. l < 16384 => l = Value(0, 0, b1, b0) /\ b1 \in 0..63
  BY SMT DEF Value, Byte
<1>3. l < 2097152 => l = Value(0, b2, b1, b0) /\ b2 \in 0..31
  BY SMT DEF Value, Byte
<1>4. l < 268435456 => b3 \in 0..15
  BY SMT DEF Value, Byte
<1>5. \/ l < 128 /\ e = <<b0>>
      \/ l < 16384 /\ e = <<Or80(b1), b0>>
      \/ l < 2097152 /\ e = <<OrC0(b2), b1, b0>>
      \/ l < 268435456 /\ e = <<OrE0(b3), b2, b1, b0>>
      \/ e = <<240, b3, b2, b1, b0>>
  BY SMT DEF Encode
<1> HIDE DEF e
<1> SUFFICES ASSUME NEW s \in Seq(Byte), \A k \in 1..Len(e) : s[k] = e[k]
             PROVE  readLen(s) = [length |-> l, used |-> Len(e)]
  BY SMT DEF e
<1>6. CASE l < 128 /\ e = <<b0>>
  <2>1. Len(e) = 1 /\ s[1] = b0
    BY <1>6, SMT
  <2>2. l = b0 /\ b0 \in 0..127
    BY <1>1, <1>6, SMT
  <2> QED
    BY <2>1, <2>2, ReadShort, Zenon
<1>7. CASE l < 16384 /\ e = <<Or80(b1), b0>>
  <2>1. Len(e) = 2 /\ s[1] = Or80(b1) /\ s[2] = b0
    BY <1>7, SMT
  <2>2. l = Value(0, 0, b1, b0) /\ b1 \in 0..63
    BY <1>2, <1>7, SMT
  <2> QED
    BY <2>1, <2>2, ReadTwo
<1>8. CASE l < 2097152 /\ e = <<OrC0(b2), b1, b0>>
  <2>1. Len(e) = 3 /\ s[1] = OrC0(b2) /\ s[2] = b1 /\ s[3] = b0
    BY <1>8, SMT
  <2>2. l = Value(0, b2, b1, b0) /\ b2 \in 0..31
    BY <1>3, <1>8, SMT
  <2> QED
    BY <2>1, <2>2, ReadThree
<1>9. CASE l < 268435456 /\ e = <<OrE0(b3), b2, b1, b0>>
  <2>1. Len(e) = 4 /\ s[1] = OrE0(b3) /\ s[2] = b2 /\ s[3] = b1 /\ s[4] = b0
    BY <1>9, SMT
  <2>2. b3 \in 0..15
    BY <1>4, <1>9, SMT
  <2> QED
    BY <2>1, <2>2, ReadFour
<1>10. CASE e = <<240, b3, b2, b1, b0>>
  <2>1. Len(e) = 5 /\ s[1] = 240 /\ s[2] = b3 /\ s[3] = b2 /\ s[4] = b1
        /\ s[5] = b0
    BY <1>10, SMT
  <2> QED
    BY <2>1, ReadFive
<1> QED
  BY <1>5, <1>6, <1>7, <1>8, <1>9, <1>10, SMT

\* The client reads back the length it has written, from a stream that begins
\* with what it has written, and consumes no more and no less: no length at
\* the limit of an encoding is cut or takes a byte of the word.
THEOREM LengthRoundTrip ==
  ASSUME NEW l \in Length,
         NEW s \in Seq(Byte),
         \A k \in 1..Len(writeLen(l)) : s[k] = writeLen(l)[k]
  PROVE  readLen(s) = [length |-> l, used |-> Len(writeLen(l))]
<1>1. \A b3, b2, b1, b0 \in Byte :
        l = Value(b3, b2, b1, b0)
          => \A r \in Seq(Byte) :
              (\A k \in 1..Len(Encode(l, b3, b2, b1, b0)) :
                 r[k] = Encode(l, b3, b2, b1, b0)[k])
              => readLen(r) = [length |-> l,
                              used |-> Len(Encode(l, b3, b2, b1, b0))]
  <2>1. l \in Nat
    BY SMT DEF Length
  <2> SUFFICES ASSUME NEW b3 \in Byte, NEW b2 \in Byte, NEW b1 \in Byte,
                      NEW b0 \in Byte, l = Value(b3, b2, b1, b0)
               PROVE  \A r \in Seq(Byte) :
                        (\A k \in 1..Len(Encode(l, b3, b2, b1, b0)) :
                           r[k] = Encode(l, b3, b2, b1, b0)[k])
                        => readLen(r) =
                             [length |-> l,
                              used |-> Len(Encode(l, b3, b2, b1, b0))]
    OBVIOUS
  <2> QED
    BY <2>1, EncodeRoundTrip
<1> QED
  BY <1>1, FourBytes, SMT DEF writeLen

\* Only the encoding of 0 begins with 0.
LEMMA EncodeStart ==
  ASSUME NEW b3 \in Byte, NEW b2 \in Byte, NEW b1 \in Byte,
         NEW b0 \in Byte, NEW l \in Nat,
         l = Value(b3, b2, b1, b0)
  PROVE  Encode(l, b3, b2, b1, b0)[1] = 0 <=> l = 0
<1>1. CASE l < 128
  <2>1. l = b0
    BY <1>1, SMT DEF Value, Byte
  <2> QED
    BY <1>1, <2>1, SMT DEF Encode
<1>2. CASE l >= 128
  <2>1. /\ b1 % 128 \in 0..127 /\ b2 % 64 \in 0..63 /\ b3 % 32 \in 0..31
    BY SMT DEF Byte
  <2>2. /\ Or80(b1) \in 128..255 /\ OrC0(b2) \in 128..255
        /\ OrE0(b3) \in 128..255
    BY <2>1, SMT DEF Or80, OrC0, OrE0
  <2>3. Encode(l, b3, b2, b1, b0)[1] \in {Or80(b1), OrC0(b2), OrE0(b3), 240}
    BY <1>2, SMT DEF Encode
  <2> QED
    BY <1>2, <2>2, <2>3, SMT
<1> QED
  BY <1>1, <1>2, SMT

\* An empty word ends a sentence: the bytes of a length begin with 0 only if
\* the length is 0, so no word is taken for the end and the end for no word.
THEOREM ZeroEndsSentence ==
  ASSUME NEW l \in Length
  PROVE  writeLen(l)[1] = 0 <=> l = 0
<1>1. /\ l = Value(Byte3(l), Byte2(l), Byte1(l), Byte0(l))
      /\ Byte0(l) \in Byte /\ Byte1(l) \in Byte
      /\ Byte2(l) \in Byte /\ Byte3(l) \in Byte
  BY FourBytes, Zenon DEF Byte
<1>2. l \in Nat
  BY SMT DEF Length
<1> QED
  BY <1>1, <1>2, EncodeStart DEF writeLen
=============================================================================
