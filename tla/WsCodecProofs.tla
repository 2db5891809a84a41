---------------------------- MODULE WsCodecProofs ----------------------------
(***************************************************************************)
(* Proofs about WsCodec for every opcode, payload, mask and form of length: *)
(* the masks are undone bit by bit, lengths of 7, 16 and 64 bits are read   *)
(* as they were written, and the frame is found whatever lies behind it.    *)
(***************************************************************************)
EXTENDS WsCodec, SequenceTheorems, TLAPS

(* The places of the bits of a byte. *)

BitPlaces == {1, 2, 4, 8, 16, 32, 64, 128}

(* A byte is the sum of its bits. *)
LEMMA ByteIsBits ==
  ASSUME NEW a \in Bytes
  PROVE  /\ \A d \in BitPlaces : Bit(a, d) \in {0, 1}
         /\ a = Bit(a, 1) + 2 * Bit(a, 2) + 4 * Bit(a, 4) + 8 * Bit(a, 8)
                + 16 * Bit(a, 16) + 32 * Bit(a, 32) + 64 * Bit(a, 64) + 128 * Bit(a, 128)
<1>1. \A d \in BitPlaces : Bit(a, d) \in {0, 1}
  BY DEF Bit, BitPlaces, Bytes
<1>2. a = Bit(a, 1) + 2 * Bit(a, 2) + 4 * Bit(a, 4) + 8 * Bit(a, 8)
                + 16 * Bit(a, 16) + 32 * Bit(a, 32) + 64 * Bit(a, 64) + 128 * Bit(a, 128)
  BY DEF Bit, Bytes
<1> QED
  BY <1>1, <1>2

(* And any sum of bits is a byte that has those bits. *)
LEMMA BitsAreByte ==
  ASSUME NEW e0 \in {0, 1}, NEW e1 \in {0, 1}, NEW e2 \in {0, 1}, NEW e3 \in {0, 1},
         NEW e4 \in {0, 1}, NEW e5 \in {0, 1}, NEW e6 \in {0, 1}, NEW e7 \in {0, 1},
         NEW s, s = e0 + 2 * e1 + 4 * e2 + 8 * e3 + 16 * e4 + 32 * e5 + 64 * e6 + 128 * e7
  PROVE  /\ s \in Bytes
         /\ Bit(s, 1) = e0 /\ Bit(s, 2) = e1 /\ Bit(s, 4) = e2 /\ Bit(s, 8) = e3
         /\ Bit(s, 16) = e4 /\ Bit(s, 32) = e5 /\ Bit(s, 64) = e6 /\ Bit(s, 128) = e7
<1>1. s \in Bytes BY DEF Bytes
<1>2. Bit(s, 1) = e0 BY DEF Bit
<1>3. Bit(s, 2) = e1 BY DEF Bit
<1>4. Bit(s, 4) = e2 BY DEF Bit
<1>5. Bit(s, 8) = e3 BY DEF Bit
<1>6. Bit(s, 16) = e4 BY DEF Bit
<1>7. Bit(s, 32) = e5 BY DEF Bit
<1>8. Bit(s, 64) = e6 BY DEF Bit
<1>9. Bit(s, 128) = e7 BY DEF Bit
<1> QED
  BY <1>1, <1>2, <1>3, <1>4, <1>5, <1>6, <1>7, <1>8, <1>9

(* The exclusive or of two bytes is a byte, in which a bit is set where     *)
(* theirs differ.                                                           *)
LEMMA XorBits ==
  ASSUME NEW a \in Bytes, NEW b \in Bytes
  PROVE  /\ Xor(a, b) \in Bytes
         /\ \A d \in BitPlaces : Bit(Xor(a, b), d) = IF Bit(a, d) = Bit(b, d) THEN 0 ELSE 1
<1> DEFINE e(d) == IF Bit(a, d) = Bit(b, d) THEN 0 ELSE 1
<1>1. \A d \in BitPlaces : e(d) \in {0, 1} /\ XorBit(a, b, d) = d * e(d)
  BY DEF XorBit, BitPlaces
<1>2. Xor(a, b) = e(1) + 2 * e(2) + 4 * e(4) + 8 * e(8) + 16 * e(16) + 32 * e(32)
                  + 64 * e(64) + 128 * e(128)
  BY <1>1 DEF Xor, XorBit, BitPlaces
<1> HIDE DEF e
<1>3. /\ Xor(a, b) \in Bytes
      /\ Bit(Xor(a, b), 1) = e(1) /\ Bit(Xor(a, b), 2) = e(2) /\ Bit(Xor(a, b), 4) = e(4)
      /\ Bit(Xor(a, b), 8) = e(8) /\ Bit(Xor(a, b), 16) = e(16)
      /\ Bit(Xor(a, b), 32) = e(32) /\ Bit(Xor(a, b), 64) = e(64)
      /\ Bit(Xor(a, b), 128) = e(128)
  <2>1. /\ e(1) \in {0, 1} /\ e(2) \in {0, 1} /\ e(4) \in {0, 1} /\ e(8) \in {0, 1}
        /\ e(16) \in {0, 1} /\ e(32) \in {0, 1} /\ e(64) \in {0, 1} /\ e(128) \in {0, 1}
    BY <1>1 DEF BitPlaces
  <2> QED
    BY <1>2, <2>1, BitsAreByte
<1>4. \A d \in BitPlaces : Bit(Xor(a, b), d) = e(d)
  BY <1>3 DEF BitPlaces
<1> QED
  BY <1>3, <1>4 DEF e

(* Masking twice with one byte changes nothing: unmasking is masking.       *)
LEMMA XorTwice ==
  ASSUME NEW a \in Bytes, NEW b \in Bytes
  PROVE  Xor(Xor(a, b), b) = a
<1> DEFINE x == Xor(a, b)
           y == Xor(x, b)
<1>1. x \in Bytes /\ y \in Bytes
  BY XorBits
<1>2. \A d \in BitPlaces : Bit(a, d) \in {0, 1} /\ Bit(b, d) \in {0, 1}
  BY ByteIsBits
<1>3. \A d \in BitPlaces : Bit(x, d) = IF Bit(a, d) = Bit(b, d) THEN 0 ELSE 1
  BY XorBits
<1> HIDE DEF x
<1>4. \A d \in BitPlaces : Bit(y, d) = IF Bit(x, d) = Bit(b, d) THEN 0 ELSE 1
  BY <1>1, XorBits
<1> HIDE DEF y
<1>5. \A d \in BitPlaces : Bit(y, d) = Bit(a, d)
  BY <1>2, <1>3, <1>4
<1>6. /\ Bit(y, 1) = Bit(a, 1) /\ Bit(y, 2) = Bit(a, 2) /\ Bit(y, 4) = Bit(a, 4)
      /\ Bit(y, 8) = Bit(a, 8) /\ Bit(y, 16) = Bit(a, 16) /\ Bit(y, 32) = Bit(a, 32)
      /\ Bit(y, 64) = Bit(a, 64) /\ Bit(y, 128) = Bit(a, 128)
  BY <1>5 DEF BitPlaces
<1>7. y = a
  BY <1>1, <1>6, ByteIsBits
<1> QED
  BY <1>7 DEF x, y
------------------------------------------------------------------------------
(* The length of a frame's head, with the length in it. *)
HeadLen(form) == CASE form = 7 -> 2 [] form = 16 -> 4 [] form = 64 -> 10

LEMMA HeadShape ==
  ASSUME NEW opcode \in Opcodes, NEW n \in Nat, n < Huge, NEW form \in Forms(n)
  PROVE  /\ ClientHead(opcode, n, form) \in Seq(Bytes)
         /\ Len(ClientHead(opcode, n, form)) = HeadLen(form)
         /\ HeadLen(form) \in {2, 4, 10}
<1>1. form \in {7, 16, 64}
  BY SMT DEF Forms
<1>2. CASE form = 7
  <2>1. n < 126 /\ 128 + opcode \in Bytes /\ 128 + n \in Bytes
    BY SMT, <1>2 DEF Forms, Opcodes, Bytes
  <2> QED
    BY SMT, <1>2, <2>1 DEF ClientHead, HeadLen
<1>3. CASE form = 16
  <2>1. n < 65536 /\ 128 + opcode \in Bytes /\ 254 \in Bytes
    BY SMT, <1>3 DEF Forms, Opcodes, Bytes
  <2>2. n \div 256 \in Bytes /\ n % 256 \in Bytes
    BY SMT, <2>1 DEF Bytes
  <2> QED
    BY SMT, <1>3, <2>1, <2>2 DEF ClientHead, HeadLen
<1>4. CASE form = 64
  <2>1. 128 + opcode \in Bytes /\ 255 \in Bytes /\ 0 \in Bytes
    BY DEF Opcodes, Bytes
  <2>2. n \div 65536 \in Bytes /\ (n \div 256) % 256 \in Bytes /\ n % 256 \in Bytes
    <3>1. n \div 65536 \in 0..63
      BY SMT DEF Huge
    <3>2. n % 256 \in 0..255 /\ (n \div 256) % 256 \in 0..255
      OBVIOUS
    <3> QED
      BY <3>1, <3>2 DEF Bytes
  <2> QED
    BY SMT, <1>4, <2>1, <2>2 DEF ClientHead, HeadLen
<1> QED
  BY <1>1, <1>2, <1>3, <1>4

(* parse_frame() reads the length that the peer wrote, in any form.         *)
LEMMA LengthRead ==
  ASSUME NEW opcode \in Opcodes, NEW n \in Nat, n < Huge, NEW form \in Forms(n),
         NEW b, \A i \in 1..HeadLen(form) : b[i] = ClientHead(opcode, n, form)[i]
  PROVE  /\ Length(b) = [n |-> n, at |-> HeadLen(form) + 1]
         /\ b[1] = 128 + opcode
         /\ b[2] \in 128..255
<1>1. form \in {7, 16, 64}
  BY SMT DEF Forms
<1>2. CASE form = 7
  <2>1. b[1] = 128 + opcode /\ b[2] = 128 + n /\ n < 126
    BY SMT, <1>2 DEF Forms, ClientHead, HeadLen
  <2>2. b[2] % 128 = n
    BY <2>1
  <2> QED
    BY <1>2, <2>1, <2>2 DEF Length, HeadLen
<1>3. CASE form = 16
  <2>1. b[1] = 128 + opcode /\ b[2] = 254 /\ b[3] = n \div 256 /\ b[4] = n % 256
    BY SMT, <1>3 DEF ClientHead, HeadLen
  <2>2. b[2] % 128 = 126
    BY <2>1
  <2>3. SubSeq(b, 3, 4)[1] = b[3] /\ SubSeq(b, 3, 4)[2] = b[4]
    OBVIOUS
  <2>4. 256 * b[3] + b[4] = n
    BY <2>1
  <2>5. Length(b) = [n |-> n, at |-> 5]
    BY <2>2, <2>3, <2>4 DEF Length, Short
  <2> QED
    BY <1>3, <2>1, <2>5 DEF HeadLen
<1>4. CASE form = 64
  <2>1. /\ b[1] = 128 + opcode /\ b[2] = 255
        /\ b[3] = 0 /\ b[4] = 0 /\ b[5] = 0 /\ b[6] = 0 /\ b[7] = 0
        /\ b[8] = n \div 65536 /\ b[9] = (n \div 256) % 256 /\ b[10] = n % 256
    BY SMT, <1>4 DEF ClientHead, HeadLen
  <2>2. b[2] % 128 = 127
    BY <2>1
  <2>3. \A i \in 1..8 : SubSeq(b, 3, 10)[i] = b[i + 2]
    OBVIOUS
  <2>4. 65536 * b[8] + 256 * b[9] + b[10] = n /\ b[8] < 64 /\ b[8] \in Nat
    <3>1. n \div 65536 = (n \div 256) \div 256 /\ n \div 65536 \in 0..63
      BY SMT DEF Huge
    <3>2. n = 256 * (n \div 256) + (n % 256) /\ n \div 256 \in Nat
      OBVIOUS
    <3>3. n \div 256 = 256 * ((n \div 256) \div 256) + ((n \div 256) % 256)
      BY <3>2
    <3> QED
      BY SMT, <2>1, <3>1, <3>2, <3>3
  <2>5. Long(SubSeq(b, 3, 10)) = n
    BY SMT, <2>1, <2>3, <2>4 DEF Long
  <2>6. Length(b) = [n |-> n, at |-> 11]
    BY <2>2, <2>5 DEF Length
  <2> QED
    BY <1>4, <2>1, <2>6 DEF HeadLen
<1> QED
  BY <1>1, <1>2, <1>3, <1>4
------------------------------------------------------------------------------
(* Masking keeps the length and stays in bytes.                             *)
LEMMA MaskedBytes ==
  ASSUME NEW payload \in Seq(Bytes), NEW mask \in Masks
  PROVE  /\ Masked(payload, mask) \in Seq(Bytes)
         /\ Len(Masked(payload, mask)) = Len(payload)
         /\ \A i \in 1..Len(payload) : /\ ((i - 1) % 4) + 1 \in 1..4
                                       /\ mask[((i - 1) % 4) + 1] \in Bytes
                                       /\ Masked(payload, mask)[i]
                                            = Xor(payload[i], mask[((i - 1) % 4) + 1])
<1>1. mask \in Seq(Bytes) /\ Len(mask) = 4
  BY DEF Masks
<1>2. \A i \in 1..Len(payload) : ((i - 1) % 4) + 1 \in 1..4
  OBVIOUS
<1>3. \A k \in 1..4 : mask[k] \in Bytes
  BY <1>1, ElementOfSeq
<1>4. \A i \in 1..Len(payload) : mask[((i - 1) % 4) + 1] \in Bytes
  BY <1>2, <1>3
<1>5. \A i \in 1..Len(payload) : Xor(payload[i], mask[((i - 1) % 4) + 1]) \in Bytes
  BY <1>4, XorBits
<1>6. Len(payload) \in Nat
  OBVIOUS
<1> QED
  BY <1>2, <1>4, <1>5, <1>6 DEF Masked

(* Where the elements of a concatenation come from.                         *)
LEMMA Concat ==
  ASSUME NEW s \in Seq(Bytes), NEW t \in Seq(Bytes)
  PROVE  /\ s \o t \in Seq(Bytes)
         /\ Len(s \o t) = Len(s) + Len(t)
         /\ \A i \in 1..Len(s) : (s \o t)[i] = s[i]
         /\ \A i \in 1..Len(t) : (s \o t)[Len(s) + i] = t[i]
<1> DEFINE m == Len(s)
           k == Len(t)
<1>1. /\ s \o t \in Seq(Bytes)
      /\ Len(s \o t) = Len(s) + Len(t)
      /\ \A i \in 1..(Len(s) + Len(t)) : (s \o t)[i] =
           IF i <= Len(s) THEN s[i] ELSE t[i - Len(s)]
  BY ConcatProperties
<1>2. m \in Nat /\ k \in Nat
  OBVIOUS
<1>3. \A i \in 1..(m + k) : (s \o t)[i] = IF i <= m THEN s[i] ELSE t[i - m]
  BY <1>1
<1>4. \A i \in 1..m : (s \o t)[i] = s[i]
  BY <1>2, <1>3
<1>5. ASSUME NEW i \in 1..k
      PROVE  (s \o t)[m + i] = t[i]
  <2>1. m + i \in 1..(m + k) /\ ~(m + i <= m) /\ (m + i) - m = i
    BY <1>2
  <2> QED
    BY <1>3, <2>1
<1> QED
  BY <1>1, <1>2, <1>4, <1>5

(* A peer's frame: head, mask, masked payload. *)
LEMMA FrameShape ==
  ASSUME NEW opcode \in Opcodes, NEW payload \in Seq(Bytes), Len(payload) < Huge,
         NEW mask \in Masks, NEW form \in Forms(Len(payload))
  PROVE  LET b == ClientFrame(opcode, payload, mask, form)
             at == HeadLen(form) + 4
         IN  /\ b \in Seq(Bytes)
             /\ Len(b) = at + Len(payload)
             /\ \A i \in 1..HeadLen(form) : b[i] = ClientHead(opcode, Len(payload), form)[i]
             /\ \A i \in 1..4 : b[HeadLen(form) + i] = mask[i]
             /\ \A i \in 1..Len(payload) : b[at + i] = Masked(payload, mask)[i]
<1> DEFINE h == ClientHead(opcode, Len(payload), form)
           x == Masked(payload, mask)
           l == HeadLen(form)
           n == Len(payload)
<1>1. h \in Seq(Bytes) /\ Len(h) = l /\ l \in Nat /\ n \in Nat
  BY HeadShape
<1>2. mask \in Seq(Bytes) /\ Len(mask) = 4
  BY DEF Masks
<1>3. x \in Seq(Bytes) /\ Len(x) = n
  BY MaskedBytes
<1>4. ClientFrame(opcode, payload, mask, form) = h \o mask \o x
  BY DEF ClientFrame
<1> HIDE DEF h, x, l, n
<1>5. /\ h \o mask \in Seq(Bytes) /\ Len(h \o mask) = l + 4
      /\ \A i \in 1..l : (h \o mask)[i] = h[i]
      /\ \A i \in 1..4 : (h \o mask)[l + i] = mask[i]
  <2>1. /\ h \o mask \in Seq(Bytes) /\ Len(h \o mask) = Len(h) + Len(mask)
        /\ \A i \in 1..Len(h) : (h \o mask)[i] = h[i]
        /\ \A i \in 1..Len(mask) : (h \o mask)[Len(h) + i] = mask[i]
    BY <1>1, <1>2, Concat
  <2> QED
    BY <1>1, <1>2, <2>1
<1> DEFINE g == h \o mask
<1> HIDE DEF g
<1>6. /\ g \in Seq(Bytes) /\ Len(g) = l + 4
      /\ \A i \in 1..l : g[i] = h[i]
      /\ \A i \in 1..4 : g[l + i] = mask[i]
  BY <1>5 DEF g
<1>7. /\ g \o x \in Seq(Bytes)
      /\ Len(g \o x) = (l + 4) + n
      /\ \A i \in 1..(l + 4) : (g \o x)[i] = g[i]
      /\ \A i \in 1..n : (g \o x)[l + 4 + i] = x[i]
  <2>1. /\ g \o x \in Seq(Bytes) /\ Len(g \o x) = Len(g) + Len(x)
        /\ \A i \in 1..Len(g) : (g \o x)[i] = g[i]
        /\ \A i \in 1..Len(x) : (g \o x)[Len(g) + i] = x[i]
    BY <1>3, <1>6, Concat
  <2> QED
    BY <1>3, <1>6, <2>1
<1>8. \A i \in 1..l : (g \o x)[i] = h[i]
  BY <1>1, <1>6, <1>7
<1>9. \A i \in 1..4 : (g \o x)[l + i] = mask[i]
  <2> TAKE i \in 1..4
  <2>1. l + i \in 1..(l + 4)
    BY <1>1
  <2> QED
    BY <1>6, <1>7, <2>1
<1>10. ClientFrame(opcode, payload, mask, form) = g \o x
  BY <1>4 DEF g
<1> QED
  BY <1>7, <1>8, <1>9, <1>10 DEF h, x, l, n

(* What is read at the start of a buffer that starts with a peer's frame:   *)
(* its length, its mask and its masked payload.                             *)
LEMMA FrameRead ==
  ASSUME NEW opcode \in Opcodes, NEW payload \in Seq(Bytes), Len(payload) < Huge,
         NEW mask \in Masks, NEW form \in Forms(Len(payload)), NEW b \in Seq(Bytes),
         Len(ClientFrame(opcode, payload, mask, form)) <= Len(b),
         \A i \in 1..Len(ClientFrame(opcode, payload, mask, form)) :
           b[i] = ClientFrame(opcode, payload, mask, form)[i]
  PROVE  /\ Length(b) = [n |-> Len(payload), at |-> HeadLen(form) + 1]
         /\ b[1] = 128 + opcode /\ b[2] \in 128..255
         /\ SubSeq(b, HeadLen(form) + 1, HeadLen(form) + 4) = mask
         /\ Len(ClientFrame(opcode, payload, mask, form)) = HeadLen(form) + 4 + Len(payload)
         /\ SubSeq(b, HeadLen(form) + 5, HeadLen(form) + 4 + Len(payload))
              = Masked(payload, mask)
<1> DEFINE c == ClientFrame(opcode, payload, mask, form)
           l == HeadLen(form)
           n == Len(payload)
           head == ClientHead(opcode, n, form)
           x == Masked(payload, mask)
<1>1. n \in Nat /\ n < Huge /\ l \in {2, 4, 10}
  BY HeadShape
<1>2. /\ Len(c) = l + 4 + n
      /\ \A i \in 1..l : c[i] = head[i]
      /\ \A i \in 1..4 : c[l + i] = mask[i]
      /\ \A i \in 1..n : c[l + 4 + i] = x[i]
  BY FrameShape
<1>3. Len(c) <= Len(b) /\ \A i \in 1..Len(c) : b[i] = c[i]
  OBVIOUS
<1>4. Length(b) = [n |-> n, at |-> l + 1] /\ b[1] = 128 + opcode /\ b[2] \in 128..255
  <2>1. \A i \in 1..HeadLen(form) : b[i] = ClientHead(opcode, n, form)[i]
    <3> HIDE DEF c, x, n, head, l
    <3>1. \A i \in 1..l : i \in 1..Len(c)
      BY <1>1, <1>2
    <3>2. \A i \in 1..l : b[i] = head[i]
      BY <1>2, <1>3, <3>1
    <3> QED
      BY <3>2 DEF head, l
  <2> HIDE DEF c, x
  <2> QED
    BY <1>1, <2>1, LengthRead
<1> HIDE DEF c, l, n, head
<1>5. SubSeq(b, l + 1, l + 4) = mask
  <2>1. mask \in Seq(Bytes) /\ Len(mask) = 4
    BY DEF Masks
  <2>2. \A i \in 1..4 : b[l + i] = mask[i]
    <3>1. \A i \in 1..4 : l + i \in 1..Len(c)
      BY <1>1, <1>2
    <3> QED
      BY <1>2, <1>3, <3>1
  <2>3. \A i \in (l + 1)..(l + 4) : b[i] \in Bytes
    <3>1. \A i \in (l + 1)..(l + 4) : i \in 1..Len(b)
      BY <1>1, <1>2, <1>3
    <3> QED
      BY <3>1, ElementOfSeq
  <2>4. /\ SubSeq(b, l + 1, l + 4) \in Seq(Bytes)
        /\ Len(SubSeq(b, l + 1, l + 4)) = 4
        /\ \A i \in 1..4 : SubSeq(b, l + 1, l + 4)[i] = b[l + i]
    <3>1. l + 1 \in Int /\ l + 4 \in Int /\ (l + 4) - (l + 1) + 1 = 4 /\ l + 1 <= l + 4
          /\ \A i \in 1..4 : (l + 1) + i - 1 = l + i
      BY <1>1
    <3>2. /\ SubSeq(b, l + 1, l + 4) \in Seq(Bytes)
          /\ Len(SubSeq(b, l + 1, l + 4)) = (l + 4) - (l + 1) + 1
          /\ \A i \in 1..((l + 4) - (l + 1) + 1) :
               SubSeq(b, l + 1, l + 4)[i] = b[(l + 1) + i - 1]
      BY <2>3, <3>1, SubSeqProperties
    <3> QED
      BY <3>1, <3>2
  <2> DEFINE m == SubSeq(b, l + 1, l + 4)
  <2> HIDE DEF m
  <2>5. m \in Seq(Bytes) /\ Len(m) = Len(mask) /\ \A i \in 1..Len(m) : m[i] = mask[i]
    BY <2>1, <2>2, <2>4 DEF m
  <2>6. m = mask
    BY <2>1, <2>5, SeqEqual
  <2> QED
    BY <2>6 DEF m
<1>6. SubSeq(b, l + 5, l + 4 + n) = x
  <2>1. x \in Seq(Bytes) /\ Len(x) = n
    BY MaskedBytes DEF n
  <2> HIDE DEF x
  <2>2. \A i \in 1..n : b[l + 4 + i] = x[i] /\ b[l + 4 + i] \in Bytes
    <3>1. \A i \in 1..n : l + 4 + i \in 1..Len(c) /\ l + 4 + i \in 1..Len(b)
      BY <1>1, <1>2, <1>3
    <3> QED
      BY <1>2, <1>3, <3>1, ElementOfSeq
  <2>3. \A i \in (l + 5)..(l + 4 + n) : b[i] \in Bytes
    <3>1. \A i \in (l + 5)..(l + 4 + n) : i \in 1..Len(b)
      BY <1>1, <1>2, <1>3
    <3> QED
      BY <3>1, ElementOfSeq
  <2> DEFINE m == SubSeq(b, l + 5, l + 4 + n)
  <2>4. m \in Seq(Bytes) /\ Len(m) = n /\ \A i \in 1..n : m[i] = b[l + 4 + i]
    <3>1. l + 5 \in Int /\ l + 4 + n \in Int /\ (l + 4 + n) - (l + 5) + 1 = n
          /\ \A i \in 1..n : (l + 5) + i - 1 = l + 4 + i
      BY <1>1
    <3>2. /\ m \in Seq(Bytes)
          /\ Len(m) = IF l + 5 <= l + 4 + n THEN (l + 4 + n) - (l + 5) + 1 ELSE 0
          /\ \A i \in 1..((l + 4 + n) - (l + 5) + 1) : m[i] = b[(l + 5) + i - 1]
      BY <2>3, <3>1, SubSeqProperties
    <3> HIDE DEF m
    <3>3. Len(m) = n
      BY <1>1, <3>2
    <3> QED
      BY <3>1, <3>2, <3>3
  <2> HIDE DEF m
  <2>5. m = x
    BY <2>1, <2>2, <2>4, SeqEqual
  <2> QED
    BY <2>5 DEF m
<1>7. Len(c) = l + 4 + n
  BY <1>2
<1> QED
  BY <1>4, <1>5, <1>6, <1>7 DEF c, l, n

(* Unmasking is masking, so it gives back what was masked.                  *)
LEMMA MaskedTwice ==
  ASSUME NEW payload \in Seq(Bytes), NEW mask \in Masks
  PROVE  Masked(Masked(payload, mask), mask) = payload
<1> DEFINE x == Masked(payload, mask)
           n == Len(payload)
<1>1. x \in Seq(Bytes) /\ Len(x) = n
  BY MaskedBytes
<1>2. \A i \in 1..n : /\ mask[((i - 1) % 4) + 1] \in Bytes
                      /\ x[i] = Xor(payload[i], mask[((i - 1) % 4) + 1])
  BY MaskedBytes
<1>3. \A i \in 1..n : payload[i] \in Bytes
  BY ElementOfSeq
<1>4. \A i \in 1..n : Xor(x[i], mask[((i - 1) % 4) + 1]) = payload[i]
  BY <1>2, <1>3, XorTwice
<1>5. payload = [i \in 1..n |-> payload[i]]
  OBVIOUS
<1> HIDE DEF x, n
<1>6. Masked(x, mask) = [i \in 1..n |-> Xor(x[i], mask[((i - 1) % 4) + 1])]
  BY <1>1 DEF Masked
<1>7. Masked(x, mask) = payload
  BY <1>4, <1>5, <1>6
<1> QED
  BY <1>7 DEF x

(* parse_frame() understands a peer's frame that lies whole at the start of  *)
(* its buffer, in whichever form its length comes and whatever lies behind  *)
(* it, and the unmasking changes nothing but the payload.                   *)
LEMMA FrameParsed ==
  ASSUME NEW opcode \in Opcodes, NEW payload \in Seq(Bytes), Len(payload) < Huge,
         NEW mask \in Masks, NEW form \in Forms(Len(payload)), NEW b \in Seq(Bytes),
         Len(ClientFrame(opcode, payload, mask, form)) <= Len(b),
         \A i \in 1..Len(ClientFrame(opcode, payload, mask, form)) :
           b[i] = ClientFrame(opcode, payload, mask, form)[i]
  PROVE  LET at == HeadLen(form) + 4
         IN  ParseFrame(b) =
               IF payload # <<>> /\ BadMask(mask)
               THEN [opcode |-> NoFrame, payload |-> <<>>, buffer |-> b, overrun |-> FALSE]
               ELSE [opcode |-> opcode, payload |-> payload, overrun |-> FALSE,
                     buffer |-> IF payload = <<>> THEN b
                                ELSE SubSeq(b, 1, at) \o payload
                                     \o SubSeq(b, at + Len(payload) + 1, Len(b))]
<1> DEFINE l == Length(b)
           h == HeadLen(form)
           n == Len(payload)
<1>1. /\ Length(b) = [n |-> n, at |-> h + 1]
      /\ b[1] = 128 + opcode /\ b[2] \in 128..255
      /\ SubSeq(b, h + 1, h + 4) = mask
      /\ Len(ClientFrame(opcode, payload, mask, form)) = h + 4 + n
      /\ SubSeq(b, h + 5, h + 4 + n) = Masked(payload, mask)
  BY FrameRead
<1>2. n \in Nat /\ h \in {2, 4, 10} /\ (n = 0 <=> payload = <<>>)
  BY HeadShape
<1>3. h + 4 + n <= Len(b) /\ Len(b) \in Nat
  BY <1>1
<1>4. Masked(Masked(payload, mask), mask) = payload
  BY MaskedTwice
<1>5. (128 + opcode) \div 128 = 1 /\ ((128 + opcode) \div 16) % 8 = 0
  BY DEF Opcodes
<1>6. (128 + opcode) % 16 = opcode
  BY DEF Opcodes
<1>7. b[2] \div 128 = 1
  <2>1. \A x \in 128..255 : x \div 128 = 1
    OBVIOUS
  <2> QED
    BY <1>1, <2>1
<1> HIDE DEF n, h
<1>8. l.n = n /\ l.at = h + 1
  BY <1>1
<1>9. /\ h + 1 + 3 = h + 4 /\ h + 1 + 4 = h + 5
      /\ h + 5 + n - 1 = h + 4 + n /\ h + 5 - 1 = h + 4 /\ h + 5 + n = h + 4 + n + 1
  BY <1>2
<1> HIDE DEF l
<1> DEFINE at == l.at + 4
           m == SubSeq(b, l.at, l.at + 3)
           plain == Masked(SubSeq(b, at, at + l.n - 1), m)
           whole == SubSeq(b, 1, at - 1) \o plain \o SubSeq(b, at + l.n, Len(b))
<1>10. ParseFrame(b) =
         IF \/ b[1] \div 128 = 0
            \/ (b[1] \div 16) % 8 # 0
            \/ l.n > Len(b)
            \/ l.n > 0 /\ b[2] \div 128 = 0
            \/ l.n > 0 /\ BadMask(m)
         THEN [opcode |-> NoFrame, payload |-> <<>>, buffer |-> b, overrun |-> FALSE]
         ELSE IF l.n > 0 /\ at + l.n - 1 > Len(b)
         THEN [opcode |-> NoFrame, payload |-> <<>>, buffer |-> b, overrun |-> TRUE]
         ELSE IF l.n = 0
         THEN [opcode |-> b[1] % 16, payload |-> <<>>, buffer |-> b, overrun |-> FALSE]
         ELSE [opcode |-> b[1] % 16, payload |-> plain, buffer |-> whole, overrun |-> FALSE]
  BY DEF ParseFrame, l
<1>11. at = h + 5 /\ m = mask
  BY <1>1, <1>8, <1>9
<1> HIDE DEF m, at
<1>12. /\ at + l.n - 1 = h + 4 + n /\ at - 1 = h + 4 /\ at + l.n = h + 4 + n + 1
  <2>1. at + l.n - 1 = h + 4 + n
    BY <1>8, <1>9, <1>11
  <2>2. at - 1 = h + 4
    <3>1. \A x \in {2, 4, 10} : (x + 5) - 1 = x + 4
      OBVIOUS
    <3> QED
      BY <1>2, <1>11, <3>1
  <2>3. at + l.n = h + 4 + n + 1
    BY <1>8, <1>9, <1>11
  <2> QED
    BY <2>1, <2>2, <2>3
<1>13. plain = payload
  BY <1>1, <1>4, <1>11, <1>12
<1> HIDE DEF plain
<1>14. whole = SubSeq(b, 1, h + 4) \o payload \o SubSeq(b, h + 4 + n + 1, Len(b))
  BY <1>12, <1>13
<1> HIDE DEF whole
<1>15. /\ ~(b[1] \div 128 = 0) /\ ~((b[1] \div 16) % 8 # 0) /\ ~(b[2] \div 128 = 0)
       /\ b[1] % 16 = opcode
  BY <1>1, <1>5, <1>6, <1>7
<1>16. ~(l.n > Len(b)) /\ ~(at + l.n - 1 > Len(b)) /\ (l.n = 0 <=> payload = <<>>)
       /\ (l.n > 0 <=> payload # <<>>)
  BY <1>2, <1>3, <1>8, <1>12
<1>17. ParseFrame(b) =
         IF payload # <<>> /\ BadMask(mask)
         THEN [opcode |-> NoFrame, payload |-> <<>>, buffer |-> b, overrun |-> FALSE]
         ELSE IF payload = <<>>
         THEN [opcode |-> opcode, payload |-> <<>>, buffer |-> b, overrun |-> FALSE]
         ELSE [opcode |-> opcode, payload |-> payload, buffer |-> whole, overrun |-> FALSE]
  BY <1>10, <1>11, <1>13, <1>15, <1>16
<1> QED
  BY <1>14, <1>17 DEF h, n

(* The two halves of a concatenation. *)
LEMMA Halves ==
  ASSUME NEW s \in Seq(Bytes), NEW t \in Seq(Bytes), NEW k \in 0..Len(s)
  PROVE  /\ SubSeq(s \o t, 1, k) = SubSeq(s, 1, k)
         /\ SubSeq(s \o t, Len(s) + 1, Len(s \o t)) = t
<1> DEFINE c == s \o t
           m == Len(s)
           n == Len(t)
<1>1. /\ c \in Seq(Bytes) /\ Len(c) = m + n /\ m \in Nat /\ n \in Nat
      /\ \A i \in 1..m : c[i] = s[i]
      /\ \A i \in 1..n : c[m + i] = t[i]
  BY Concat
<1> HIDE DEF c, m
<1>2. SubSeq(c, 1, k) = SubSeq(s, 1, k)
  <2>1. \A i \in 1..k : i \in 1..m /\ i \in 1..Len(c) /\ c[i] = s[i]
    BY <1>1 DEF m
  <2>2. \A i \in 1..k : c[i] \in Bytes /\ s[i] \in Bytes
    BY <1>1, <2>1, ElementOfSeq DEF m
  <2>3. k \in Nat /\ k - 1 + 1 = k /\ (IF 1 <= k THEN k - 1 + 1 ELSE 0) = k
        /\ \A i \in 1..k : 1 + i - 1 = i
    OBVIOUS
  <2>4. /\ SubSeq(c, 1, k) \in Seq(Bytes)
        /\ Len(SubSeq(c, 1, k)) = IF 1 <= k THEN k - 1 + 1 ELSE 0
        /\ \A i \in 1..(k - 1 + 1) : SubSeq(c, 1, k)[i] = c[1 + i - 1]
    BY <2>2, <2>3, SubSeqProperties
  <2>5. /\ SubSeq(s, 1, k) \in Seq(Bytes)
        /\ Len(SubSeq(s, 1, k)) = IF 1 <= k THEN k - 1 + 1 ELSE 0
        /\ \A i \in 1..(k - 1 + 1) : SubSeq(s, 1, k)[i] = s[1 + i - 1]
    BY <2>2, <2>3, SubSeqProperties
  <2> DEFINE u == SubSeq(c, 1, k)
             v == SubSeq(s, 1, k)
  <2> HIDE DEF u, v
  <2>6. /\ u \in Seq(Bytes) /\ Len(u) = k /\ \A i \in 1..k : u[i] = c[i]
        /\ v \in Seq(Bytes) /\ Len(v) = k /\ \A i \in 1..k : v[i] = s[i]
    BY <2>3, <2>4, <2>5 DEF u, v
  <2>7. u = v
    BY <2>1, <2>6, SeqEqual
  <2> QED
    BY <2>7 DEF u, v
<1>3. SubSeq(c, m + 1, m + n) = t
  <2>1. \A i \in (m + 1)..(m + n) : c[i] \in Bytes
    BY <1>1, ElementOfSeq
  <2>2. m + 1 \in Int /\ m + n \in Int /\ (m + n) - (m + 1) + 1 = n
        /\ (IF m + 1 <= m + n THEN (m + n) - (m + 1) + 1 ELSE 0) = n
        /\ \A i \in 1..n : (m + 1) + i - 1 = m + i
    BY <1>1
  <2>3. /\ SubSeq(c, m + 1, m + n) \in Seq(Bytes)
        /\ Len(SubSeq(c, m + 1, m + n)) =
             IF m + 1 <= m + n THEN (m + n) - (m + 1) + 1 ELSE 0
        /\ \A i \in 1..((m + n) - (m + 1) + 1) :
             SubSeq(c, m + 1, m + n)[i] = c[(m + 1) + i - 1]
    BY <2>1, <2>2, SubSeqProperties
  <2> DEFINE u == SubSeq(c, m + 1, m + n)
  <2> HIDE DEF u
  <2>4. u \in Seq(Bytes) /\ Len(u) = n /\ \A i \in 1..n : u[i] = c[m + i]
    BY <2>2, <2>3 DEF u
  <2>5. \A i \in 1..Len(u) : u[i] = t[i]
    BY <1>1, <2>4
  <2>6. u = t
    BY <2>4, <2>5, SeqEqual
  <2> QED
    BY <2>6 DEF u
<1> QED
  BY <1>1, <1>2, <1>3 DEF c, m

(* A frame is understood in every form a length can take, for every opcode, *)
(* payload and mask, and whatever is behind it in the buffer: what the run  *)
(* `text' checks for a few.  Only masks of all zeros or all ones are        *)
(* refused, and the unmasking changes nothing but the payload.              *)
THEOREM EveryFrameUnderstood ==
  ASSUME NEW opcode \in Opcodes, NEW payload \in Seq(Bytes), Len(payload) < Huge,
         NEW mask \in Masks, NEW form \in Forms(Len(payload)), NEW behind \in Seq(Bytes)
  PROVE  FrameUnderstood(opcode, payload, mask, form, behind)
<1> DEFINE c == ClientFrame(opcode, payload, mask, form)
           b == c \o behind
           n == Len(payload)
           at == HeadLen(form) + 4
           f == ParseFrame(b)
<1>1. c \in Seq(Bytes) /\ Len(c) = at + n /\ n \in Nat /\ at \in Nat
  BY FrameShape, HeadShape
<1>2. b \in Seq(Bytes) /\ Len(b) = Len(c) + Len(behind) /\ \A i \in 1..Len(c) : b[i] = c[i]
  <2> HIDE DEF c
  <2> QED
    BY <1>1, Concat
<1>3. Len(c) <= Len(b)
  <2> HIDE DEF c, b
  <2> QED
    BY <1>1, <1>2
<1>4. f = IF payload # <<>> /\ BadMask(mask)
          THEN [opcode |-> NoFrame, payload |-> <<>>, buffer |-> b, overrun |-> FALSE]
          ELSE [opcode |-> opcode, payload |-> payload, overrun |-> FALSE,
                buffer |-> IF payload = <<>> THEN b
                           ELSE SubSeq(b, 1, at) \o payload \o SubSeq(b, at + n + 1, Len(b))]
  BY <1>2, <1>3, FrameParsed
<1>5. /\ SubSeq(b, 1, at) = SubSeq(c, 1, at) /\ SubSeq(b, at + n + 1, Len(b)) = behind
  <2> HIDE DEF c, at, n
  <2>1. at \in 0..Len(c)
    BY <1>1
  <2> QED
    BY <1>1, <2>1, Halves
<1>6. payload = <<>> => b = SubSeq(c, 1, at) \o payload \o behind
  <2> SUFFICES ASSUME payload = <<>> PROVE b = SubSeq(c, 1, at) \o payload \o behind
    OBVIOUS
  <2>1. SubSeq(c, 1, at) = c
    BY <1>1, SubSeqFull
  <2> HIDE DEF c
  <2>2. c \o <<>> = c
    BY <1>1, ConcatEmptySeq
  <2> QED
    BY <2>1, <2>2
<1>7. Len(c) - n = at
  <2> HIDE DEF c, at, n
  <2> QED
    BY <1>1
<1> HIDE DEF f, b, c, at
<1>8. payload # <<>> /\ BadMask(mask) => f.opcode = NoFrame
  BY <1>4
<1>9. ~(payload # <<>> /\ BadMask(mask)) =>
        /\ f.opcode = opcode /\ f.payload = payload
        /\ f.buffer = SubSeq(c, 1, Len(c) - n) \o payload \o behind
  BY <1>4, <1>5, <1>6, <1>7
<1> QED
  BY <1>8, <1>9 DEF FrameUnderstood, f, b, c
------------------------------------------------------------------------------
(* A part of a sequence of bytes. *)
LEMMA Slice ==
  ASSUME NEW s \in Seq(Bytes), NEW i \in Int, NEW j \in Int,
         1 <= i, i <= j + 1, j <= Len(s)
  PROVE  /\ SubSeq(s, i, j) \in Seq(Bytes)
         /\ Len(SubSeq(s, i, j)) = j - i + 1
         /\ \A k \in 1..(j - i + 1) : SubSeq(s, i, j)[k] = s[i + k - 1]
<1>1. \A k \in i..j : s[k] \in Bytes
  <2>1. \A k \in i..j : k \in 1..Len(s)
    OBVIOUS
  <2> QED
    BY <2>1, ElementOfSeq
<1>2. /\ SubSeq(s, i, j) \in Seq(Bytes)
      /\ Len(SubSeq(s, i, j)) = IF i <= j THEN j - i + 1 ELSE 0
      /\ \A k \in 1..(j - i + 1) : SubSeq(s, i, j)[k] = s[i + k - 1]
  BY <1>1, SubSeqProperties
<1>3. (IF i <= j THEN j - i + 1 ELSE 0) = j - i + 1
  OBVIOUS
<1> QED
  BY <1>2, <1>3

(* The length that is read is a number, and the mask behind it is within    *)
(* any buffer of at least fourteen bytes.                                   *)
LEMMA LengthTyped ==
  ASSUME NEW b \in Seq(Bytes), Len(b) >= 14
  PROVE  \E n \in Nat, at \in {3, 5, 11} : Length(b) = [n |-> n, at |-> at]
<1>1. /\ b[2] \in Bytes /\ b[3] \in Bytes /\ b[4] \in Bytes
      /\ b[8] \in Bytes /\ b[9] \in Bytes /\ b[10] \in Bytes
  <2>1. /\ 2 \in 1..Len(b) /\ 3 \in 1..Len(b) /\ 4 \in 1..Len(b)
        /\ 8 \in 1..Len(b) /\ 9 \in 1..Len(b) /\ 10 \in 1..Len(b)
    OBVIOUS
  <2> QED
    BY <2>1, ElementOfSeq
<1>0. \A x \in Bytes : x \in Nat /\ x % 128 \in Nat
  BY DEF Bytes
<1>2. b[2] % 128 \in Nat
  BY <1>0, <1>1
<1>3. Short(SubSeq(b, 3, 4)) \in Nat
  <2>1. SubSeq(b, 3, 4)[1] = b[3] /\ SubSeq(b, 3, 4)[2] = b[4]
    BY Slice
  <2>2. b[3] \in Nat /\ b[4] \in Nat
    BY <1>0, <1>1
  <2>3. 256 * b[3] + b[4] \in Nat
    BY <2>2
  <2> QED
    BY <2>1, <2>3 DEF Short
<1>4. Long(SubSeq(b, 3, 10)) \in Nat
  <2>1. \A k \in 1..8 : SubSeq(b, 3, 10)[k] = b[3 + k - 1]
    BY Slice
  <2>2. /\ SubSeq(b, 3, 10)[6] = b[8] /\ SubSeq(b, 3, 10)[7] = b[9]
        /\ SubSeq(b, 3, 10)[8] = b[10]
    BY <2>1
  <2>3. b[8] \in Nat /\ b[9] \in Nat /\ b[10] \in Nat
    BY <1>0, <1>1
  <2>4. 65536 * b[8] + 256 * b[9] + b[10] \in Nat
    BY SMT, <2>3
  <2>5. Huge \in Nat
    BY SMT DEF Huge
  <2> QED
    BY SMT, <2>2, <2>4, <2>5 DEF Long
<1>5. CASE b[2] % 128 = 126
  <2>1. Length(b) = [n |-> Short(SubSeq(b, 3, 4)), at |-> 5]
    BY <1>5 DEF Length
  <2> QED
    BY <1>3, <2>1
<1>6. CASE b[2] % 128 = 127
  <2>1. Length(b) = [n |-> Long(SubSeq(b, 3, 10)), at |-> 11]
    BY <1>6 DEF Length
  <2> QED
    BY <1>4, <2>1
<1>7. CASE b[2] % 128 # 126 /\ b[2] % 128 # 127
  <2>1. Length(b) = [n |-> b[2] % 128, at |-> 3]
    BY <1>7 DEF Length
  <2> QED
    BY <1>2, <2>1
<1> QED
  BY <1>5, <1>6, <1>7

(* Whatever lies in a buffer, parse_frame() either throws or returns an     *)
(* opcode and bytes, and the buffer keeps its length.                       *)
LEMMA ParseTyped ==
  ASSUME NEW b \in Seq(Bytes), Len(b) >= 14
  PROVE  LET f == ParseFrame(b)
         IN  /\ f.opcode \in Opcodes \cup {NoFrame}
             /\ f.payload \in Seq(Bytes)
             /\ f.buffer \in Seq(Bytes) /\ Len(f.buffer) = Len(b)
             /\ f.overrun \in BOOLEAN
<1> DEFINE l == Length(b)
           at == l.at + 4
           m == SubSeq(b, l.at, l.at + 3)
           plain == Masked(SubSeq(b, at, at + l.n - 1), m)
           whole == SubSeq(b, 1, at - 1) \o plain \o SubSeq(b, at + l.n, Len(b))
           f == ParseFrame(b)
<1>1. PICK n \in Nat, a \in {3, 5, 11} : l = [n |-> n, at |-> a]
  BY LengthTyped
<1>2. l.n = n /\ l.at = a /\ at = a + 4 /\ l.n \in Nat /\ at \in {7, 9, 15} /\ a + 3 <= 14
  BY <1>1
<1> HIDE DEF l
<1>3. m \in Masks
  <2>1. m \in Seq(Bytes) /\ Len(m) = (l.at + 3) - l.at + 1
    BY <1>2, Slice
  <2>2. (l.at + 3) - l.at + 1 = 4
    BY <1>2
  <2> QED
    BY <2>1, <2>2 DEF Masks
<1>4. b[1] % 16 \in Opcodes
  <2>1. b[1] \in Bytes
    BY ElementOfSeq
  <2>2. \A x \in Bytes : x % 16 \in Opcodes
    BY DEF Bytes, Opcodes
  <2> QED
    BY <2>1, <2>2
<1> HIDE DEF m, at
<1>5. ASSUME at + l.n - 1 <= Len(b)
      PROVE  plain \in Seq(Bytes) /\ whole \in Seq(Bytes) /\ Len(whole) = Len(b)
  <2> DEFINE u == SubSeq(b, at, at + l.n - 1)
             v == SubSeq(b, 1, at - 1)
             w == SubSeq(b, at + l.n, Len(b))
  <2>1. u \in Seq(Bytes) /\ Len(u) = (at + l.n - 1) - at + 1
    BY <1>2, <1>5, Slice
  <2>2. v \in Seq(Bytes) /\ Len(v) = (at - 1) - 1 + 1
    <3>1. at - 1 \in Int /\ 1 <= (at - 1) + 1 /\ at - 1 <= Len(b)
      BY <1>2, <1>5
    <3> QED
      BY <3>1, Slice
  <2>3. w \in Seq(Bytes) /\ Len(w) = Len(b) - (at + l.n) + 1
    <3>1. at + l.n \in Int /\ 1 <= at + l.n /\ at + l.n <= Len(b) + 1
      BY <1>2, <1>5
    <3> QED
      BY <3>1, Slice
  <2> HIDE DEF u, v, w
  <2>4. plain \in Seq(Bytes) /\ Len(plain) = Len(u)
    BY <1>3, <2>1, MaskedBytes DEF u
  <2> HIDE DEF plain
  <2>5. v \o plain \in Seq(Bytes) /\ Len(v \o plain) = Len(v) + Len(plain)
    BY <2>2, <2>4, Concat
  <2> DEFINE x == v \o plain
  <2> HIDE DEF x
  <2>6. x \o w \in Seq(Bytes) /\ Len(x \o w) = Len(x) + Len(w)
    BY <2>3, <2>5, Concat DEF x
  <2>7. Len(x) + Len(w) = Len(b)
    BY <1>2, <2>1, <2>2, <2>3, <2>4, <2>5 DEF x
  <2>8. whole = x \o w
    BY DEF x, v, w
  <2> QED
    BY <2>4, <2>6, <2>7, <2>8
<1>6. <<>> \in Seq(Bytes)
  OBVIOUS
<1>7. f =
         IF \/ b[1] \div 128 = 0
            \/ (b[1] \div 16) % 8 # 0
            \/ l.n > Len(b)
            \/ l.n > 0 /\ b[2] \div 128 = 0
            \/ l.n > 0 /\ BadMask(m)
         THEN [opcode |-> NoFrame, payload |-> <<>>, buffer |-> b, overrun |-> FALSE]
         ELSE IF l.n > 0 /\ at + l.n - 1 > Len(b)
         THEN [opcode |-> NoFrame, payload |-> <<>>, buffer |-> b, overrun |-> TRUE]
         ELSE IF l.n = 0
         THEN [opcode |-> b[1] % 16, payload |-> <<>>, buffer |-> b, overrun |-> FALSE]
         ELSE [opcode |-> b[1] % 16, payload |-> plain, buffer |-> whole, overrun |-> FALSE]
  BY DEF ParseFrame, l, at, m
<1> HIDE DEF plain, whole, f
<1>8. \/ f = [opcode |-> NoFrame, payload |-> <<>>, buffer |-> b, overrun |-> FALSE]
      \/ f = [opcode |-> NoFrame, payload |-> <<>>, buffer |-> b, overrun |-> TRUE]
      \/ f = [opcode |-> b[1] % 16, payload |-> <<>>, buffer |-> b, overrun |-> FALSE]
      \/ /\ at + l.n - 1 <= Len(b)
         /\ f = [opcode |-> b[1] % 16, payload |-> plain, buffer |-> whole, overrun |-> FALSE]
  <2>1. l.n = 0 \/ l.n > 0
    BY <1>2
  <2>2. ~(at + l.n - 1 > Len(b)) => at + l.n - 1 <= Len(b)
    BY <1>2
  <2> QED
    BY <1>7, <2>1, <2>2
<1>9. /\ f.opcode \in Opcodes \cup {NoFrame}
      /\ f.payload \in Seq(Bytes)
      /\ f.buffer \in Seq(Bytes) /\ Len(f.buffer) = Len(b)
      /\ f.overrun \in BOOLEAN
  <2>1. CASE f = [opcode |-> NoFrame, payload |-> <<>>, buffer |-> b, overrun |-> FALSE]
    BY <1>6, <2>1
  <2>2. CASE f = [opcode |-> NoFrame, payload |-> <<>>, buffer |-> b, overrun |-> TRUE]
    BY <1>6, <2>2
  <2>3. CASE f = [opcode |-> b[1] % 16, payload |-> <<>>, buffer |-> b, overrun |-> FALSE]
    BY <1>4, <1>6, <2>3
  <2>4. CASE /\ at + l.n - 1 <= Len(b)
             /\ f = [opcode |-> b[1] % 16, payload |-> plain, buffer |-> whole, overrun |-> FALSE]
    BY <1>4, <1>5, <2>4
  <2> QED
    BY <1>8, <2>1, <2>2, <2>3, <2>4
<1> QED
  BY <1>9 DEF f

(* One more than what two bytes can hold. *)
Limit == 65536

(* send_frame()'s header: two bytes, and two more for a longer message.      *)
LEMMA HeaderShape ==
  ASSUME NEW opcode \in Opcodes, NEW n \in Nat, n < Limit
  PROVE  /\ HeaderOf(opcode, n) \in Seq(Bytes) /\ HeaderOf(opcode, n)[1] = 128 + opcode
         /\ n < 126 => Len(HeaderOf(opcode, n)) = 2 /\ HeaderOf(opcode, n)[2] = n
         /\ ~(n < 126) => /\ Len(HeaderOf(opcode, n)) = 4 /\ HeaderOf(opcode, n)[2] = 126
                          /\ HeaderOf(opcode, n)[3] = n % 256
                          /\ HeaderOf(opcode, n)[4] = n \div 256
<1>1. 128 + opcode \in Bytes /\ 126 \in Bytes
  BY DEF Opcodes, Bytes
<1>2. n % 256 \in Bytes /\ n \div 256 \in Bytes
  BY SMT DEF Bytes, Limit
<1> DEFINE lo == n % 256
           hi == n \div 256
<1> HIDE DEF lo, hi
<1>3. CASE n < 126
  <2>1. HeaderOf(opcode, n) = <<128 + opcode, n>>
    BY <1>3 DEF HeaderOf
  <2>2. n \in Bytes
    BY <1>3 DEF Bytes
  <2> QED
    BY <1>1, <1>3, <2>1, <2>2
<1>4. CASE ~(n < 126)
  <2>1. HeaderOf(opcode, n) = <<128 + opcode, 126, lo, hi>>
    BY SMT, <1>4 DEF HeaderOf, lo, hi, Limit
  <2>2. lo \in Bytes /\ hi \in Bytes
    BY <1>2 DEF lo, hi
  <2>3. HeaderOf(opcode, n) \in Seq(Bytes) /\ Len(HeaderOf(opcode, n)) = 4
    BY <1>1, <2>1, <2>2
  <2>4. /\ HeaderOf(opcode, n)[1] = 128 + opcode /\ HeaderOf(opcode, n)[2] = 126
        /\ HeaderOf(opcode, n)[3] = lo /\ HeaderOf(opcode, n)[4] = hi
    BY <2>1
  <2> QED
    BY <1>4, <2>3, <2>4 DEF lo, hi
<1> QED
  BY <1>3, <1>4

(* send_frame() builds its frame within the buffer, whose length stays, or  *)
(* sends nothing.                                                           *)
LEMMA SendTyped ==
  ASSUME NEW b \in Seq(Bytes), NEW opcode \in Opcodes,
         NEW message \in Seq(Bytes), Len(message) < Limit
  PROVE  LET s == SendFrame(b, message, opcode)
         IN  s.buffer \in Seq(Bytes) /\ Len(s.buffer) = Len(b)
<1> DEFINE n == Len(message)
           h == HeaderOf(opcode, n)
           s == SendFrame(b, message, opcode)
<1>1. n \in Nat /\ Len(b) \in Nat
  OBVIOUS
<1>2. CASE n + 10 > Len(b)
  BY <1>2 DEF SendFrame
<1>3. CASE n + 10 <= Len(b)
  <2>1. n < Limit
    OBVIOUS
  <2> HIDE DEF n
  <2>2. h \in Seq(Bytes) /\ Len(h) \in {2, 4}
    BY <1>1, <2>1, HeaderShape
  <2> HIDE DEF h
  <2> DEFINE v == SubSeq(b, 1, 10 - Len(h))
             w == SubSeq(b, 11 + n, Len(b))
  <2>4. v \in Seq(Bytes) /\ Len(v) = 10 - Len(h)
    <3>0. \A x \in {2, 4} : \E k \in 6..8 : k = 10 - x
      OBVIOUS
    <3>1. PICK k \in 6..8 : k = 10 - Len(h)
      BY <2>2, <3>0
    <3>2. k \in Int /\ 1 <= k + 1 /\ k <= Len(b) /\ k - 1 + 1 = k
      BY <1>1, <1>3
    <3>3. SubSeq(b, 1, k) \in Seq(Bytes) /\ Len(SubSeq(b, 1, k)) = k - 1 + 1
      BY <3>2, Slice
    <3> QED
      BY <3>1, <3>2, <3>3
  <2>5. w \in Seq(Bytes) /\ Len(w) = Len(b) - (11 + n) + 1
    <3>1. 11 + n \in Int /\ 1 <= 11 + n /\ 11 + n <= Len(b) + 1
      BY <1>1, <1>3
    <3> QED
      BY <3>1, Slice
  <2> HIDE DEF v, w
  <2> DEFINE x == v \o h
             y == x \o message
             z == y \o w
  <2>6. x \in Seq(Bytes) /\ Len(x) = Len(v) + Len(h)
    BY <2>2, <2>4, Concat
  <2> HIDE DEF x
  <2>7. y \in Seq(Bytes) /\ Len(y) = Len(x) + Len(message)
    BY <2>6, Concat
  <2> HIDE DEF y
  <2>8. z \in Seq(Bytes) /\ Len(z) = Len(y) + Len(w)
    BY <2>5, <2>7, Concat
  <2> HIDE DEF z
  <2>9. Len(z) = Len(b)
    BY <1>1, <2>2, <2>4, <2>5, <2>6, <2>7, <2>8 DEF n
  <2>10. s.buffer = z
    <3>1. ~(n + 10 > Len(b))
      BY <1>1, <1>3
    <3> QED
      BY <3>1 DEF SendFrame, n, h, v, w, x, y, z
  <2> QED
    BY <2>8, <2>9, <2>10
<1> QED
  BY <1>1, <1>2, <1>3

(* A peer understands a message of less than 126 bytes that fits the buffer. *)
LEMMA ReplyRead ==
  ASSUME NEW b \in Seq(Bytes), NEW opcode \in Opcodes,
         NEW message \in Seq(Bytes), Len(message) < 126, Len(message) + 10 <= Len(b)
  PROVE  PeerReads(SendFrame(b, message, opcode).bytes)
           = [opcode |-> opcode, complete |-> TRUE, payload |-> message]
<1> DEFINE n == Len(message)
           h == HeaderOf(opcode, n)
           c == h \o message
<1>1. n \in Nat /\ n < 126 /\ ~(n + 10 > Len(b))
  OBVIOUS
<1>2. SendFrame(b, message, opcode).bytes = c
  BY <1>1 DEF SendFrame
<1>3. h = <<128 + opcode, n>>
  BY DEF HeaderOf
<1> HIDE DEF n
<1>4. 128 + opcode \in Bytes /\ n \in Bytes
  BY <1>1 DEF Opcodes, Bytes
<1>5. h \in Seq(Bytes) /\ Len(h) = 2 /\ h[1] = 128 + opcode /\ h[2] = n
  BY <1>3, <1>4
<1> HIDE DEF h
<1>6. /\ c \in Seq(Bytes) /\ Len(c) = 2 + n /\ c[1] = 128 + opcode /\ c[2] = n
      /\ SubSeq(c, 3, 2 + n) = message
  <2>1. /\ c \in Seq(Bytes) /\ Len(c) = Len(h) + Len(message)
        /\ \A i \in 1..Len(h) : c[i] = h[i]
    BY <1>5, Concat
  <2>2. SubSeq(c, Len(h) + 1, Len(c)) = message
    <3>1. 0 \in 0..Len(h)
      BY <1>5
    <3> QED
      BY <1>5, <3>1, Halves
  <2> HIDE DEF c
  <2>3. Len(c) = 2 + n /\ Len(h) + 1 = 3 /\ 1 \in 1..Len(h) /\ 2 \in 1..Len(h)
    BY <1>5, <2>1 DEF n
  <2> QED
    BY <1>5, <2>1, <2>2, <2>3
<1> HIDE DEF c
<1>7. Length(c) = [n |-> n, at |-> 3]
  <2>1. n % 128 = n /\ n # 126 /\ n # 127
    BY <1>1
  <2>2. c[2] % 128 = n
    BY <1>6, <2>1
  <2> QED
    BY <2>1, <2>2 DEF Length
<1>8. c[1] % 16 = opcode
  <2>1. (128 + opcode) % 16 = opcode
    BY DEF Opcodes
  <2> QED
    BY <1>6, <2>1
<1>9. n = (2 + n) - 3 + 1 /\ 3 + n - 1 = 2 + n
  BY <1>1
<1>10. Min({2 + n, 2 + n}) = 2 + n
  <2>1. \A x \in {2 + n} : 2 + n <= x
    BY <1>1
  <2>2. \A x \in {2 + n} : x = 2 + n
    OBVIOUS
  <2> QED
    BY <2>1, <2>2 DEF Min
<1>11. PeerReads(c) = [opcode |-> opcode, complete |-> TRUE, payload |-> message]
  <2> DEFINE l == Length(c)
  <2>1. l.n = n /\ l.at = 3
    BY <1>7
  <2> HIDE DEF l
  <2>2. l.at + l.n - 1 = 2 + n /\ Len(c) - l.at + 1 = n
    BY <1>6, <1>9, <2>1
  <2>3. PeerReads(c) = [opcode |-> c[1] % 16, complete |-> l.n = Len(c) - l.at + 1,
                        payload |-> SubSeq(c, l.at, Min({l.at + l.n - 1, Len(c)}))]
    BY DEF PeerReads, l
  <2>4. Min({l.at + l.n - 1, Len(c)}) = 2 + n
    BY <1>6, <1>10, <2>2
  <2>5. SubSeq(c, l.at, Min({l.at + l.n - 1, Len(c)})) = message
    BY <1>6, <2>1, <2>4
  <2>6. (l.n = Len(c) - l.at + 1) = TRUE
    BY <2>1, <2>2
  <2> QED
    BY <1>8, <2>3, <2>5, <2>6
<1> QED
  BY <1>2, <1>11

(* The length of a longer message goes out in the order of the machine, so  *)
(* a peer finds the whole message only if its two bytes are the same.       *)
LEMMA LongReplyRead ==
  ASSUME NEW b \in Seq(Bytes), NEW opcode \in Opcodes, NEW message \in Seq(Bytes),
         126 <= Len(message), Len(message) < Limit, Len(message) + 10 <= Len(b)
  PROVE  LET r == PeerReads(SendFrame(b, message, opcode).bytes)
         IN  /\ r.opcode = opcode
             /\ r.complete /\ r.payload = message <=> Len(message) % 257 = 0
<1> DEFINE n == Len(message)
           h == HeaderOf(opcode, n)
           c == h \o message
           read == 256 * (n % 256) + (n \div 256)
<1>1. n \in Nat /\ ~(n < 126) /\ n < Limit /\ ~(n + 10 > Len(b))
  OBVIOUS
<1>2. SendFrame(b, message, opcode).bytes = c
  BY <1>1 DEF SendFrame
<1> HIDE DEF n
<1>3. /\ h \in Seq(Bytes) /\ Len(h) = 4 /\ h[1] = 128 + opcode /\ h[2] = 126
      /\ h[3] = n % 256 /\ h[4] = n \div 256
  BY <1>1, HeaderShape
<1>4. h \in Seq(Bytes) /\ Len(h) = 4
  BY <1>3
<1> HIDE DEF h
<1>5. /\ c \in Seq(Bytes) /\ Len(c) = 4 + n /\ c[1] = 128 + opcode /\ c[2] = 126
      /\ c[3] = n % 256 /\ c[4] = n \div 256
      /\ SubSeq(c, 5, 4 + n) = message
  <2>1. /\ c \in Seq(Bytes) /\ Len(c) = Len(h) + Len(message)
        /\ \A i \in 1..Len(h) : c[i] = h[i]
    BY <1>4, Concat
  <2>2. SubSeq(c, Len(h) + 1, Len(c)) = message
    <3>1. 0 \in 0..Len(h)
      BY <1>4
    <3> QED
      BY <1>4, <3>1, Halves
  <2> HIDE DEF c
  <2>3. /\ Len(c) = 4 + n /\ Len(h) + 1 = 5 /\ 1 \in 1..Len(h) /\ 2 \in 1..Len(h)
        /\ 3 \in 1..Len(h) /\ 4 \in 1..Len(h)
    BY <1>3, <2>1 DEF n
  <2> QED
    BY <1>3, <2>1, <2>2, <2>3
<1> HIDE DEF c
<1>6. Length(c) = [n |-> read, at |-> 5]
  <2>1. SubSeq(c, 3, 4)[1] = c[3] /\ SubSeq(c, 3, 4)[2] = c[4]
    <3>1. 4 <= Len(c)
      BY <1>1, <1>5
    <3>2. \A k \in 1..(4 - 3 + 1) : SubSeq(c, 3, 4)[k] = c[3 + k - 1]
      BY <1>5, <3>1, Slice
    <3> QED
      BY <3>2
  <2>2. Short(SubSeq(c, 3, 4)) = read
    BY <1>5, <2>1 DEF Short
  <2>3. c[2] % 128 = 126
    BY <1>5
  <2> HIDE DEF read
  <2> QED
    BY <2>2, <2>3 DEF Length
<1>7. c[1] % 16 = opcode
  <2>1. (128 + opcode) % 16 = opcode
    BY DEF Opcodes
  <2> QED
    BY <1>5, <2>1
<1>8. read \in Nat /\ (read = n <=> n % 257 = 0)
  <2>1. \E x, y \in 0..255 : n = 256 * x + y /\ n % 256 = y /\ n \div 256 = x
    <3>1. n \div 256 \in 0..255
      BY SMT, <1>1 DEF Limit
    <3>2. n % 256 \in 0..255 /\ n = 256 * (n \div 256) + (n % 256)
      BY SMT, <1>1
    <3> QED
      BY <3>1, <3>2
  <2>2. PICK x \in 0..255, y \in 0..255 : n = 256 * x + y /\ n % 256 = y /\ n \div 256 = x
    BY <2>1
  <2>3. read = 256 * y + x
    BY <2>2
  <2> HIDE DEF read
  <2>4. read \in Nat /\ (read = n <=> x = y)
    BY <2>2, <2>3
  <2>5. x = y <=> n % 257 = 0
    <3>1. n = 257 * x + (y - x)
      BY <2>2
    <3>2. CASE x <= y
      <4>1. y - x \in 0..256
        BY <3>2
      <4>2. \A q \in Nat, r \in 0..256 : (257 * q + r) % 257 = r
        OBVIOUS
      <4>3. n % 257 = y - x
        BY <3>1, <4>1, <4>2
      <4> QED
        BY <4>3
    <3>3. CASE y < x
      <4>1. n = 257 * (x - 1) + (257 + (y - x)) /\ 257 + (y - x) \in 1..256 /\ x - 1 \in Nat
        BY <3>1, <3>3
      <4>2. \A q \in Nat, r \in 1..256 : (257 * q + r) % 257 = r
        OBVIOUS
      <4>3. n % 257 = 257 + (y - x)
        BY <4>1, <4>2
      <4> QED
        BY <3>3, <4>1, <4>3
    <3> QED
      BY <3>2, <3>3
  <2> QED
    BY <2>4, <2>5
<1> HIDE DEF read
<1> DEFINE l == Length(c)
           to == Min({l.at + l.n - 1, Len(c)})
<1>9. l.n = read /\ l.at = 5
  BY <1>6
<1> HIDE DEF l
<1>10. PeerReads(c) = [opcode |-> c[1] % 16, complete |-> l.n = Len(c) - l.at + 1,
                      payload |-> SubSeq(c, l.at, to)]
  BY DEF PeerReads, l
<1>11. (l.n = Len(c) - l.at + 1) <=> (n % 257 = 0)
  <2>1. Len(c) - l.at + 1 = n
    BY <1>1, <1>5, <1>9
  <2> QED
    BY <1>8, <1>9, <2>1
<1>12. n % 257 = 0 => SubSeq(c, l.at, to) = message
  <2> SUFFICES ASSUME n % 257 = 0 PROVE SubSeq(c, l.at, to) = message
    OBVIOUS
  <2>1. l.at + l.n - 1 = 4 + n /\ Len(c) = 4 + n
    BY <1>1, <1>5, <1>8, <1>9
  <2>2. Min({4 + n, 4 + n}) = 4 + n
    <3>1. \A z \in {4 + n} : 4 + n <= z /\ z = 4 + n
      BY <1>1
    <3> QED
      BY <3>1 DEF Min
  <2>3. to = 4 + n
    BY <2>1, <2>2
  <2> HIDE DEF to
  <2> QED
    BY <1>5, <1>9, <2>3
<1> HIDE DEF to
<1>13. /\ PeerReads(c).opcode = opcode
       /\ PeerReads(c).complete <=> n % 257 = 0
       /\ n % 257 = 0 => PeerReads(c).payload = message
  <2> DEFINE r == PeerReads(c)
             whole == l.n = Len(c) - l.at + 1
             text == SubSeq(c, l.at, to)
             op == c[1] % 16
  <2>1. r = [opcode |-> op, complete |-> whole, payload |-> text]
    BY <1>10
  <2>2. (n % 257 = 0 <=> whole) /\ (n % 257 = 0 => text = message) /\ op = opcode
    BY <1>7, <1>11, <1>12
  <2> HIDE DEF r, whole, text, op
  <2>3. r.opcode = op /\ r.payload = text
    BY <2>1
  <2>4. r.complete = whole
    BY Zenon, <2>1
  <2> QED
    BY Zenon, <2>2, <2>3, <2>4 DEF r
<1> QED
  BY <1>2, <1>13 DEF n

(* What send_frame() writes for any message of less than 64 KiB: nothing,   *)
(* and only then, if it does not fit the buffer with its head; otherwise a  *)
(* peer reads the opcode, and the message if it has less than 126 bytes, as *)
(* all those of the server have, or a length that is the same backwards.    *)
THEOREM EveryReplyUnderstood ==
  ASSUME NEW opcode \in Opcodes, NEW message \in Seq(Bytes), Len(message) < Limit,
         NEW size \in Nat
  PROVE  ReplyUnderstood(opcode, message, size)
<1> DEFINE b == [i \in 1..size |-> 0]
           s == SendFrame(b, message, opcode)
           r == PeerReads(s.bytes)
           n == Len(message)
<1>1. b \in Seq(Bytes) /\ Len(b) = size /\ n \in Nat /\ n < Limit
  <2>1. 0 \in Bytes
    BY DEF Bytes
  <2> QED
    BY <2>1
<1> HIDE DEF b
<1>2. Len(s.buffer) = size
  BY <1>1, SendTyped
<1>3. s.bytes = <<>> <=> n + 10 > size
  <2> DEFINE h == HeaderOf(opcode, n)
             c == h \o message
  <2>1. s.bytes = IF n + 10 > size THEN <<>> ELSE c
    BY <1>1 DEF SendFrame
  <2>2. h \in Seq(Bytes) /\ Len(h) \in {2, 4}
    <3> HIDE DEF n
    <3> QED
      BY <1>1, HeaderShape
  <2> HIDE DEF h
  <2>3. c \in Seq(Bytes) /\ Len(c) = Len(h) + Len(message)
    BY <2>2, Concat
  <2> HIDE DEF c
  <2>4. Len(c) # 0
    BY <1>1, <2>2, <2>3
  <2>5. c # <<>>
    BY <2>4
  <2> HIDE DEF s, n
  <2> QED
    BY <2>1, <2>5
<1>4. ASSUME ~(n + 10 > size)
      PROVE  /\ r.opcode = opcode
             /\ r.complete /\ r.payload = message <=> n < 126 \/ n % 257 = 0
  <2>1. n + 10 <= Len(b)
    BY <1>1, <1>4
  <2>2. CASE n < 126
    <3>1. r = [opcode |-> opcode, complete |-> TRUE, payload |-> message]
      BY <1>1, <2>1, <2>2, ReplyRead
    <3> HIDE DEF r
    <3> QED
      BY <2>2, <3>1
  <2>3. CASE ~(n < 126)
    <3>1. 126 <= n
      BY <1>1, <2>3
    <3>2. /\ r.opcode = opcode
          /\ r.complete /\ r.payload = message <=> n % 257 = 0
      BY <1>1, <2>1, <3>1, LongReplyRead
    <3> HIDE DEF r, n
    <3> QED
      BY <2>3, <3>2
  <2> QED
    BY <2>2, <2>3
<1> HIDE DEF s, r
<1> QED
  BY <1>2, <1>3, <1>4 DEF ReplyUnderstood, s, r, b
==============================================================================
