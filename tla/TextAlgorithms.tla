---------------------------- MODULE TextAlgorithms ----------------------------
(***************************************************************************)
(* src/base64.cc and src/lex_str_sort.cc: pure functions on bytes.  A       *)
(* base64 letter is its index in the encoding table (the decoding table    *)
(* gives it back); Stop is every character without an index, '=' and NUL   *)
(* among them.                                                              *)
(***************************************************************************)
EXTENDS Integers, FiniteSets, SequencesExt

Stop == 64

DivCeil(a, b) == a \div b + IF a % b = 0 THEN 0 ELSE 1

Zeros(n) == [i \in 1..n |-> 0]
Stops(n) == [i \in 1..n |-> Stop]

Padding(len) == IF len % 3 = 0 THEN 0 ELSE 3 - (len % 3)

(* One byte: its upper bits complete the letter begun by d, the other       *)
(* `step' bits begin the next one.                                          *)
EncodeByte(st, byte) ==
  LET step == st.step + 2
      o    == Append(st.o, st.d + byte \div 2^step)
      d    == (byte % 2^step) * 2^(6 - step)
  IN  IF step = 6 THEN [o |-> Append(o, d), d |-> 0, step |-> 0]
                  ELSE [o |-> o, d |-> d, step |-> step]

(* The loop over the bytes. *)
EncodedBytes(s) ==
  LET st[i \in 0..Len(s)] ==
        IF i = 0 THEN [o |-> <<>>, d |-> 0, step |-> 0] ELSE EncodeByte(st[i - 1], s[i])
  IN  st[Len(s)]

(* A slip to compare with: the letter that the last bytes began is dropped. *)
Base64EncodeUnfinished(s) == EncodedBytes(s).o \o Stops(Padding(Len(s)))

Base64Encode(s) ==
  LET st == EncodedBytes(s)
  IN  st.o \o (IF st.step = 0 THEN <<>> ELSE <<st.d>>) \o Stops(Padding(Len(s)))

DecodeLetter(st, d) ==
  LET step == st.step + 2
  IN  [o    |-> IF step > 2 THEN Append(st.o, st.byte + d \div 2^(8 - step)) ELSE st.o,
       byte |-> IF step < 8 THEN (d * 2^step) % 256 ELSE st.byte,
       step |-> step % 8]

(* len was multiplied before `end = ptr+len': the scan is bounded by six    *)
(* times the length and runs on over what lies behind the text, up to the   *)
(* first character without an index.                                        *)
Scanned(s, behind) ==
  LET m == s \o behind
      n == SelectInSeq(m, LAMBDA c : c = Stop)
  IN  SubSeq(m, 1, IF n = 0 THEN Min({Len(m), 6 * Len(s)}) ELSE Min({n - 1, 6 * Len(s)}))

(* The loop over the letters. *)
DecodedLetters(text) ==
  LET st[i \in 0..Len(text)] ==
        IF i = 0 THEN [o |-> <<>>, byte |-> 0, step |-> 0] ELSE DecodeLetter(st[i - 1], text[i])
  IN  st[Len(text)]

(* What is written to the vector, and the vector: zeros where nothing was.  *)
Decoded(s, behind) ==
  LET st == DecodedLetters(Scanned(s, behind))
  IN  st.o \o IF st.step = 0 THEN <<>> ELSE <<st.byte>>

VectorSize(s) == DivCeil(6 * Len(s), 8)

Base64Decode(s, behind) ==
  Decoded(s, behind) \o Zeros(VectorSize(s) - Len(Decoded(s, behind)))
------------------------------------------------------------------------------
(* A char is a number from -128 to 127. *)
ToUpper(c) == IF c < 97 \/ 122 < c THEN c ELSE c - 32

NUMB == 0
LETT == 1
SYMB == 2
CTRL == 3
EXTD == 4

CharCat(c) ==
  CASE c < 0   -> EXTD [] c < 32 /\ c >= 0   -> CTRL
    [] c \in 32..47    -> SYMB [] c \in 48..57 -> NUMB
    [] c \in 58..64    -> SYMB [] c \in 65..90 -> LETT
    [] c \in 91..126   -> SYMB [] c = 127      -> CTRL

DigitsEnd(s, i) ==
  CHOOSE e \in i..(Len(s) + 1) :
    /\ \A k \in i..(e - 1) : CharCat(s[k]) = NUMB
    /\ e = Len(s) + 1 \/ CharCat(s[e]) # NUMB

(* std::from_chars: it passes every digit, but a number that does not fit   *)
(* leaves the variable at 0.                                                *)
FromChars(s, i, UMax) ==
  LET Value[e \in i..DigitsEnd(s, i)] ==
        IF e = i THEN 0 ELSE 10 * Value[e - 1] + (s[e - 1] - 48)
      u == Value[DigitsEnd(s, i)]
  IN  IF u > UMax THEN 0 ELSE u

(* Where the two strings may have been read up to. *)
Places(a, b) == (1..(Len(a) + 1)) \X (1..(Len(b) + 1))

(* A slip to compare with: equal strings count as less. *)
LexStrLessOrEqual(a, b, UMax) ==
  LET Less[p \in Places(a, b)] ==
        LET i == p[1]  j == p[2]
        IN  IF i > Len(a) \/ j > Len(b) THEN Len(a) - i <= Len(b) - j
        ELSE LET c1 == ToUpper(a[i])  c2 == ToUpper(b[j])
                 t1 == CharCat(c1)    t2 == CharCat(c2)
             IN  IF t1 # t2 THEN t1 < t2
                 ELSE IF c1 # c2 THEN c1 < c2
                 ELSE Less[<<i + 1, j + 1>>]
  IN  Less[<<1, 1>>]

(* The loop, from a place in each string on. *)
LessFrom(a, b, UMax) ==
  LET Less[p \in Places(a, b)] ==
        LET i == p[1]  j == p[2]
        IN  IF i > Len(a) \/ j > Len(b) THEN Len(a) - i < Len(b) - j
        ELSE LET c1 == ToUpper(a[i])  c2 == ToUpper(b[j])
                 t1 == CharCat(c1)    t2 == CharCat(c2)
                 u1 == FromChars(a, i, UMax)  u2 == FromChars(b, j, UMax)
             IN  IF t1 # t2 THEN t1 < t2
                 ELSE IF t1 = NUMB
                      THEN IF u1 # u2 THEN u1 < u2
                           ELSE Less[<<DigitsEnd(a, i), DigitsEnd(b, j)>>]
                 ELSE IF c1 # c2 THEN c1 < c2
                 ELSE Less[<<i + 1, j + 1>>]
  IN  Less

LexStrLess(a, b, UMax) == LessFrom(a, b, UMax)[<<1, 1>>]
------------------------------------------------------------------------------
(* Reference definitions. *)
Bits(s, w) ==
  [i \in 1..(w * Len(s)) |->
     (s[(i - 1) \div w + 1] \div 2^(w - 1 - ((i - 1) % w))) % 2]

(* The number that bits write, the highest first.                           *)
NumberOf(bits) ==
  LET v[k \in 0..Len(bits)] == IF k = 0 THEN 0 ELSE 2 * v[k - 1] + bits[k]
  IN  v[Len(bits)]

(* Bits read w at a time, the last group filled up with zeros. *)
Group(b, w) ==
  LET full == b \o Zeros(w * DivCeil(Len(b), w) - Len(b))
  IN  [g \in 1..DivCeil(Len(b), w) |-> NumberOf(SubSeq(full, w * (g - 1) + 1, w * g))]

(* base64_encode() writes the bytes' bits six at a time and pads to a       *)
(* multiple of four; base64_decode() of that, where a NUL follows, stays    *)
(* inside its vector and returns the bytes, with a zero for every '='.      *)
Base64RoundTrip(s) ==
  LET e == Base64Encode(s)
  IN  /\ e = Group(Bits(s, 8), 6) \o Stops(Padding(Len(s)))
      /\ Len(e) % 4 = 0
      /\ Len(Decoded(e, <<Stop>>)) <= VectorSize(e)
      /\ Base64Decode(e, <<Stop>>) = s \o Zeros(Padding(Len(s)))

(* What std::sort() requires of lex_str_less: no string is less than        *)
(* itself, less is asymmetric, and less and "neither is less" are           *)
(* transitive, also where numbers overflow.                                 *)
StrictWeakOrder(a, b, Strings, UMax) ==
  LET Less(x, y) == LexStrLess(x, y, UMax)
      Same(x, y) == ~Less(x, y) /\ ~Less(y, x)
  IN  /\ ~Less(a, a)
      /\ Less(a, b) => ~Less(b, a)
      /\ \A c \in Strings : /\ Less(a, b) /\ Less(b, c) => Less(a, c)
                            /\ Same(a, b) /\ Same(b, c) => Same(a, c)
==============================================================================
