--------------------------- MODULE AlgorithmProofs ---------------------------
(***************************************************************************)
(* What the algorithms over sequences compute, for inputs of any length.    *)
(* Bcrypt: for keys of any length, an expanded key of any number of words,  *)
(* and any bytes of salt.  TextAlgorithms: base64 and the order of names.   *)
(* HttpRequest: what is read of a worker's buffer, and every body.          *)
(* HttpForms: the pieces of a text, the check of a path, the MIME table.    *)
(* Loops are recursive functions. What such a function computes is proved   *)
(* along its recursion: up the places of a text (UpwardInduction, Stepwise) *)
(* or down from its end (DownwardInduction, ComputedBackward), which both   *)
(* rest on a least number among the naturals.                               *)
(***************************************************************************)
EXTENDS TextAlgorithms, HttpForms, Bcrypt, WsCodecProofs, FiniteSetTheorems, WellFoundedInduction

Octets == 0..255

(* A password in memory: a NUL would end it.                                *)
Passwords == Seq(1..255)

------------------------------------------------------------------------------
(* The key schedule.                                                        *)

(* Around the password with its NUL, starting at its first char.            *)
LEMMA Around ==
  ASSUME NEW l \in Nat, NEW j \in Nat \ {0}
  PROVE  LET m == 1 + ((j - 1) % (l + 1))
         IN  m \in 1..(l + 1) /\ (j <= l + 1 => m = j)
<1> DEFINE k == j - 1
           n == l + 1
<1>1. k \in Nat /\ n \in Nat \ {0}
  OBVIOUS
<1>2. k % n \in 0..(n - 1) /\ (k < n => k % n = k)
  <2> HIDE DEF k, n
  <2> QED
    BY <1>1
<1> QED
  BY <1>1, <1>2

LEMMA KeyCharFacts ==
  ASSUME NEW key \in Passwords, NEW j \in Nat \ {0}
  PROVE  /\ KeyChar(key, j) \in Octets
         /\ j <= Len(key) => KeyChar(key, j) = key[j] /\ key[j] # 0
         /\ j = Len(key) + 1 => KeyChar(key, j) = 0
         /\ KeyChar(key, j) # 0 => KeyChar(key, j) \in Range(key)
<1> DEFINE l == Len(key)
           m == 1 + ((j - 1) % (l + 1))
<1>1. l \in Nat /\ key \in Seq(1..255)
  BY DEF Passwords
<1>2. m \in 1..(l + 1) /\ (j <= l + 1 => m = j)
  BY <1>1, Around
<1>3. KeyChar(key, j) = Append(key, 0)[m]
  BY DEF KeyChar
<1> HIDE DEF m
<1>4. KeyChar(key, j) = IF m = l + 1 THEN 0 ELSE key[m]
  BY <1>1, <1>2, <1>3
<1>5. \A i \in 1..l : key[i] \in 1..255 /\ key[i] \in Range(key)
  <2>1. DOMAIN key = 1..l
    BY <1>1
  <2>2. \A i \in 1..l : key[i] \in 1..255
    BY <1>1, ElementOfSeq
  <2> QED
    BY <2>1, <2>2 DEF Range
<1> HIDE DEF l
<1>6. KeyChar(key, j) \in Octets
  BY <1>1, <1>2, <1>4, <1>5 DEF Octets
<1>7. j <= l => KeyChar(key, j) = key[j] /\ key[j] # 0
  <2>1. j <= l => j \in 1..l /\ m = j /\ m # l + 1
    BY <1>1, <1>2
  <2>2. j <= l => KeyChar(key, j) = key[j]
    BY <1>4, <2>1
  <2>3. j \in 1..l => key[j] # 0
    BY <1>5
  <2> QED
    BY <2>1, <2>2, <2>3
<1>8. j = l + 1 => KeyChar(key, j) = 0
  BY <1>1, <1>2, <1>4
<1>9. KeyChar(key, j) # 0 => KeyChar(key, j) \in Range(key)
  BY <1>1, <1>2, <1>4, <1>5
<1> QED
  BY <1>6, <1>7, <1>8, <1>9 DEF l

(* What the loop makes of the four chars of a word if it extends their      *)
(* signs: the last negative char but the first overwrites those before it.  *)
Extended(a, b, c, d) ==
  IF d >= 128 THEN <<255, 255, 255, d>>
  ELSE IF c >= 128 THEN <<255, 255, c, d>>
  ELSE IF b >= 128 THEN <<255, b, c, d>>
  ELSE <<a, b, c, d>>

Negative(b, c, d) == b >= 128 \/ c >= 128 \/ d >= 128

LEMMA WordsAre ==
  ASSUME NEW key, NEW i, \A j \in 1..4 : KeyChar(key, 4 * (i - 1) + j) \in Octets
  PROVE  LET c(j) == KeyChar(key, 4 * (i - 1) + j)
         IN  /\ Word(key, i) = <<c(1), c(2), c(3), c(4)>>
             /\ BuggyWord(key, i) = Extended(c(1), c(2), c(3), c(4))
             /\ (\E j \in 2..4 : Chars(key, i)[j] >= 128) <=> Negative(c(2), c(3), c(4))
<1> DEFINE k(j) == KeyChar(key, 4 * (i - 1) + j)
<1>1. /\ Chars(key, i)[1] = k(1) /\ Chars(key, i)[2] = k(2)
      /\ Chars(key, i)[3] = k(3) /\ Chars(key, i)[4] = k(4)
  BY DEF Chars
<1>2. PICK a \in Octets, b \in Octets, c \in Octets, d \in Octets :
        a = k(1) /\ b = k(2) /\ c = k(3) /\ d = k(4)
  OBVIOUS
<1> HIDE DEF k
<1>3. Word(key, i) = <<a, b, c, d>>
  BY <1>1, <1>2 DEF Word, Shift, ZeroWord
<1>4. BuggyWord(key, i) = SignExtend(SignExtend(SignExtend(SignExtend(ZeroWord, a), b), c), d)
  BY <1>1, <1>2 DEF BuggyWord
<1>5. BuggyWord(key, i) = Extended(a, b, c, d)
  <2>1. /\ SignExtend(ZeroWord, a)[4] = a
        /\ b < 128 => SignExtend(SignExtend(ZeroWord, a), b)[3] = a
        /\ SignExtend(SignExtend(ZeroWord, a), b)[4] = b
        /\ b >= 128 => SignExtend(SignExtend(ZeroWord, a), b)[3] = 255
    BY DEF SignExtend, Shift, ZeroWord, Octets
  <2> DEFINE w == SignExtend(SignExtend(ZeroWord, a), b)
  <2> HIDE DEF w
  <2>2. /\ SignExtend(w, c)[4] = c
        /\ c < 128 => SignExtend(w, c)[3] = w[4] /\ SignExtend(w, c)[2] = w[3]
        /\ c >= 128 => SignExtend(w, c)[3] = 255 /\ SignExtend(w, c)[2] = 255
    BY DEF SignExtend, Shift, Octets
  <2> DEFINE v == SignExtend(w, c)
  <2> HIDE DEF v
  <2>3. SignExtend(v, d) = IF d >= 128 THEN <<255, 255, 255, d>> ELSE <<v[2], v[3], v[4], d>>
    BY DEF SignExtend, Shift
  <2>4. b < 128 <=> ~(b >= 128)
    BY DEF Octets
  <2>5. c < 128 <=> ~(c >= 128)
    BY DEF Octets
  <2>6. w[4] = b /\ w[3] = IF b >= 128 THEN 255 ELSE a
    BY <2>1, <2>4 DEF w
  <2>7. v[4] = c /\ v[3] = (IF c >= 128 THEN 255 ELSE b)
        /\ v[2] = (IF c >= 128 \/ b >= 128 THEN 255 ELSE a)
    BY <2>2, <2>5, <2>6 DEF v
  <2>8. BuggyWord(key, i) = SignExtend(v, d)
    BY <1>4 DEF v, w
  <2> QED
    BY <2>3, <2>7, <2>8 DEF Extended
<1>6. (\E j \in 2..4 : Chars(key, i)[j] >= 128) <=> Negative(b, c, d)
  <2>1. 2..4 = {2, 3, 4}
    OBVIOUS
  <2> QED
    BY <1>1, <1>2, <2>1 DEF Negative
<1> QED
  BY <1>2, <1>3, <1>5, <1>6 DEF k

LEMMA ExtendedFacts ==
  ASSUME NEW p \in Octets, NEW q \in Octets, NEW r \in Octets, NEW s \in Octets
  PROVE  LET e == Extended(p, q, r, s)
         IN  /\ Extended(e[1], e[2], e[3], e[4]) = e
             /\ Negative(q, r, s) => Negative(e[2], e[3], e[4])
             /\ ~Negative(q, r, s) => e = <<p, q, r, s>>
             /\ Negative(q, r, s) => e[1] = 255
<1> DEFINE e == Extended(p, q, r, s)
<1>1. CASE s >= 128
  <2>1. e = <<255, 255, 255, s>>
    BY <1>1 DEF Extended
  <2>2. e[1] = 255 /\ e[2] = 255 /\ e[3] = 255 /\ e[4] = s
    BY <2>1
  <2> HIDE DEF e
  <2> QED
    BY <1>1, <2>1, <2>2 DEF Extended, Negative, Octets
<1>2. CASE ~(s >= 128) /\ r >= 128
  <2>1. e = <<255, 255, r, s>>
    BY <1>2 DEF Extended
  <2>2. e[1] = 255 /\ e[2] = 255 /\ e[3] = r /\ e[4] = s
    BY <2>1
  <2> HIDE DEF e
  <2> QED
    BY <1>2, <2>1, <2>2 DEF Extended, Negative, Octets
<1>3. CASE ~(s >= 128) /\ ~(r >= 128) /\ q >= 128
  <2>1. e = <<255, q, r, s>>
    BY <1>3 DEF Extended
  <2>2. e[1] = 255 /\ e[2] = q /\ e[3] = r /\ e[4] = s
    BY <2>1
  <2> HIDE DEF e
  <2> QED
    BY <1>3, <2>1, <2>2 DEF Extended, Negative, Octets
<1>4. CASE ~(s >= 128) /\ ~(r >= 128) /\ ~(q >= 128)
  <2>1. e = <<p, q, r, s>>
    BY <1>4 DEF Extended
  <2>2. e[1] = p /\ e[2] = q /\ e[3] = r /\ e[4] = s
    BY <2>1
  <2> HIDE DEF e
  <2> QED
    BY <1>4, <2>1, <2>2 DEF Extended, Negative, Octets
<1> QED
  BY <1>1, <1>2, <1>3, <1>4

(* The words of two keys are the same exactly if their chars are.           *)
Alike(k, key) == \A j \in 1..(4 * KeyWords) : KeyChar(k, j) = KeyChar(key, j)

LEMMA SameWords ==
  ASSUME NEW k \in Passwords, NEW key \in Passwords,
         \A i \in 1..KeyWords : Word(k, i) = Word(key, i)
  PROVE  Alike(k, key)
<1>1. SUFFICES ASSUME NEW j \in 1..(4 * KeyWords)
               PROVE  KeyChar(k, j) = KeyChar(key, j)
  BY DEF Alike
<1>2. PICK i \in 1..KeyWords, m \in 1..4 : j = 4 * (i - 1) + m
  <2>1. KeyWords \in Nat
    BY BcryptAssumption
  <2> DEFINE i == ((j - 1) \div 4) + 1
             m == ((j - 1) % 4) + 1
  <2>2. i \in 1..KeyWords /\ m \in 1..4 /\ j = 4 * (i - 1) + m
    BY <2>1
  <2> QED
    BY <2>2
<1>3. \A n \in 1..4 : 4 * (i - 1) + n \in Nat \ {0}
  BY BcryptAssumption
<1> DEFINE f(n) == KeyChar(k, 4 * (i - 1) + n)
           g(n) == KeyChar(key, 4 * (i - 1) + n)
<1>4. Word(k, i) = <<f(1), f(2), f(3), f(4)>>
  BY <1>3, KeyCharFacts, WordsAre
<1>5. Word(key, i) = <<g(1), g(2), g(3), g(4)>>
  BY <1>3, KeyCharFacts, WordsAre
<1>6. Word(k, i) = Word(key, i)
  OBVIOUS
<1>7. KeyChar(k, j) = f(m) /\ KeyChar(key, j) = g(m)
  BY <1>2
<1> HIDE DEF f, g
<1>8. f(1) = g(1) /\ f(2) = g(2) /\ f(3) = g(3) /\ f(4) = g(4)
  BY <1>4, <1>5, <1>6
<1>9. m = 1 \/ m = 2 \/ m = 3 \/ m = 4
  OBVIOUS
<1> QED
  BY <1>7, <1>8, <1>9

LEMMA Prefixed ==
  ASSUME NEW s \in Seq(1..255), NEW t \in Seq(1..255), Len(s) = Len(t),
         SubSeq(Append(s, 0), 1, Len(s) + 1) = SubSeq(Append(t, 0), 1, Len(s) + 1)
  PROVE  \A j \in 1..(Len(s) + 1) : Append(s, 0)[j] = Append(t, 0)[j]
<1> DEFINE u == Append(s, 0)
           v == Append(t, 0)
           n == Len(s) + 1
<1>1. n \in Nat /\ Len(u) = n /\ Len(v) = n
  OBVIOUS
<1>2. u \in Seq(0..255) /\ v \in Seq(0..255)
  OBVIOUS
<1> HIDE DEF u, v, n
<1>3. \A j \in 1..n : SubSeq(u, 1, n)[j] = u[j] /\ SubSeq(v, 1, n)[j] = v[j]
  BY <1>1, <1>2
<1> QED
  BY <1>3 DEF u, v, n

(* The significant chars of a key are the first of those that the loop      *)
(* takes, up to and with the first NUL.                                     *)
Count(key) == IF Len(key) < 4 * KeyWords THEN Len(key) + 1 ELSE 4 * KeyWords

LEMMA SignificantIs ==
  ASSUME NEW key \in Passwords
  PROVE  /\ Count(key) \in 1..(4 * KeyWords) /\ Count(key) <= Len(key) + 1
         /\ Significant(key) \in Seq(Octets) /\ Len(Significant(key)) = Count(key)
         /\ \A j \in 1..Count(key) : Significant(key)[j] = KeyChar(key, j)
         /\ \A j \in 1..Count(key) :
              KeyChar(key, j) = 0 <=> Len(key) < 4 * KeyWords /\ j = Count(key)
<1> DEFINE l == Len(key)
           n == Count(key)
           c == Append(key, 0)
<1>1. l \in Nat /\ KeyWords \in Nat \ {0}
  BY BcryptAssumption DEF Passwords
<1>2. n \in 1..(4 * KeyWords) /\ n <= l + 1
  BY <1>1 DEF Count
<1>3. c \in Seq(Octets) /\ Len(c) = l + 1
  <2>1. key \in Seq(Octets)
    BY DEF Passwords, Octets
  <2>2. 0 \in Octets
    BY DEF Octets
  <2> QED
    BY <2>1, <2>2
<1>4. Significant(key) = SubSeq(c, 1, n)
  BY DEF Significant, Count
<1>5. \A j \in 1..(l + 1) : c[j] = KeyChar(key, j)
  <2>1. SUFFICES ASSUME NEW j \in 1..(l + 1)
                 PROVE  c[j] = KeyChar(key, j)
    OBVIOUS
  <2>2. 1 + ((j - 1) % (l + 1)) = j
    BY <1>1, Around
  <2> QED
    BY <2>2 DEF KeyChar
<1>6. \A j \in 1..n : j \in 1..(l + 1) /\ j \in Nat \ {0}
  BY <1>1, <1>2
<1>7. \A j \in 1..n : KeyChar(key, j) = 0 <=> Len(key) < 4 * KeyWords /\ j = n
  <2>1. SUFFICES ASSUME NEW j \in 1..n
                 PROVE  KeyChar(key, j) = 0 <=> l < 4 * KeyWords /\ j = n
    OBVIOUS
  <2>2. j <= l => KeyChar(key, j) # 0
    BY <1>6, KeyCharFacts
  <2>3. j = l + 1 => KeyChar(key, j) = 0
    BY <1>6, KeyCharFacts
  <2>4. j <= l <=> ~(l < 4 * KeyWords /\ j = n)
    BY <1>1, <1>2 DEF Count
  <2>5. j <= l \/ j = l + 1
    BY <1>1, <1>2
  <2>6. j = l + 1 => ~(j <= l)
    BY <1>1
  <2> QED
    BY <2>2, <2>3, <2>4, <2>5, <2>6
<1> HIDE DEF c, n, l
<1>8. SubSeq(c, 1, n) \in Seq(Octets) /\ Len(SubSeq(c, 1, n)) = n
      /\ \A j \in 1..n : SubSeq(c, 1, n)[j] = c[j]
  BY <1>1, <1>2, <1>3
<1> QED
  BY <1>2, <1>4, <1>5, <1>6, <1>7, <1>8 DEF n, l

LEMMA AlikeCounts ==
  ASSUME NEW k \in Passwords, NEW key \in Passwords, Alike(k, key)
  PROVE  Count(key) <= Count(k)
<1>1. /\ Count(k) \in 1..(4 * KeyWords) /\ Count(key) \in 1..(4 * KeyWords)
      /\ Len(k) \in Nat /\ Len(key) \in Nat /\ KeyWords \in Nat
  BY SignificantIs, BcryptAssumption DEF Passwords
<1>2. CASE Len(k) < 4 * KeyWords
  <2>1. KeyChar(k, Count(k)) = 0
    BY <1>1, <1>2, SignificantIs
  <2>2. KeyChar(key, Count(k)) = 0
    BY <1>1, <2>1 DEF Alike
  <2>3. ~(Count(k) <= Len(key))
    BY <1>1, <2>2, KeyCharFacts
  <2> QED
    BY <1>1, <2>3 DEF Count
<1>3. CASE ~(Len(k) < 4 * KeyWords)
  BY <1>1, <1>3 DEF Count
<1> QED
  BY <1>2, <1>3

LEMMA AlikeSignificant ==
  ASSUME NEW k \in Passwords, NEW key \in Passwords
  PROVE  Alike(k, key) <=> Significant(k) = Significant(key)
<1>1. /\ Count(k) \in 1..(4 * KeyWords) /\ Count(key) \in 1..(4 * KeyWords)
      /\ Len(k) \in Nat /\ Len(key) \in Nat /\ KeyWords \in Nat
  BY SignificantIs, BcryptAssumption DEF Passwords
<1>2. ASSUME Alike(k, key)
      PROVE  Significant(k) = Significant(key)
  <2>1. Count(key) <= Count(k)
    BY <1>2, AlikeCounts
  <2>2. Alike(key, k)
    BY <1>2 DEF Alike
  <2>3. Count(k) <= Count(key)
    BY <2>2, AlikeCounts
  <2>4. Count(k) = Count(key)
    BY <1>1, <2>1, <2>3
  <2>5. \A j \in 1..Count(k) : Significant(k)[j] = Significant(key)[j]
    <3>1. \A j \in 1..Count(k) : j \in 1..(4 * KeyWords)
      BY <1>1
    <3> QED
      BY <1>2, <2>4, <3>1, SignificantIs DEF Alike
  <2> QED
    BY <2>4, <2>5, SignificantIs, SeqEqual
<1>3. ASSUME Significant(k) = Significant(key)
      PROVE  Alike(k, key)
  <2>1. Count(k) = Count(key)
    BY <1>3, SignificantIs
  <2>2. \A j \in 1..Count(k) : KeyChar(k, j) = KeyChar(key, j)
    BY <1>3, <2>1, SignificantIs
  <2>3. KeyChar(k, Count(k)) = KeyChar(key, Count(key))
    BY <1>1, <2>1, <2>2
  <2>4. Len(k) < 4 * KeyWords <=> Len(key) < 4 * KeyWords
    <3>1. Count(k) \in 1..Count(k) /\ Count(key) \in 1..Count(key)
      BY <1>1
    <3>2. KeyChar(k, Count(k)) = 0 <=> Len(k) < 4 * KeyWords
      BY <3>1, SignificantIs
    <3>3. KeyChar(key, Count(key)) = 0 <=> Len(key) < 4 * KeyWords
      BY <3>1, SignificantIs
    <3> QED
      BY <2>3, <3>2, <3>3
  <2>5. CASE Len(k) < 4 * KeyWords
    <3>1. Len(k) = Len(key) /\ Count(k) = Len(k) + 1
      BY <1>1, <2>1, <2>4, <2>5 DEF Count
    <3>2. \A j \in 1..(Len(k) + 1) : Append(k, 0)[j] = Append(key, 0)[j]
      <4>1. Significant(k) = SubSeq(Append(k, 0), 1, Len(k) + 1)
        BY <2>5 DEF Significant
      <4>2. Significant(key) = SubSeq(Append(key, 0), 1, Len(k) + 1)
        BY <2>4, <2>5, <3>1 DEF Significant
      <4>3. k \in Seq(1..255) /\ key \in Seq(1..255)
        BY DEF Passwords
      <4>4. Len(k) = Len(key)
        BY <3>1
      <4>5. SubSeq(Append(k, 0), 1, Len(k) + 1) = SubSeq(Append(key, 0), 1, Len(k) + 1)
        BY <1>3, <4>1, <4>2
      <4> QED
        BY <4>3, <4>4, <4>5, Prefixed
    <3>3. SUFFICES ASSUME NEW j \in 1..(4 * KeyWords)
                   PROVE  KeyChar(k, j) = KeyChar(key, j)
      BY DEF Alike
    <3>4. 1 + ((j - 1) % (Len(k) + 1)) \in 1..(Len(k) + 1)
      BY <1>1, Around
    <3> QED
      BY <3>1, <3>2, <3>4 DEF KeyChar
  <2>6. CASE ~(Len(k) < 4 * KeyWords)
    BY <2>2, <2>6 DEF Alike, Count
  <2> QED
    BY <2>5, <2>6
<1> QED
  BY <1>2, <1>3

(* The expanded key and the flip depend on nothing else, and the expanded   *)
(* key alone tells the chars apart.                                         *)
LEMMA SetKeyTells ==
  ASSUME NEW k \in Passwords, NEW key \in Passwords
  PROVE  BFSetKey(k, 2, KeyWords) = BFSetKey(key, 2, KeyWords)
           <=> Significant(k) = Significant(key)
<1>1. ASSUME Alike(k, key)
      PROVE  BFSetKey(k, 2, KeyWords) = BFSetKey(key, 2, KeyWords)
  <2>1. \A i \in 1..KeyWords : Chars(k, i) = Chars(key, i)
    <3>1. SUFFICES ASSUME NEW i \in 1..KeyWords
                   PROVE  Chars(k, i) = Chars(key, i)
      OBVIOUS
    <3>2. \A j \in 1..4 : 4 * (i - 1) + j \in 1..(4 * KeyWords)
      BY BcryptAssumption
    <3> QED
      BY <1>1, <3>2 DEF Alike, Chars
  <2>2. \A i \in 1..KeyWords : Word(k, i) = Word(key, i) /\ BuggyWord(k, i) = BuggyWord(key, i)
    BY <2>1 DEF Word, BuggyWord
  <2>3. [i \in 1..KeyWords |-> Word(k, i)] = [i \in 1..KeyWords |-> Word(key, i)]
    BY <2>2
  <2>4. [i \in 1..KeyWords |-> BuggyWord(k, i)] = [i \in 1..KeyWords |-> BuggyWord(key, i)]
    BY <2>2
  <2>5. Sign(k, KeyWords) = Sign(key, KeyWords)
    BY <2>1 DEF Sign
  <2> QED
    BY <2>3, <2>4, <2>5 DEF BFSetKey
<1>2. ASSUME BFSetKey(k, 2, KeyWords) = BFSetKey(key, 2, KeyWords)
      PROVE  Alike(k, key)
  <2> DEFINE f == [i \in 1..KeyWords |-> Word(k, i)]
             g == [i \in 1..KeyWords |-> Word(key, i)]
  <2>0. 2 % 2 = 0
    OBVIOUS
  <2>1. BFSetKey(k, 2, KeyWords).expanded = f /\ BFSetKey(key, 2, KeyWords).expanded = g
    BY <2>0 DEF BFSetKey
  <2>2. f = g
    BY <1>2, <2>1
  <2>3. \A i \in 1..KeyWords : Word(k, i) = Word(key, i)
    <3>1. \A i \in 1..KeyWords : f[i] = Word(k, i) /\ g[i] = Word(key, i)
      OBVIOUS
    <3> QED
      BY <2>2, <3>1
  <2> QED
    BY <2>3, SameWords
<1> QED
  BY <1>1, <1>2, AlikeSignificant

Right(k) == [i \in 1..KeyWords |-> Word(k, i)]
Buggy(k) == [i \in 1..KeyWords |-> BuggyWord(k, i)]

LEMMA SetKeyIs ==
  ASSUME NEW k
  PROVE  /\ BFSetKey(k, Flags["a"], KeyWords)
              = [expanded |-> Right(k),
                 flipped  |-> Right(k) = Buggy(k) /\ Sign(k, KeyWords)]
         /\ BFSetKey(k, Flags["b"], KeyWords) = [expanded |-> Right(k), flipped |-> FALSE]
         /\ BFSetKey(k, Flags["x"], KeyWords) = [expanded |-> Buggy(k), flipped |-> FALSE]
         /\ BFSetKey(k, Flags["y"], KeyWords) = [expanded |-> Right(k), flipped |-> FALSE]
<1>1. Flags["a"] = 2 /\ Flags["b"] = 4 /\ Flags["x"] = 1 /\ Flags["y"] = 4
  BY DEF Flags
<1>2. /\ 2 % 2 = 0 /\ (2 \div 2) % 2 = 1
      /\ 4 % 2 = 0 /\ (4 \div 2) % 2 = 0
      /\ 1 % 2 = 1 /\ (1 \div 2) % 2 = 0
  OBVIOUS
<1>3. \A f : BFSetKey(k, f, KeyWords)
              = [expanded |-> IF f % 2 = 1 THEN Buggy(k) ELSE Right(k),
                 flipped  |-> (f \div 2) % 2 = 1 /\ ~(Right(k) # Buggy(k)) /\ Sign(k, KeyWords)]
  BY Zenon DEF BFSetKey, Right, Buggy
<1>4. BFSetKey(k, 2, KeyWords)
        = [expanded |-> Right(k), flipped |-> Right(k) = Buggy(k) /\ Sign(k, KeyWords)]
  <2>1. (2 % 2 = 1) = FALSE /\ ((2 \div 2) % 2 = 1) = TRUE
    BY <1>2
  <2>2. ((2 \div 2) % 2 = 1 /\ ~(Right(k) # Buggy(k)) /\ Sign(k, KeyWords))
          = (Right(k) = Buggy(k) /\ Sign(k, KeyWords))
    BY Zenon, <2>1
  <2> QED
    BY Zenon, <1>3, <2>1, <2>2
<1>5. BFSetKey(k, 4, KeyWords) = [expanded |-> Right(k), flipped |-> FALSE]
  <2>1. (4 % 2 = 1) = FALSE /\ ((4 \div 2) % 2 = 1) = FALSE
    BY <1>2
  <2>2. ((4 \div 2) % 2 = 1 /\ ~(Right(k) # Buggy(k)) /\ Sign(k, KeyWords)) = FALSE
    BY Zenon, <2>1
  <2> QED
    BY Zenon, <1>3, <2>1, <2>2
<1>6. BFSetKey(k, 1, KeyWords) = [expanded |-> Buggy(k), flipped |-> FALSE]
  <2>1. (1 % 2 = 1) = TRUE /\ ((1 \div 2) % 2 = 1) = FALSE
    BY <1>2
  <2>2. ((1 \div 2) % 2 = 1 /\ ~(Right(k) # Buggy(k)) /\ Sign(k, KeyWords)) = FALSE
    BY Zenon, <2>1
  <2> QED
    BY Zenon, <1>3, <2>1, <2>2
<1> QED
  BY Zenon, <1>1, <1>4, <1>5, <1>6

(* The words of a password, as chars.                                       *)
LEMMA WordChars ==
  ASSUME NEW key \in Passwords, NEW i \in 1..KeyWords
  PROVE  \E a, b, c, d \in Octets :
           /\ Word(key, i) = <<a, b, c, d>>
           /\ BuggyWord(key, i) = Extended(a, b, c, d)
           /\ (\E j \in 2..4 : Chars(key, i)[j] >= 128) <=> Negative(b, c, d)
           /\ a # 0 => a \in Range(key)
<1>1. \A j \in 1..4 : 4 * (i - 1) + j \in Nat \ {0}
  BY BcryptAssumption
<1>2. \A j \in 1..4 : KeyChar(key, 4 * (i - 1) + j) \in Octets
  BY <1>1, KeyCharFacts
<1>3. KeyChar(key, 4 * (i - 1) + 1) # 0 => KeyChar(key, 4 * (i - 1) + 1) \in Range(key)
  BY <1>1, KeyCharFacts
<1> QED
  BY <1>2, <1>3, WordsAre

(* The key that the buggy algorithm makes of a password which lost chars is *)
(* its own image under the bug, and keeps a negative char.                  *)
LEMMA LossShows ==
  ASSUME NEW key \in Passwords, NEW buggy \in Passwords, Right(key) = Buggy(buggy)
  PROVE  /\ Right(key) = Buggy(key)
         /\ Sign(buggy, KeyWords) => Sign(key, KeyWords)
         /\ ~Sign(buggy, KeyWords) => Right(key) = Right(buggy)
<1>1. ASSUME NEW i \in 1..KeyWords
      PROVE  /\ Word(key, i) = BuggyWord(key, i)
             /\ (\E j \in 2..4 : Chars(buggy, i)[j] >= 128)
                  => \E j \in 2..4 : Chars(key, i)[j] >= 128
             /\ ~(\E j \in 2..4 : Chars(buggy, i)[j] >= 128)
                  => Word(key, i) = Word(buggy, i)
  <2>1. PICK a \in Octets, b \in Octets, c \in Octets, d \in Octets :
           /\ Word(key, i) = <<a, b, c, d>>
           /\ BuggyWord(key, i) = Extended(a, b, c, d)
           /\ (\E j \in 2..4 : Chars(key, i)[j] >= 128) <=> Negative(b, c, d)
    BY WordChars
  <2>2. PICK p \in Octets, q \in Octets, r \in Octets, s \in Octets :
           /\ Word(buggy, i) = <<p, q, r, s>>
           /\ BuggyWord(buggy, i) = Extended(p, q, r, s)
           /\ (\E j \in 2..4 : Chars(buggy, i)[j] >= 128) <=> Negative(q, r, s)
    BY WordChars
  <2>3. Word(key, i) = BuggyWord(buggy, i)
    BY DEF Right, Buggy
  <2> DEFINE e == Extended(p, q, r, s)
  <2>4. e = <<a, b, c, d>>
    BY <2>1, <2>2, <2>3
  <2>5. /\ Extended(e[1], e[2], e[3], e[4]) = e
        /\ Negative(q, r, s) => Negative(e[2], e[3], e[4])
        /\ ~Negative(q, r, s) => e = <<p, q, r, s>>
    BY ExtendedFacts
  <2> HIDE DEF e
  <2>6. e[1] = a /\ e[2] = b /\ e[3] = c /\ e[4] = d
    BY <2>4
  <2>7. Extended(a, b, c, d) = <<a, b, c, d>>
    BY <2>4, <2>5, <2>6
  <2>8. Word(key, i) = BuggyWord(key, i)
    BY <2>1, <2>7
  <2>9. Negative(q, r, s) => Negative(b, c, d)
    BY <2>5, <2>6
  <2>10. ~Negative(q, r, s) => Word(key, i) = Word(buggy, i)
    BY <2>1, <2>2, <2>4, <2>5
  <2> QED
    BY <2>1, <2>2, <2>8, <2>9, <2>10
<1>2. Right(key) = Buggy(key)
  BY <1>1 DEF Right, Buggy
<1>3. Sign(buggy, KeyWords) => Sign(key, KeyWords)
  BY <1>1 DEF Sign
<1>4. ~Sign(buggy, KeyWords) => Right(key) = Right(buggy)
  BY <1>1 DEF Sign, Right
<1> QED
  BY <1>2, <1>3, <1>4

(* A password whose correct key has a negative char and is its own image    *)
(* under the bug has the char 0xff that the extension would leave.          *)
LEMMA FlipNeeds255 ==
  ASSUME NEW key \in Passwords, Right(key) = Buggy(key), Sign(key, KeyWords)
  PROVE  255 \in Range(key)
<1>1. PICK i \in 1..KeyWords : \E j \in 2..4 : Chars(key, i)[j] >= 128
  BY DEF Sign
<1>2. PICK a \in Octets, b \in Octets, c \in Octets, d \in Octets :
        /\ Word(key, i) = <<a, b, c, d>>
        /\ BuggyWord(key, i) = Extended(a, b, c, d)
        /\ (\E j \in 2..4 : Chars(key, i)[j] >= 128) <=> Negative(b, c, d)
        /\ a # 0 => a \in Range(key)
  BY WordChars
<1>3. Extended(a, b, c, d) = <<a, b, c, d>>
  BY <1>2 DEF Right, Buggy
<1>4. a = 255
  <2> DEFINE e == Extended(a, b, c, d)
  <2>1. Negative(b, c, d) => e[1] = 255
    BY ExtendedFacts
  <2>2. e[1] = a
    BY <1>3
  <2> QED
    BY <1>1, <1>2, <2>1, <2>2
<1> QED
  BY <1>2, <1>4

(* What the comment in BF_set_key() promises of the safety measure, for any *)
(* passwords: the hash that $2a$ makes of one is never the hash that the    *)
(* buggy algorithm makes of one whose chars were lost, and only passwords   *)
(* with a char 0xff have another hash under $2a$ than under $2y$.           *)
THEOREM SafetyMeasureHolds ==
  ASSUME NEW pw \in Passwords, NEW buggy \in Passwords
  PROVE  SafetyMeasure(pw, buggy)
<1> DEFINE a == BFSetKey(pw, Flags["a"], KeyWords)
           x == BFSetKey(buggy, Flags["x"], KeyWords)
           y == BFSetKey(pw, Flags["y"], KeyWords)
<1>1. ASSUME a = x
      PROVE  Significant(pw) = Significant(buggy) /\ ~Sign(buggy, KeyWords)
  <2> DEFINE flip == Right(pw) = Buggy(pw) /\ Sign(pw, KeyWords)
  <2>0. /\ a = [expanded |-> Right(pw), flipped |-> flip]
        /\ x = [expanded |-> Buggy(buggy), flipped |-> FALSE]
    BY SetKeyIs
  <2> HIDE DEF a, x, flip
  <2>1. a.expanded = Right(pw) /\ x.expanded = Buggy(buggy)
    BY <2>0
  <2>2. Right(pw) = Buggy(buggy)
    BY <1>1, <2>1
  <2>3. ~(Right(pw) = Buggy(pw) /\ Sign(pw, KeyWords))
    <3>1. a.flipped = flip /\ x.flipped = FALSE
      BY Zenon, <2>0
    <3>2. ~flip
      BY Zenon, <1>1, <3>1
    <3> QED
      BY Zenon, <3>2 DEF flip
  <2>4. ~Sign(buggy, KeyWords)
    BY <2>2, <2>3, LossShows
  <2>5. Right(pw) = Right(buggy)
    BY <2>2, <2>4, LossShows
  <2>6. \A i \in 1..KeyWords : Word(pw, i) = Word(buggy, i)
    BY <2>5 DEF Right
  <2> QED
    BY <2>4, <2>6, SameWords, AlikeSignificant
<1>2. a # y => 255 \in Range(pw)
  BY SetKeyIs, FlipNeeds255
<1>3. y = BFSetKey(pw, Flags["b"], KeyWords)
  BY SetKeyIs
<1> QED
  BY <1>1, <1>2, <1>3 DEF SafetyMeasure
------------------------------------------------------------------------------
(* The letters of a salt.                                                   *)

(* A byte of the input, or the zero bits that stand for what is behind it.  *)
At(src, i) == IF i <= Len(src) THEN src[i] ELSE 0

LetterAt(src, k) ==
  LET i == 3 * ((k - 1) \div 4) + ((k - 1) % 4)
  IN  CASE k % 4 = 1 -> At(src, i + 1) \div 4
        [] k % 4 = 2 -> (At(src, i) % 4) * 16 + At(src, i + 1) \div 16
        [] k % 4 = 3 -> (At(src, i) % 16) * 4 + At(src, i + 1) \div 64
        [] k % 4 = 0 -> At(src, i) % 64

Letters(n) == n + (n + 2) \div 3

LEMMA EncodeIs ==
  ASSUME NEW src
  PROVE  BFEncode(src) = [k \in 1..Letters(Len(src)) |-> LetterAt(src, k)]
BY Zenon DEF BFEncode, Letters, LetterAt, At

(* Byte i = 3q + r + 1 lies in letters 4q + r + 1 and 4q + r + 2.           *)
LEMMA LettersOf ==
  ASSUME NEW src, NEW q \in Nat, NEW r \in 0..2
  PROVE  LET i == 3 * q + r + 1
             k == 4 * q + r + 1
         IN  /\ r = 0 => /\ LetterAt(src, k) = At(src, i) \div 4
                         /\ LetterAt(src, k + 1) = (At(src, i) % 4) * 16 + At(src, i + 1) \div 16
             /\ r = 1 => /\ LetterAt(src, k) = (At(src, i - 1) % 4) * 16 + At(src, i) \div 16
                         /\ LetterAt(src, k + 1) = (At(src, i) % 16) * 4 + At(src, i + 1) \div 64
             /\ r = 2 => /\ LetterAt(src, k) = (At(src, i - 1) % 16) * 4 + At(src, i) \div 64
                         /\ LetterAt(src, k + 1) = At(src, i) % 64
<1>1. \A m \in 0..3 :
        /\ ((4 * q + m + 1) - 1) \div 4 = q /\ ((4 * q + m + 1) - 1) % 4 = m
        /\ (4 * q + m + 1) % 4 = (m + 1) % 4
  OBVIOUS
<1>2. \A m \in 0..3 :
        LetterAt(src, 4 * q + m + 1) =
          LET i == 3 * q + m
          IN  CASE (m + 1) % 4 = 1 -> At(src, i + 1) \div 4
                [] (m + 1) % 4 = 2 -> (At(src, i) % 4) * 16 + At(src, i + 1) \div 16
                [] (m + 1) % 4 = 3 -> (At(src, i) % 16) * 4 + At(src, i + 1) \div 64
                [] (m + 1) % 4 = 0 -> At(src, i) % 64
  BY Zenon, <1>1 DEF LetterAt
<1>3. LetterAt(src, 4 * q + 0 + 1) = At(src, 3 * q + 0 + 1) \div 4
  BY <1>2
<1>4. LetterAt(src, 4 * q + 1 + 1) = (At(src, 3 * q + 1) % 4) * 16 + At(src, 3 * q + 1 + 1) \div 16
  BY <1>2
<1>5. LetterAt(src, 4 * q + 2 + 1) = (At(src, 3 * q + 2) % 16) * 4 + At(src, 3 * q + 2 + 1) \div 64
  BY <1>2
<1>6. LetterAt(src, 4 * q + 3 + 1) = At(src, 3 * q + 3) % 64
  BY <1>2
<1>7. CASE r = 0
  <2>1. 4 * q + r + 1 = 4 * q + 0 + 1 /\ (4 * q + r + 1) + 1 = 4 * q + 1 + 1
        /\ 3 * q + r + 1 = 3 * q + 0 + 1 /\ 3 * q + 0 + 1 = 3 * q + 1
        /\ (3 * q + r + 1) + 1 = 3 * q + 1 + 1
    BY <1>7
  <2> QED
    BY <1>3, <1>4, <1>7, <2>1
<1>8. CASE r = 1
  <2>1. 4 * q + r + 1 = 4 * q + 1 + 1 /\ (4 * q + r + 1) + 1 = 4 * q + 2 + 1
        /\ 3 * q + r + 1 = 3 * q + 1 + 1 /\ (3 * q + r + 1) - 1 = 3 * q + 1
        /\ 3 * q + 1 + 1 = 3 * q + 2 /\ (3 * q + r + 1) + 1 = 3 * q + 2 + 1
    BY <1>8
  <2> QED
    BY <1>4, <1>5, <1>8, <2>1
<1>9. CASE r = 2
  <2>1. 4 * q + r + 1 = 4 * q + 2 + 1 /\ (4 * q + r + 1) + 1 = 4 * q + 3 + 1
        /\ 3 * q + r + 1 = 3 * q + 2 + 1 /\ (3 * q + r + 1) - 1 = 3 * q + 2
        /\ 3 * q + 2 + 1 = 3 * q + 3
    BY <1>9
  <2> QED
    BY <1>5, <1>6, <1>9, <2>1
<1> QED
  BY <1>7, <1>8, <1>9

(* Where byte i lies.                                                       *)
LEMMA PlaceOf ==
  ASSUME NEW n \in Nat, NEW i \in 1..n
  PROVE  \E q \in Nat, r \in 0..2 :
           /\ i = 3 * q + r + 1
           /\ q = (i - 1) \div 3 /\ r = (i - 1) % 3
           /\ i % 3 = (r + 1) % 3
           /\ 4 * q + r + 1 \in 1..Letters(n) /\ 4 * q + r + 2 \in 1..Letters(n)
<1> DEFINE q == (i - 1) \div 3
           r == (i - 1) % 3
<1>1. q \in Nat /\ r \in 0..2 /\ i = 3 * q + r + 1
  OBVIOUS
<1>2. i % 3 = (r + 1) % 3
  OBVIOUS
<1>3. q + 1 <= (n + 2) \div 3
  OBVIOUS
<1>4. 4 * q + r + 2 = i + (q + 1) /\ (n + 2) \div 3 \in Nat
  BY <1>1
<1> HIDE DEF q, r
<1>5. 4 * q + r + 1 \in 1..Letters(n) /\ 4 * q + r + 2 \in 1..Letters(n)
  BY <1>1, <1>3, <1>4 DEF Letters
<1> QED
  BY <1>1, <1>2, <1>5 DEF q, r

LEMMA AtTyped ==
  ASSUME NEW src \in Seq(Octets), NEW i \in Nat \ {0}
  PROVE  At(src, i) \in Octets
<1>1. Len(src) \in Nat /\ (i <= Len(src) => i \in 1..Len(src))
  OBVIOUS
<1>2. i <= Len(src) => src[i] \in Octets
  BY <1>1, ElementOfSeq
<1> QED
  BY <1>2 DEF At, Octets

(* Every letter has six bits.                                               *)
LEMMA LetterAtTyped ==
  ASSUME NEW src \in Seq(Octets), NEW k \in Nat \ {0}
  PROVE  LetterAt(src, k) \in 0..63
<1> DEFINE i == 3 * ((k - 1) \div 4) + ((k - 1) % 4)
<1>1. i \in Nat /\ (k % 4 # 1 => i # 0) /\ k % 4 \in {0, 1, 2, 3}
  <2>1. k % 4 # 1 => (k - 1) % 4 # 0
    OBVIOUS
  <2>2. (k - 1) \div 4 \in Nat /\ (k - 1) % 4 \in Nat
    OBVIOUS
  <2> QED
    BY <2>1, <2>2
<1> HIDE DEF i
<1>2. At(src, i + 1) \in Octets /\ (k % 4 # 1 => At(src, i) \in Octets)
  BY <1>1, AtTyped
<1> DEFINE a == At(src, i)
           b == At(src, i + 1)
<1>4. CASE k % 4 = 1
  <2>1. LetterAt(src, k) = b \div 4
    BY <1>4 DEF LetterAt, i
  <2> HIDE DEF a, b
  <2>2. b \in Octets
    BY <1>2 DEF b
  <2> QED
    BY <2>1, <2>2 DEF Octets
<1>5. CASE k % 4 = 2
  <2>1. LetterAt(src, k) = (a % 4) * 16 + b \div 16
    BY <1>5 DEF LetterAt, i
  <2>2. k % 4 # 1
    BY <1>5
  <2> HIDE DEF a, b
  <2>3. a \in Octets /\ b \in Octets
    BY <1>2, <2>2 DEF a, b
  <2>4. (a % 4) * 16 + b \div 16 \in 0..63
    BY <2>3 DEF Octets
  <2> QED
    BY <2>1, <2>4
<1>6. CASE k % 4 = 3
  <2>1. LetterAt(src, k) = (a % 16) * 4 + b \div 64
    BY <1>6 DEF LetterAt, i
  <2>2. k % 4 # 1
    BY <1>6
  <2> HIDE DEF a, b
  <2>3. a \in Octets /\ b \in Octets
    BY <1>2, <2>2 DEF a, b
  <2>4. (a % 16) * 4 + b \div 64 \in 0..63
    BY <2>3 DEF Octets
  <2> QED
    BY <2>1, <2>4
<1>7. CASE k % 4 = 0
  <2>1. LetterAt(src, k) = a % 64
    BY <1>7 DEF LetterAt, i
  <2>2. k % 4 # 1
    BY <1>7
  <2> HIDE DEF a, b
  <2>3. a \in Octets /\ b \in Octets
    BY <1>2, <2>2 DEF a, b
  <2>4. a % 64 \in 0..63
    BY <2>3 DEF Octets
  <2> QED
    BY <2>1, <2>4
<1> QED
  BY <1>1, <1>4, <1>5, <1>6, <1>7

(* The byte that BF_decode() finds at place i.                              *)
DecodedByte(used, i) ==
  LET k == 4 * ((i - 1) \div 3) + ((i - 1) % 3) + 1
  IN  CASE i % 3 = 1 -> used[k] * 4 + used[k + 1] \div 16
        [] i % 3 = 2 -> (used[k] % 16) * 16 + used[k + 1] \div 4
        [] i % 3 = 0 -> (used[k] % 4) * 64 + used[k + 1]

LEMMA DecodeIs ==
  ASSUME NEW src, NEW n
  PROVE  LET used == SubSeq(src, 1, Letters(n))
         IN  BFDecode(src, n) = IF NoLetter \in Range(used) THEN NULL
                                ELSE [i \in 1..n |-> DecodedByte(used, i)]
BY Zenon DEF BFDecode, Letters, DecodedByte

(* What BF_encode() writes, BF_decode() reads, for any number of bytes.     *)
LEMMA RoundTrip ==
  ASSUME NEW src \in Seq(Octets)
  PROVE  /\ BFEncode(src) \in Seq(0..63) /\ Len(BFEncode(src)) = Letters(Len(src))
         /\ BFDecode(BFEncode(src), Len(src)) = src
<1> DEFINE n == Len(src)
           l == Letters(n)
           enc == BFEncode(src)
           used == SubSeq(enc, 1, l)
<1>1. n \in Nat /\ l \in Nat
  BY DEF Letters
<1>2. enc = [k \in 1..l |-> LetterAt(src, k)]
  BY EncodeIs
<1> HIDE DEF enc, l
<1>3. \A k \in 1..l : LetterAt(src, k) \in 0..63
  <2>1. \A k \in 1..l : k \in Nat \ {0}
    BY <1>1
  <2> QED
    BY <2>1, LetterAtTyped
<1>4. enc \in Seq(0..63) /\ Len(enc) = l
  BY <1>1, <1>2, <1>3
<1>5. used = enc
  BY <1>1, <1>4
<1>6. NoLetter \notin Range(used)
  <2>1. DOMAIN enc = 1..l /\ \A k \in 1..l : enc[k] \in 0..63
    BY <1>2, <1>3
  <2>2. Range(used) \subseteq 0..63
    BY <1>5, <2>1 DEF Range
  <2>3. NoLetter \notin 0..63
    BY SMT DEF NoLetter
  <2> QED
    BY Zenon, <2>2, <2>3
<1> HIDE DEF used
<1>7. ASSUME NEW i \in 1..n
      PROVE  DecodedByte(used, i) = src[i]
  <2>1. PICK q \in Nat, r \in 0..2 :
           /\ i = 3 * q + r + 1
           /\ q = (i - 1) \div 3 /\ r = (i - 1) % 3
           /\ i % 3 = (r + 1) % 3
           /\ 4 * q + r + 1 \in 1..l /\ 4 * q + r + 2 \in 1..l
    BY <1>1, PlaceOf DEF l
  <2> DEFINE k == 4 * q + r + 1
             x == src[i]
  <2>2. At(src, i) = x /\ x \in Octets
    BY <1>1, ElementOfSeq DEF At
  <2>3. At(src, i + 1) \in Octets /\ (i # 1 => At(src, i - 1) \in Octets)
    BY <1>1, AtTyped
  <2>4. used[k] = LetterAt(src, k) /\ used[k + 1] = LetterAt(src, k + 1)
    <3>1. k + 1 = 4 * q + r + 2
      BY <2>1
    <3> QED
      BY <1>2, <1>5, <2>1, <3>1
  <2>5. DecodedByte(used, i) = CASE i % 3 = 1 -> used[k] * 4 + used[k + 1] \div 16
                             [] i % 3 = 2 -> (used[k] % 16) * 16 + used[k + 1] \div 4
                             [] i % 3 = 0 -> (used[k] % 4) * 64 + used[k + 1]
    BY Zenon, <2>1 DEF DecodedByte
  <2> DEFINE u == used[k]
             v == used[k + 1]
             w == At(src, i - 1)
             y == At(src, i + 1)
  <2>6. CASE r = 0
    <3>1. u = x \div 4 /\ v = (x % 4) * 16 + y \div 16
      BY <2>1, <2>2, <2>4, <2>6, LettersOf
    <3>2. DecodedByte(used, i) = u * 4 + v \div 16
      <4>1. i % 3 = 1
        BY <2>1, <2>6
      <4> QED
        BY <2>5, <4>1
    <3> HIDE DEF u, v, x, y
    <3>3. x \in Octets /\ y \in Octets
      BY <2>2, <2>3 DEF y
    <3>4. u * 4 + v \div 16 = x
      <4>1. v \div 16 = x % 4
        BY <3>1, <3>3 DEF Octets
      <4> QED
        BY <3>1, <3>3, <4>1 DEF Octets
    <3> QED
      BY <3>2, <3>4 DEF x
  <2>7. CASE r = 1
    <3>1. u = (w % 4) * 16 + x \div 16 /\ v = (x % 16) * 4 + y \div 64
      BY <2>1, <2>2, <2>4, <2>7, LettersOf
    <3>2. DecodedByte(used, i) = (u % 16) * 16 + v \div 4
      <4>1. i % 3 = 2
        BY <2>1, <2>7
      <4> QED
        BY <2>5, <4>1
    <3>3. i # 1
      BY <2>1, <2>7
    <3> HIDE DEF u, v, w, x, y
    <3>4. w \in Octets /\ x \in Octets /\ y \in Octets
      BY <2>2, <2>3, <3>3 DEF w, y
    <3>5. (u % 16) * 16 + v \div 4 = x
      <4>1. u % 16 = x \div 16
        BY <3>1, <3>4 DEF Octets
      <4>2. v \div 4 = x % 16
        BY <3>1, <3>4 DEF Octets
      <4> QED
        BY <3>4, <4>1, <4>2 DEF Octets
    <3> QED
      BY <3>2, <3>5 DEF x
  <2>8. CASE r = 2
    <3>1. u = (w % 16) * 4 + x \div 64 /\ v = x % 64
      BY <2>1, <2>2, <2>4, <2>8, LettersOf
    <3>2. DecodedByte(used, i) = (u % 4) * 64 + v
      <4>1. i % 3 = 0
        BY <2>1, <2>8
      <4> QED
        BY <2>5, <4>1
    <3>3. i # 1
      BY <2>1, <2>8
    <3> HIDE DEF u, v, w, x
    <3>4. w \in Octets /\ x \in Octets
      BY <2>2, <2>3, <3>3 DEF w
    <3>5. (u % 4) * 64 + v = x
      <4>1. u % 4 = x \div 64
        BY <3>1, <3>4 DEF Octets
      <4> QED
        BY <3>1, <3>4, <4>1 DEF Octets
    <3> QED
      BY <3>2, <3>5 DEF x
  <2> QED
    BY <2>6, <2>7, <2>8
<1>8. BFDecode(enc, n) = [i \in 1..n |-> DecodedByte(used, i)]
  BY <1>6, DecodeIs DEF used, l
<1>9. BFDecode(enc, n) = src
  <2>1. src = [i \in 1..n |-> src[i]]
    OBVIOUS
  <2>2. [i \in 1..n |-> DecodedByte(used, i)] = [i \in 1..n |-> src[i]]
    BY <1>7
  <2> QED
    BY <1>8, <2>1, <2>2
<1> QED
  BY <1>4, <1>9 DEF enc, l
------------------------------------------------------------------------------
(* The calls.                                                               *)

(* Settings as text may give them, with what stands behind the salt.        *)
SettingTexts(strings, behind) ==
  [prefix : strings, subtype : strings, cost : Nat, salt : [1..22 -> 0..NoLetter],
   hash : behind]

LEMMA FunctionIsSeq ==
  ASSUME NEW S, NEW n \in Nat, NEW s \in [1..n -> S]
  PROVE  s \in Seq(S) /\ Len(s) = n
OBVIOUS

LEMMA SeqIsFunction ==
  ASSUME NEW S, NEW s \in Seq(S)
  PROVE  s \in [1..Len(s) -> S]
OBVIOUS

LEMMA TrimFacts ==
  ASSUME NEW salt \in [1..22 -> 0..NoLetter]
  PROVE  /\ Trimmed(salt) \in [1..22 -> 0..NoLetter]
         /\ Trimmed(Trimmed(salt)) = Trimmed(salt)
         /\ BFDecode(Trimmed(salt), 16) = BFDecode(salt, 16)
<1> DEFINE t == Trimmed(salt)
           x == salt[22]
           y == (x \div 16) * 16
<1>1. x \in 0..64 /\ NoLetter = 64
  BY DEF NoLetter
<1>2. /\ y \in 0..64 /\ (y \div 16) * 16 = y /\ y \div 16 = x \div 16
      /\ y = 64 <=> x = 64
  <2> HIDE DEF x
  <2> QED
    BY <1>1
<1>3. t = [salt EXCEPT ![22] = y]
  BY DEF Trimmed
<1> HIDE DEF t, x, y
<1>4. t[22] = y /\ \A k \in 1..21 : t[k] = salt[k]
  BY <1>3
<1>5. t \in [1..22 -> 0..NoLetter]
  BY <1>1, <1>2, <1>3
<1>6. Trimmed(t) = t
  BY <1>2, <1>4, <1>5 DEF Trimmed
<1>7. Letters(16) = 22
  BY DEF Letters
<1>8. \A s \in [1..22 -> 0..NoLetter] : SubSeq(s, 1, Letters(16)) = s
  <2>1. SUFFICES ASSUME NEW s \in [1..22 -> 0..NoLetter]
                 PROVE  SubSeq(s, 1, 22) = s
    BY <1>7
  <2>2. s \in Seq(0..NoLetter) /\ Len(s) = 22
    BY FunctionIsSeq
  <2> QED
    BY <2>2
<1>9. NoLetter \in Range(t) <=> NoLetter \in Range(salt)
  <2>1. \A k \in 1..22 : t[k] = NoLetter <=> salt[k] = NoLetter
    <3>1. \A k \in 1..22 : k \in 1..21 \/ k = 22
      OBVIOUS
    <3>2. t[22] = NoLetter <=> salt[22] = NoLetter
      BY <1>1, <1>2, <1>4 DEF x
    <3> QED
      BY Zenon, <1>4, <3>1, <3>2
  <2>2. DOMAIN t = 1..22 /\ DOMAIN salt = 1..22
    BY <1>5
  <2> QED
    BY Zenon, <2>1, <2>2 DEF Range
<1>10. \A i \in 1..16 : DecodedByte(t, i) = DecodedByte(salt, i)
  <2>1. SUFFICES ASSUME NEW i \in 1..16
                 PROVE  DecodedByte(t, i) = DecodedByte(salt, i)
    OBVIOUS
  <2> DEFINE k == 4 * ((i - 1) \div 3) + ((i - 1) % 3) + 1
  <2>2. k \in 1..21 /\ (k + 1 \in 1..21 \/ (i % 3 = 1 /\ k + 1 = 22)) /\ i % 3 \in 0..2
    OBVIOUS
  <2>3. t[k] = salt[k]
    BY <1>4, <2>2
  <2>4. t[k + 1] \div 16 = salt[k + 1] \div 16 /\ (i % 3 # 1 => t[k + 1] = salt[k + 1])
    BY <1>2, <1>4, <2>2 DEF x
  <2> DEFINE u == k + 1
  <2>5. \A s : DecodedByte(s, i) = CASE i % 3 = 1 -> s[k] * 4 + s[u] \div 16
                               [] i % 3 = 2 -> (s[k] % 16) * 16 + s[u] \div 4
                               [] i % 3 = 0 -> (s[k] % 4) * 64 + s[u]
    BY Zenon DEF DecodedByte
  <2> HIDE DEF k, u
  <2>6. CASE i % 3 = 1
    <3>1. \A s : DecodedByte(s, i) = s[k] * 4 + s[u] \div 16
      BY <2>5, <2>6
    <3> QED
      BY Zenon, <2>3, <2>4, <3>1 DEF u
  <2>7. CASE i % 3 = 2
    <3>1. \A s : DecodedByte(s, i) = (s[k] % 16) * 16 + s[u] \div 4
      BY <2>5, <2>7
    <3>2. t[u] = salt[u]
      BY <2>4, <2>7 DEF u
    <3> QED
      BY Zenon, <2>3, <3>1, <3>2
  <2>8. CASE i % 3 = 0
    <3>1. \A s : DecodedByte(s, i) = (s[k] % 4) * 64 + s[u]
      BY <2>5, <2>8
    <3>2. t[u] = salt[u]
      BY <2>4, <2>8 DEF u
    <3> QED
      BY Zenon, <2>3, <3>1, <3>2
  <2> QED
    BY <2>2, <2>6, <2>7, <2>8
<1>11. BFDecode(t, 16) = BFDecode(salt, 16)
  <2>1. SubSeq(t, 1, Letters(16)) = t /\ SubSeq(salt, 1, Letters(16)) = salt
    BY <1>5, <1>8
  <2>2. [i \in 1..16 |-> DecodedByte(t, i)] = [i \in 1..16 |-> DecodedByte(salt, i)]
    BY <1>10
  <2> QED
    BY Zenon, <1>9, <2>1, <2>2, DecodeIs
<1> QED
  BY <1>5, <1>6, <1>11 DEF t

(* What BF_crypt() accepts, and what it makes of it.                        *)
Accepted(s, size, minCost) ==
  /\ ~(size < OutputSize)
  /\ s.prefix = "$2" /\ s.subtype \in DOMAIN Flags /\ s.cost \in 0..31
  /\ ~(s.cost < minCost) /\ BFDecode(s.salt, 16) # NULL

Hashed(key, s) ==
  [prefix |-> s.prefix, subtype |-> s.subtype, cost |-> s.cost, salt |-> Trimmed(s.salt),
   hash |-> [salt |-> BFDecode(s.salt, 16), cost |-> s.cost,
             key |-> BFSetKey(key, Flags[s.subtype], KeyWords)]]

LEMMA CryptIs ==
  ASSUME NEW strings, NEW behind, NEW s \in SettingTexts(strings, behind),
         NEW key, NEW size, NEW minCost
  PROVE  BFCrypt(key, s, size, minCost) = IF Accepted(s, size, minCost) THEN Hashed(key, s)
                                          ELSE NULL
<1> DEFINE hash == [salt |-> BFDecode(s.salt, 16), cost |-> s.cost,
                    key |-> BFSetKey(key, Flags[s.subtype], KeyWords)]
<1>1. Hashed(key, s) = [s EXCEPT !.salt = Trimmed(@), !.hash = hash]
  <2> DEFINE salt == Trimmed(s.salt)
  <2>1. Hashed(key, s) = [prefix |-> s.prefix, subtype |-> s.subtype, cost |-> s.cost,
                          salt |-> salt, hash |-> hash]
    BY Zenon DEF Hashed
  <2>2. [s EXCEPT !.salt = Trimmed(@), !.hash = hash]
          = [s EXCEPT !.salt = salt, !.hash = hash]
    OBVIOUS
  <2> HIDE DEF hash, salt
  <2>3. [s EXCEPT !.salt = salt, !.hash = hash]
          = [prefix |-> s.prefix, subtype |-> s.subtype, cost |-> s.cost,
             salt |-> salt, hash |-> hash]
    <3> DEFINE e == [s EXCEPT !.salt = salt, !.hash = hash]
    <3>1. e \in [prefix : {s.prefix}, subtype : {s.subtype}, cost : {s.cost},
                 salt : {salt}, hash : {hash}]
      BY DEF SettingTexts
    <3> HIDE DEF e
    <3>2. e = [prefix |-> s.prefix, subtype |-> s.subtype, cost |-> s.cost,
               salt |-> salt, hash |-> hash]
      BY <3>1
    <3> QED
      BY <3>2 DEF e
  <2> QED
    BY Zenon, <2>1, <2>2, <2>3
<1> QED
  BY Zenon, <1>1 DEF BFCrypt, Accepted

(* A hash, taken as a setting, is one, is accepted too and gives itself.    *)
LEMMA HashedTyped ==
  ASSUME NEW strings, NEW behind, NEW s \in SettingTexts(strings, behind), NEW k
  PROVE  Hashed(k, s) \in SettingTexts(strings, {Hashed(k, s).hash})
<1> DEFINE h == Hashed(k, s)
           x == h.hash
<1>1. /\ s.prefix \in strings /\ s.subtype \in strings /\ s.cost \in Nat
      /\ s.salt \in [1..22 -> 0..NoLetter]
  BY DEF SettingTexts
<1>2. Trimmed(s.salt) \in [1..22 -> 0..NoLetter]
  BY <1>1, TrimFacts
<1>3. h = [prefix |-> s.prefix, subtype |-> s.subtype, cost |-> s.cost,
           salt |-> Trimmed(s.salt), hash |-> x]
  BY DEF Hashed
<1> HIDE DEF h, x
<1>4. h \in SettingTexts(strings, {x})
  BY <1>1, <1>2, <1>3 DEF SettingTexts
<1> QED
  BY <1>4 DEF h, x

LEMMA HashedAgain ==
  ASSUME NEW s, s.salt \in [1..22 -> 0..NoLetter], NEW key, NEW k, NEW size, NEW minCost,
         Accepted(s, size, minCost)
  PROVE  Accepted(Hashed(k, s), size, minCost) /\ Hashed(key, Hashed(k, s)) = Hashed(key, s)
<1> DEFINE h == Hashed(k, s)
<1>1. /\ Trimmed(Trimmed(s.salt)) = Trimmed(s.salt)
      /\ BFDecode(Trimmed(s.salt), 16) = BFDecode(s.salt, 16)
  BY TrimFacts
<1>2. /\ h.prefix = s.prefix /\ h.subtype = s.subtype /\ h.cost = s.cost
      /\ h.salt = Trimmed(s.salt)
  BY DEF Hashed
<1> HIDE DEF h
<1>3. Accepted(h, size, minCost)
  BY Zenon, <1>1, <1>2 DEF Accepted
<1>4. Hashed(key, h) = Hashed(key, s)
  BY Zenon, <1>1, <1>2 DEF Hashed
<1> QED
  BY <1>3, <1>4 DEF h

(* crypt_rn(), by what BF_crypt() returns and whether the self-test holds.  *)
LEMMA CryptRnIs ==
  ASSUME NEW strings, NEW behind, NEW s \in SettingTexts(strings, behind), NEW key, NEW size
  PROVE  LET r == CryptRn(key, s, size)
             good == SelfTest /\ Accepted(s, size, 4) /\ Hashed(key, s) # NULL
         IN  /\ good => r.output = Hashed(key, s) /\ r.returned = Hashed(key, s)
             /\ ~good => /\ r.returned = NULL
                         /\ r.output = IF size < 3 THEN NULL ELSE OutputMagic(s)
<1> DEFINE h == BFCrypt(key, s, size, 4)
           good == SelfTest /\ Accepted(s, size, 4) /\ Hashed(key, s) # NULL
           bad == IF size < 3 THEN NULL ELSE OutputMagic(s)
<1>1. h = IF Accepted(s, size, 4) THEN Hashed(key, s) ELSE NULL
  BY Zenon, CryptIs
<1>2. CryptRn(key, s, size) = IF SelfTest /\ h # NULL THEN [output |-> h, returned |-> h]
                              ELSE [output |-> bad, returned |-> NULL]
  BY Zenon DEF CryptRn
<1> HIDE DEF h, bad
<1>3. ASSUME good
      PROVE  /\ CryptRn(key, s, size).output = Hashed(key, s)
             /\ CryptRn(key, s, size).returned = Hashed(key, s)
  <2>1. CryptRn(key, s, size) = [output |-> h, returned |-> h] /\ h = Hashed(key, s)
    BY Zenon, <1>1, <1>2, <1>3
  <2> QED
    BY <2>1
<1>4. ASSUME ~good
      PROVE  CryptRn(key, s, size).returned = NULL /\ CryptRn(key, s, size).output = bad
  <2>1. CryptRn(key, s, size) = [output |-> bad, returned |-> NULL]
    BY Zenon, <1>1, <1>2, <1>4
  <2> QED
    BY <2>1
<1> QED
  BY Zenon, <1>3, <1>4 DEF bad

LEMMA MagicDiffers ==
  ASSUME NEW s
  PROVE  OutputMagic(s).prefix \in {"*0", "*1"} /\ OutputMagic(s).prefix # s.prefix
<1>1. OutputMagic(s).prefix = IF s.prefix = "*0" THEN "*1" ELSE "*0"
  BY DEF OutputMagic
<1> QED
  BY <1>1

(* A call of crypt_rn() that fails, whatever the setting and the room in    *)
(* the output, leaves an output that is no hash and not the setting;        *)
(* crypt(), which returns the output, can be told by its first chars to     *)
(* have failed; and a hash, as the setting, gives itself again.             *)
THEOREM NoFailureMatches ==
  ASSUME NEW strings, NEW behind, NEW setting \in SettingTexts(strings, behind),
         NEW pw, NEW size \in Nat
  PROVE  FailureNeverMatches(pw, setting, size)
<1> DEFINE r == CryptRn(pw, setting, size)
           good(n) == SelfTest /\ Accepted(setting, n, 4) /\ Hashed(pw, setting) # NULL
<1>1. \A n : /\ good(n) => /\ CryptRn(pw, setting, n).output = Hashed(pw, setting)
                           /\ CryptRn(pw, setting, n).returned = Hashed(pw, setting)
             /\ ~good(n) => /\ CryptRn(pw, setting, n).returned = NULL
                            /\ CryptRn(pw, setting, n).output
                                 = IF n < 3 THEN NULL ELSE OutputMagic(setting)
  BY Zenon, CryptRnIs
<1>2. \A n : CryptRn(pw, setting, n).returned = NULL <=> ~good(n)
  BY Zenon, <1>1
<1>3. ASSUME r.returned = NULL, size >= 3
      PROVE  r.output.prefix # setting.prefix
  <2>1. ~(size < 3)
    BY <1>3
  <2>2. r.output = OutputMagic(setting)
    BY Zenon, <1>1, <1>2, <1>3, <2>1
  <2> QED
    BY Zenon, <2>2, MagicDiffers
<1>4. Crypt(pw, setting).prefix \in {"*0", "*1"}
        <=> CryptRn(pw, setting, OutputSize).returned = NULL
  <2> DEFINE o == CryptRn(pw, setting, OutputSize)
  <2>1. Crypt(pw, setting) = IF o.returned # NULL THEN o.returned ELSE o.output
    BY Zenon DEF Crypt
  <2>2. CASE o.returned = NULL
    <3>1. ~(OutputSize < 3)
      BY DEF OutputSize
    <3>2. Crypt(pw, setting) = OutputMagic(setting)
      BY Zenon, <1>1, <1>2, <2>1, <2>2, <3>1
    <3> QED
      BY Zenon, <2>2, <3>2, MagicDiffers
  <2>3. CASE o.returned # NULL
    <3>1. Crypt(pw, setting) = Hashed(pw, setting) /\ setting.prefix = "$2"
      BY Zenon, <1>1, <1>2, <2>1, <2>3 DEF Accepted
    <3>2. Hashed(pw, setting).prefix = setting.prefix
      BY DEF Hashed
    <3>3. "$2" # "*0" /\ "$2" # "*1"
      OBVIOUS
    <3> QED
      BY Zenon, <2>3, <3>1, <3>2, <3>3
  <2> QED
    BY Zenon, <2>2, <2>3
<1>5. ASSUME r.returned # NULL
      PROVE  CryptRn(pw, r.returned, size).returned = r.returned
  <2> DEFINE h == Hashed(pw, setting)
  <2>1. good(size) /\ r.returned = h
    BY Zenon, <1>1, <1>2, <1>5
  <2>2. h \in SettingTexts(strings, {h.hash}) /\ Accepted(h, size, 4) /\ Hashed(pw, h) = h
    <3>1. h \in SettingTexts(strings, {h.hash})
      BY Zenon, HashedTyped
    <3>2. setting.salt \in [1..22 -> 0..NoLetter]
      BY DEF SettingTexts
    <3> QED
      BY Zenon, <2>1, <3>1, <3>2, HashedAgain
  <2>3. SelfTest /\ Accepted(h, size, 4) /\ Hashed(pw, h) # NULL
    BY Zenon, <2>1, <2>2
  <2> HIDE DEF h
  <2>4. CryptRn(pw, h, size).returned = Hashed(pw, h)
    BY Zenon, <2>2, <2>3, CryptRnIs
  <2> QED
    BY Zenon, <2>1, <2>2, <2>4
<1> QED
  BY Zenon, <1>3, <1>4, <1>5 DEF FailureNeverMatches
------------------------------------------------------------------------------
(* The self-test.                                                           *)

TestKey == <<255, 163, 51, 52, 255, 255, 255, 163, 51, 52, 53>>

LEMMA Ended ==
  ASSUME NEW s \in Seq(Nat)
  PROVE  Append(s, 0)[Len(s) + 1] = 0 /\ \A n \in 1..Len(s) : Append(s, 0)[n] = s[n]
OBVIOUS

(* Its twelve chars with the NUL are three words, which repeat.             *)
LEMMA TestWords ==
  ASSUME NEW i \in 1..18
  PROVE  LET w == CASE (i - 1) % 3 = 0 -> <<255, 163, 51, 52>>
                    [] (i - 1) % 3 = 1 -> <<255, 255, 255, 163>>
                    [] (i - 1) % 3 = 2 -> <<51, 52, 53, 0>>
         IN  /\ Word(TestKey, i) = w /\ BuggyWord(TestKey, i) = w
             /\ i = 1 => \E j \in 2..4 : Chars(TestKey, i)[j] >= 128
<1> DEFINE c == Append(TestKey, 0)
           k(j) == KeyChar(TestKey, 4 * (i - 1) + j)
           m == (i - 1) % 3
<1>1. /\ Len(TestKey) = 11
      /\ c[1] = 255 /\ c[2] = 163 /\ c[3] = 51 /\ c[4] = 52
      /\ c[5] = 255 /\ c[6] = 255 /\ c[7] = 255 /\ c[8] = 163
      /\ c[9] = 51 /\ c[10] = 52 /\ c[11] = 53 /\ c[12] = 0
  <2>1. TestKey \in Seq(Nat) /\ Len(TestKey) = 11
    BY DEF TestKey
  <2>2. c[12] = 0 /\ \A n \in 1..11 : c[n] = TestKey[n]
    <3>1. 0 \in Nat /\ Len(TestKey) + 1 = 12
      BY <2>1
    <3>2. c[Len(TestKey) + 1] = 0 /\ \A n \in 1..Len(TestKey) : c[n] = TestKey[n]
      BY <2>1, Ended
    <3> QED
      BY <2>1, <3>1, <3>2
  <2> HIDE DEF c
  <2>3. /\ TestKey[1] = 255 /\ TestKey[2] = 163 /\ TestKey[3] = 51 /\ TestKey[4] = 52
        /\ TestKey[5] = 255 /\ TestKey[6] = 255 /\ TestKey[7] = 255 /\ TestKey[8] = 163
        /\ TestKey[9] = 51 /\ TestKey[10] = 52 /\ TestKey[11] = 53
    BY DEF TestKey
  <2> QED
    BY <2>1, <2>2, <2>3
<1>2. ASSUME NEW j \in 1..4
      PROVE  k(j) = c[4 * m + j]
  <2>1. 1 + (((4 * (i - 1) + j) - 1) % 12) = 4 * m + j
    OBVIOUS
  <2>2. k(j) = c[1 + (((4 * (i - 1) + j) - 1) % (Len(TestKey) + 1))]
    BY DEF KeyChar
  <2>3. Len(TestKey) + 1 = 12
    BY <1>1
  <2> QED
    BY <2>1, <2>2, <2>3
<1>3. m \in 0..2 /\ (i = 1 => m = 0)
  OBVIOUS
<1> HIDE DEF c, k, m
<1>4. CASE m = 0
  <2>1. k(1) = 255 /\ k(2) = 163 /\ k(3) = 51 /\ k(4) = 52
    BY <1>1, <1>2, <1>4
  <2>2. \A j \in 1..4 : k(j) \in Octets
    BY <2>1 DEF Octets
  <2>3. /\ Word(TestKey, i) = <<255, 163, 51, 52>>
        /\ BuggyWord(TestKey, i) = Extended(255, 163, 51, 52)
        /\ (\E j \in 2..4 : Chars(TestKey, i)[j] >= 128) <=> Negative(163, 51, 52)
    BY <2>1, <2>2, WordsAre DEF k
  <2>4. Extended(255, 163, 51, 52) = <<255, 163, 51, 52>> /\ Negative(163, 51, 52)
    BY DEF Extended, Negative
  <2> QED
    BY <1>4, <2>3, <2>4 DEF m
<1>5. CASE m = 1
  <2>1. k(1) = 255 /\ k(2) = 255 /\ k(3) = 255 /\ k(4) = 163
    BY <1>1, <1>2, <1>5
  <2>2. \A j \in 1..4 : k(j) \in Octets
    BY <2>1 DEF Octets
  <2>3. /\ Word(TestKey, i) = <<255, 255, 255, 163>>
        /\ BuggyWord(TestKey, i) = Extended(255, 255, 255, 163)
    BY <2>1, <2>2, WordsAre DEF k
  <2>4. Extended(255, 255, 255, 163) = <<255, 255, 255, 163>>
    BY DEF Extended
  <2> QED
    BY <1>3, <1>5, <2>3, <2>4 DEF m
<1>6. CASE m = 2
  <2>1. k(1) = 51 /\ k(2) = 52 /\ k(3) = 53 /\ k(4) = 0
    BY <1>1, <1>2, <1>6
  <2>2. \A j \in 1..4 : k(j) \in Octets
    BY <2>1 DEF Octets
  <2>3. /\ Word(TestKey, i) = <<51, 52, 53, 0>>
        /\ BuggyWord(TestKey, i) = Extended(51, 52, 53, 0)
    BY <2>1, <2>2, WordsAre DEF k
  <2>4. Extended(51, 52, 53, 0) = <<51, 52, 53, 0>>
    BY DEF Extended
  <2> QED
    BY <1>3, <1>6, <2>3, <2>4 DEF m
<1> QED
  BY <1>3, <1>4, <1>5, <1>6

LEMMA SelfTestPasses == SelfTest
<1> DEFINE right == [i \in 1..18 |-> Word(TestKey, i)]
           buggy == [i \in 1..18 |-> BuggyWord(TestKey, i)]
           a == BFSetKey(TestKey, 2, 18)
           y == BFSetKey(TestKey, 4, 18)
<1>1. right = buggy
  <2>1. \A i \in 1..18 : Word(TestKey, i) = BuggyWord(TestKey, i)
    BY Zenon, TestWords
  <2> QED
    BY <2>1
<1>2. Sign(TestKey, 18)
  <2>1. 1 \in 1..18
    OBVIOUS
  <2>2. \E j \in 2..4 : Chars(TestKey, 1)[j] >= 128
    BY Zenon, <2>1, TestWords
  <2> QED
    BY Zenon, <2>1, <2>2 DEF Sign
<1>3. /\ (2 % 2 = 1) = FALSE /\ ((2 \div 2) % 2 = 1) = TRUE
      /\ (4 % 2 = 1) = FALSE /\ ((4 \div 2) % 2 = 1) = FALSE
  OBVIOUS
<1>4. \A f : BFSetKey(TestKey, f, 18)
              = [expanded |-> IF f % 2 = 1 THEN buggy ELSE right,
                 flipped  |-> (f \div 2) % 2 = 1 /\ ~(right # buggy) /\ Sign(TestKey, 18)]
  BY Zenon DEF BFSetKey
<1>5. right[18] = <<51, 52, 53, 0>>
  <2>1. 18 \in 1..18 /\ (18 - 1) % 3 = 2 /\ 2 # 0 /\ 2 # 1
    OBVIOUS
  <2>2. Word(TestKey, 18) = <<51, 52, 53, 0>>
    BY <2>1, TestWords
  <2> QED
    BY <2>1, <2>2
<1> HIDE DEF right, buggy
<1>6. a.expanded = right /\ a.flipped = TRUE
  <2>1. ((2 \div 2) % 2 = 1 /\ ~(right # buggy) /\ Sign(TestKey, 18)) = TRUE
    BY Zenon, <1>1, <1>2, <1>3
  <2>2. a = [expanded |-> right, flipped |-> TRUE]
    BY Zenon, <1>3, <1>4, <2>1
  <2> QED
    BY <2>2
<1>7. y.expanded = right /\ y.flipped = FALSE
  <2>1. ((4 \div 2) % 2 = 1 /\ ~(right # buggy) /\ Sign(TestKey, 18)) = FALSE
    BY Zenon, <1>3
  <2>2. y = [expanded |-> right, flipped |-> FALSE]
    BY Zenon, <1>3, <1>4, <2>1
  <2> QED
    BY <2>2
<1> HIDE DEF a, y
<1>8. a.expanded = y.expanded /\ a.flipped # y.flipped /\ y.expanded[18] = <<51, 52, 53, 0>>
  BY <1>5, <1>6, <1>7
<1> QED
  BY Zenon, <1>8 DEF SelfTest, TestKey, a, y
------------------------------------------------------------------------------
(* Hashes of passwords.                                                     *)

LEMMA KeyTyped ==
  ASSUME NEW key \in Passwords
  PROVE  BFSetKey(key, Flags["a"], KeyWords)
           \in [expanded : [1..KeyWords -> [1..4 -> 0..255]], flipped : BOOLEAN]
<1> DEFINE flip == Right(key) = Buggy(key) /\ Sign(key, KeyWords)
<1>1. BFSetKey(key, Flags["a"], KeyWords) = [expanded |-> Right(key), flipped |-> flip]
  BY Zenon, SetKeyIs
<1>2. flip \in BOOLEAN
  OBVIOUS
<1>3. \A i \in 1..KeyWords : Word(key, i) \in [1..4 -> 0..255]
  <2>1. SUFFICES ASSUME NEW i \in 1..KeyWords
                 PROVE  Word(key, i) \in [1..4 -> 0..255]
    OBVIOUS
  <2>2. PICK a, b, c, d \in Octets : Word(key, i) = <<a, b, c, d>>
    BY WordChars
  <2> QED
    BY <2>2 DEF Octets
<1>4. Right(key) \in [1..KeyWords -> [1..4 -> 0..255]]
  BY <1>3 DEF Right
<1> HIDE DEF flip
<1> QED
  BY <1>1, <1>2, <1>4

(* The setting that bcrypt_hash() makes of 16 random bytes.                 *)
SettingOf(rand, cost) ==
  [prefix |-> "$2", subtype |-> "a", cost |-> cost, salt |-> BFEncode(rand), hash |-> NULL]

LEMMA SettingTyped ==
  ASSUME NEW rand \in Seq(Octets), Len(rand) = 16, NEW cost \in 4..31
  PROVE  LET s == SettingOf(rand, cost)
         IN  /\ rand \in Salts /\ rand # NULL /\ s # NULL
             /\ s.salt \in [1..22 -> 0..63] /\ s \in SettingTexts({"$2", "a"}, {NULL})
             /\ BFDecode(s.salt, 16) = rand
             /\ Accepted(s, 64, 4)
<1> DEFINE s == SettingOf(rand, cost)
           salt == BFEncode(rand)
<1>1. /\ s.prefix = "$2" /\ s.subtype = "a" /\ s.cost = cost
      /\ s.salt = salt /\ s.hash = NULL
  BY DEF SettingOf
<1>2. rand \in Salts
  <2>1. rand \in [1..16 -> Octets]
    BY SeqIsFunction
  <2> QED
    BY <2>1 DEF Salts, Octets
<1>3. salt \in [1..22 -> 0..63]
  <2>1. salt \in Seq(0..63) /\ Len(salt) = Letters(16)
    BY RoundTrip
  <2>2. Letters(16) = 22
    BY DEF Letters
  <2>3. salt \in [1..Len(salt) -> 0..63]
    BY <2>1, SeqIsFunction
  <2> QED
    BY Zenon, <2>1, <2>2, <2>3
<1>4. BFDecode(salt, 16) = rand
  BY RoundTrip
<1>5. "a" \in DOMAIN Flags
  BY DEF Flags
<1>6. cost \in 0..31 /\ cost \in Nat /\ ~(cost < 4)
  OBVIOUS
<1> HIDE DEF salt
<1>7. s = [prefix |-> "$2", subtype |-> "a", cost |-> cost, salt |-> salt, hash |-> NULL]
  BY DEF SettingOf, salt
<1> HIDE DEF s
<1>8. s \in Settings
  BY <1>3, <1>5, <1>6, <1>7 DEF Settings
<1>9. rand # NULL /\ s # NULL
  BY Zenon, <1>2, <1>8, NullAssumption
<1>10. s \in SettingTexts({"$2", "a"}, {NULL})
  <2>1. salt \in [1..22 -> 0..NoLetter]
    <3>1. 0..63 \subseteq 0..NoLetter
      BY SMT DEF NoLetter
    <3> QED
      BY <1>3, <3>1
  <2> QED
    BY <1>5, <1>6, <1>7, <2>1 DEF SettingTexts
<1>11. Accepted(s, 64, 4)
  <2>1. ~(64 < OutputSize)
    BY DEF OutputSize
  <2> QED
    BY Zenon, <1>1, <1>4, <1>5, <1>6, <1>9, <2>1 DEF Accepted
<1> QED
  BY Zenon, <1>1, <1>2, <1>3, <1>4, <1>9, <1>10, <1>11 DEF s

LEMMA HashTyped ==
  ASSUME NEW rand \in Seq(Octets), Len(rand) = 16, NEW cost \in 4..31, NEW key \in Passwords
  PROVE  Hashed(key, SettingOf(rand, cost)) # NULL
<1> DEFINE s == SettingOf(rand, cost)
           salt == Trimmed(s.salt)
           k == BFSetKey(key, Flags["a"], KeyWords)
           h == [salt |-> rand, cost |-> cost, key |-> k]
<1>1. /\ s.prefix = "$2" /\ s.subtype = "a" /\ s.cost = cost
  BY DEF SettingOf
<1>2. BFDecode(s.salt, 16) = rand /\ rand \in Salts /\ s.salt \in [1..22 -> 0..63]
  BY SettingTyped
<1>3. Hashed(key, s) = [prefix |-> "$2", subtype |-> "a", cost |-> cost, salt |-> salt,
                        hash |-> h]
  BY Zenon, <1>1, <1>2 DEF Hashed
<1>4. salt \in [1..22 -> 0..63]
  <2> DEFINE l == s.salt
  <2>1. l \in [1..22 -> 0..63] /\ salt = [l EXCEPT ![22] = (l[22] \div 16) * 16]
    BY <1>2 DEF Trimmed
  <2> HIDE DEF l, salt
  <2>2. l[22] \in 0..63
    BY <2>1
  <2>3. (l[22] \div 16) * 16 \in 0..63
    <3>1. \A x \in 0..63 : (x \div 16) * 16 \in 0..63
      OBVIOUS
    <3> QED
      BY Zenon, <2>2, <3>1
  <2> QED
    BY <2>1, <2>3
<1>5. k \in [expanded : [1..KeyWords -> [1..4 -> 0..255]], flipped : BOOLEAN]
  BY KeyTyped
<1> HIDE DEF k, salt, s
<1>6. h \in [salt : Salts, cost : 0..31,
             key : [expanded : [1..KeyWords -> [1..4 -> 0..255]], flipped : BOOLEAN]]
  BY <1>2, <1>5
<1>7. "a" \in DOMAIN Flags /\ cost \in 0..31
  BY DEF Flags
<1> HIDE DEF h
<1>8. Hashed(key, s) \in Settings
  BY <1>3, <1>4, <1>6, <1>7 DEF Settings
<1> QED
  BY Zenon, <1>8, NullAssumption DEF s

(* Two hashes of one setting are the same if and only if the passwords      *)
(* agree on every char that counts.                                         *)
LEMMA HashesTell ==
  ASSUME NEW rand, NEW cost, NEW pw \in Passwords, NEW other \in Passwords
  PROVE  Hashed(other, SettingOf(rand, cost)) = Hashed(pw, SettingOf(rand, cost))
           <=> Significant(pw) = Significant(other)
<1> DEFINE s == SettingOf(rand, cost)
           k(p) == BFSetKey(p, 2, KeyWords)
<1>1. s.subtype = "a" /\ Flags["a"] = 2
  BY DEF SettingOf, Flags
<1> HIDE DEF s
<1>2. \A p : Hashed(p, s) =
               [prefix |-> s.prefix, subtype |-> s.subtype, cost |-> s.cost,
                salt |-> Trimmed(s.salt),
                hash |-> [salt |-> BFDecode(s.salt, 16), cost |-> s.cost, key |-> k(p)]]
  BY Zenon, <1>1 DEF Hashed
<1> HIDE DEF k
<1>3. Hashed(other, s).hash.key = k(other) /\ Hashed(pw, s).hash.key = k(pw)
  BY <1>2
<1>4. Hashed(other, s) = Hashed(pw, s) <=> k(other) = k(pw)
  BY Zenon, <1>2, <1>3
<1>5. k(other) = k(pw) <=> Significant(pw) = Significant(other)
  BY Zenon, SetKeyTells DEF k
<1> QED
  BY Zenon, <1>4, <1>5 DEF s

(* What bcrypt_hash() makes of 16 random bytes and any work factor.         *)
LEMMA BcryptHashIs ==
  ASSUME NEW rand \in Seq(Octets), Len(rand) = 16, NEW work \in Int, NEW pw \in Passwords
  PROVE  \E cost \in 4..31 : BcryptHash(pw, rand, work) = Hashed(pw, SettingOf(rand, cost))
<1> DEFINE w == IF work < 4 \/ 31 < work THEN 10 ELSE work
           s == SettingOf(rand, w)
<1>1. w \in 4..31
  OBVIOUS
<1> HIDE DEF w
<1>2. /\ rand # NULL /\ s # NULL /\ s \in SettingTexts({"$2", "a"}, {NULL}) /\ Accepted(s, 64, 4)
  BY <1>1, SettingTyped
<1>3. Hashed(pw, s) # NULL
  BY <1>1, HashTyped
<1>4. GensaltBlowfish("a", w, rand, 64) = s
  <2>1. SubSeq(rand, 1, 16) = rand
    OBVIOUS
  <2>2. ~(Len(rand) < 16 \/ 64 < 7 + 22 + 1) /\ ~(w # 0 /\ w \notin 4..31) /\ w # 0
    BY <1>1
  <2>3. "a" \in {"a", "b", "y"}
    OBVIOUS
  <2> QED
    BY Zenon, <2>1, <2>2, <2>3 DEF GensaltBlowfish, SettingOf
<1>5. CryptGensaltRn("$2a$", w, rand, 64) = s
  <2> DEFINE P == {"$2a$", "$2b$", "$2y$"}
             subtype == [p \in P |->
                           CASE p = "$2a$" -> "a" [] p = "$2b$" -> "b" [] p = "$2y$" -> "y"]
  <2>1. "$2a$" \in DOMAIN subtype /\ subtype["$2a$"] = "a"
    OBVIOUS
  <2>2. CryptGensaltRn("$2a$", w, rand, 64)
          = IF rand = NULL \/ "$2a$" \notin DOMAIN subtype THEN NULL
            ELSE GensaltBlowfish(subtype["$2a$"], w, rand, 64)
    BY Zenon DEF CryptGensaltRn
  <2> HIDE DEF subtype
  <2> QED
    BY Zenon, <1>2, <1>4, <2>1, <2>2
<1>6. BcryptHash(pw, rand, work) = CryptRn(pw, s, 64).returned
  BY Zenon, <1>2, <1>5 DEF BcryptHash, w
<1>7. BcryptHash(pw, rand, work) = Hashed(pw, s)
  BY Zenon, <1>2, <1>3, <1>6, CryptRnIs, SelfTestPasses
<1> QED
  BY <1>1, <1>7

(* A stored hash lets in the password it was made of, whatever its length,  *)
(* the work factor and the 16 random bytes, and another password exactly if *)
(* the two agree on every char that counts: up to and with the NUL, and no  *)
(* more than the expanded key takes.                                        *)
THEOREM HashesTellPasswords ==
  ASSUME NEW pw \in Passwords, NEW other \in Passwords,
         NEW rand \in Seq(Octets), Len(rand) = 16, NEW work \in Int
  PROVE  HashTellsPasswords(pw, other, rand, work)
<1> DEFINE h == BcryptHash(pw, rand, work)
<1>1. PICK cost \in 4..31 : h = Hashed(pw, SettingOf(rand, cost))
  BY BcryptHashIs
<1> DEFINE s == SettingOf(rand, cost)
<1>2. s \in SettingTexts({"$2", "a"}, {NULL}) /\ Accepted(s, 64, 4)
  BY SettingTyped
<1>3. \A key \in Passwords : Hashed(key, s) # NULL
  BY HashTyped
<1> HIDE DEF h, s
<1>4. ASSUME NEW key \in Passwords
      PROVE  BcryptCheck(key, h) = IF Significant(pw) = Significant(key) THEN "yes" ELSE "no"
  <2>1. /\ h \in SettingTexts({"$2", "a"}, {h.hash}) /\ Accepted(h, 64, 4)
        /\ Hashed(key, h) = Hashed(key, s)
    <3>1. h \in SettingTexts({"$2", "a"}, {h.hash})
      BY Zenon, <1>1, <1>2, HashedTyped DEF s
    <3>2. s.salt \in [1..22 -> 0..NoLetter]
      BY <1>2 DEF SettingTexts
    <3> QED
      BY Zenon, <1>1, <1>2, <3>1, <3>2, HashedAgain DEF s
  <2>2. Hashed(key, h) # NULL
    BY Zenon, <1>3, <2>1
  <2>3. CryptRn(key, h, 64).returned = Hashed(key, s)
    BY Zenon, <2>1, <2>2, CryptRnIs, SelfTestPasses
  <2>4. Hashed(key, s) = h <=> Significant(pw) = Significant(key)
    BY Zenon, <1>1, HashesTell DEF s
  <2> QED
    BY Zenon, <1>3, <2>3, <2>4 DEF BcryptCheck
<1>5. BFDecode(BFEncode(rand), Len(rand)) = rand
  BY RoundTrip
<1>6. h # NULL
  BY Zenon, <1>1, <1>3 DEF s
<1>7. BcryptCheck(pw, h) = "yes"
  BY Zenon, <1>4
<1> QED
  BY Zenon, <1>4, <1>5, <1>6, <1>7 DEF HashTellsPasswords, h
------------------------------------------------------------------------------
(* A nonempty set of naturals has a least element. *)
LEMMA LeastNatural ==
  ASSUME NEW T, T \subseteq Nat, T # {}
  PROVE  \E n \in T : \A m \in T : n <= m
<1>1. PICK x \in T : \A y \in T : <<y, x>> \notin OpToRel(<, Nat)
  BY NatLessThanWellFounded, WFMin
<1>2. ASSUME NEW y \in T PROVE x <= y
  <2>1. x \in Nat /\ y \in Nat OBVIOUS
  <2>2. ~(y < x)
    BY <1>1, <2>1 DEF OpToRel
  <2> QED BY <2>1, <2>2
<1> QED BY <1>2

(* Induction over an interval. *)
LEMMA UpwardInduction ==
  ASSUME NEW lo \in Int, NEW hi \in Int, NEW T,
         lo \in T, \A i \in (lo + 1)..hi : i - 1 \in T => i \in T
  PROVE  \A i \in lo..hi : i \in T
<1> SUFFICES ASSUME NEW k \in lo..hi, k \notin T PROVE FALSE OBVIOUS
<1> DEFINE Bad == {n \in Nat : lo + n <= hi /\ lo + n \notin T}
<1>1. Bad \subseteq Nat OBVIOUS
<1>2. k - lo \in Bad OBVIOUS
<1>3. PICK m \in Bad : \A n \in Bad : m <= n BY <1>1, <1>2, LeastNatural
<1>4. m \in Nat /\ lo + m <= hi /\ lo + m \notin T OBVIOUS
<1>5. m # 0
  <2> SUFFICES ASSUME m = 0 PROVE FALSE OBVIOUS
  <2>1. lo + m = lo OBVIOUS
  <2> QED BY <2>1, <1>4
<1>6. m - 1 \notin Bad BY <1>3, <1>4
<1>7. lo + (m - 1) \in T BY <1>4, <1>5, <1>6
<1>8. lo + m \in (lo + 1)..hi /\ (lo + m) - 1 = lo + (m - 1) BY <1>4, <1>5
<1> QED BY <1>4, <1>7, <1>8

(* Induction from the end of a text to its beginning: what holds at a place *)
(* when it holds at all later ones holds everywhere.                        *)
LEMMA DownwardInduction ==
  ASSUME NEW n \in Nat, NEW T,
         \A i \in 1..n : (\A m \in (i + 1)..n : m \in T) => i \in T
  PROVE  \A i \in 1..n : i \in T
<1> SUFFICES ASSUME NEW k \in 1..n, k \notin T PROVE FALSE OBVIOUS
<1> DEFINE Bad == {m \in Nat : m < n /\ n - m \notin T}
<1>1. Bad \subseteq Nat OBVIOUS
<1>2. n - k \in Bad OBVIOUS
<1>3. PICK m \in Bad : \A x \in Bad : m <= x BY <1>1, <1>2, LeastNatural
<1>4. m \in Nat /\ m < n /\ n - m \notin T OBVIOUS
<1>5. ASSUME NEW i \in ((n - m) + 1)..n PROVE i \in T
  <2>1. n - i \in Nat /\ n - i < m /\ n - i < n /\ n - (n - i) = i BY <1>4
  <2>2. n - i \notin Bad BY <2>1, <1>3, <1>4
  <2> QED BY <2>1, <2>2
<1>6. n - m \in 1..n BY <1>4
<1> QED BY <1>4, <1>5, <1>6

(* A function that each step of an interval computes from the value before. *)
Stepwise(lo, hi, base, step) ==
  CHOOSE g : g = [e \in lo..hi |-> IF e = lo THEN base ELSE step[<<g[e - 1], e>>]]

(* That it is one.                                                          *)
FollowsSteps(w, lo, hi, base, step) ==
  \A e \in lo..hi : w[e] = IF e = lo THEN base ELSE step[<<w[e - 1], e>>]

(* It exists, if steps lead from values of a set to values of that set.     *)
LEMMA StepwiseFollows ==
  ASSUME NEW lo \in Int, NEW hi \in Int, NEW S, NEW base, base \in S,
         NEW step, step \in [S \X ((lo + 1)..hi) -> S]
  PROVE  FollowsSteps(Stepwise(lo, hi, base, step), lo, hi, base, step)
<1> DEFINE Good(g, n) ==
      \A e \in lo..hi : e <= n => g[e] = IF e = lo THEN base ELSE step[<<g[e - 1], e>>]
    T == {n \in Int : \E g \in [lo..hi -> S] : Good(g, n)}
<1>1. lo \in T
  <2> DEFINE g == [e \in lo..hi |-> base]
  <2>1. g \in [lo..hi -> S] OBVIOUS
  <2>2. Good(g, lo) OBVIOUS
  <2> QED BY <2>1, <2>2
<1>2. ASSUME NEW n \in (lo + 1)..hi, n - 1 \in T PROVE n \in T
  <2>1. PICK g \in [lo..hi -> S] : Good(g, n - 1) BY <1>2
  <2> DEFINE w == step[<<g[n - 1], n>>]
             h == [e \in lo..hi |-> IF e = n THEN w ELSE g[e]]
  <2>2. g[n - 1] \in S BY <2>1
  <2>3. w \in S
    <3>1. <<g[n - 1], n>> \in S \X ((lo + 1)..hi) BY <2>2
    <3> QED BY <3>1
  <2> HIDE DEF w
  <2>4. h \in [lo..hi -> S] BY <2>3, <2>1
  <2>5. ASSUME NEW e \in lo..hi, e <= n
        PROVE  h[e] = IF e = lo THEN base ELSE step[<<h[e - 1], e>>]
    <3>1. CASE e = n
      <4>1. h[e] = w /\ h[e - 1] = g[n - 1] /\ e # lo BY <3>1
      <4> QED BY <4>1, <3>1 DEF w
    <3>2. CASE e # n
      <4>1. h[e] = g[e] /\ e <= n - 1 BY <3>2, <2>5
      <4>2. e # lo => h[e - 1] = g[e - 1] BY <4>1
      <4> QED BY <4>1, <4>2, <2>1
    <3> QED BY <3>1, <3>2
  <2>6. Good(h, n) BY <2>5
  <2>7. n \in Int OBVIOUS
  <2> QED BY <2>4, <2>6, <2>7
<1> DEFINE Is(g) == g = [e \in lo..hi |-> IF e = lo THEN base ELSE step[<<g[e - 1], e>>]]
           w == Stepwise(lo, hi, base, step)
<1>3. \E g : Is(g)
  <2>1. CASE lo <= hi
    <3> HIDE DEF T
    <3>1. hi \in T BY <1>1, <1>2, <2>1, UpwardInduction
    <3>2. PICK g \in [lo..hi -> S] : Good(g, hi) BY <3>1 DEF T
    <3>3. Is(g) BY <3>2
    <3> QED BY <3>3
  <2>2. CASE ~(lo <= hi)
    <3>1. lo..hi = {} BY <2>2
    <3>2. Is([e \in lo..hi |-> base]) BY <3>1
    <3> QED BY <3>2
  <2> QED BY <2>1, <2>2
<1>4. w = CHOOSE x : Is(x) BY DEF Stepwise
<1>5. Is(w)
  <2> HIDE DEF Is
  <2> QED BY <1>3, <1>4
<1> HIDE DEF w
<1>6. FollowsSteps(w, lo, hi, base, step) BY <1>5 DEF FollowsSteps
<1> QED BY <1>6 DEF w

(* And its values belong to that set.                                       *)
LEMMA StepwiseTyped ==
  ASSUME NEW lo \in Int, NEW hi \in Int, NEW S, NEW base, base \in S,
         NEW step, step \in [S \X ((lo + 1)..hi) -> S],
         NEW w, FollowsSteps(w, lo, hi, base, step)
  PROVE  \A e \in lo..hi : w[e] \in S
<1> DEFINE T == {e \in lo..hi : w[e] \in S}
<1>1. ASSUME NEW e \in (lo + 1)..hi, e - 1 \in T PROVE e \in T
  <2>1. e \in lo..hi /\ e # lo OBVIOUS
  <2>2. <<w[e - 1], e>> \in S \X ((lo + 1)..hi) BY <1>1
  <2>3. w[e] = step[<<w[e - 1], e>>] BY <2>1 DEF FollowsSteps
  <2> QED BY <2>1, <2>2, <2>3
<1> SUFFICES ASSUME NEW e \in lo..hi PROVE w[e] \in S OBVIOUS
<1>2. lo \in lo..hi OBVIOUS
<1>3. w[lo] = base BY <1>2 DEF FollowsSteps
<1>4. lo \in T BY <1>2, <1>3
<1> HIDE DEF T
<1>5. e \in T BY <1>4, <1>1, UpwardInduction
<1> QED BY <1>5 DEF T

------------------------------------------------------------------------------
(* lex_str_less() reads a string as a sequence of tokens: a number or one   *)
(* character each.  A token's category, its rank in that and where the next *)
(* one begins.                                                              *)
CharValues == (-128)..127

Cat(s, i) == CharCat(ToUpper(s[i]))
Rank(s, i, UMax) == IF Cat(s, i) = NUMB THEN FromChars(s, i, UMax) ELSE ToUpper(s[i])
NextToken(s, i) == IF Cat(s, i) = NUMB THEN DigitsEnd(s, i) ELSE i + 1

(* Categories and characters are numbers, and no letter becomes a digit in  *)
(* upper case.                                                              *)
LEMMA Categories ==
  ASSUME NEW c \in CharValues
  PROVE  /\ CharCat(ToUpper(c)) \in 0..4
         /\ ToUpper(c) \in Int
         /\ CharCat(ToUpper(c)) = NUMB => CharCat(c) = NUMB
<1>1. c \in Int /\ -128 <= c /\ c <= 127 BY DEF CharValues
<1>2. ToUpper(c) \in Int /\ -128 <= ToUpper(c) /\ ToUpper(c) <= 127 BY <1>1 DEF ToUpper
<1>3. \A x \in Int : -128 <= x /\ x <= 127 => CharCat(x) \in 0..4
  BY DEF CharCat, NUMB, LETT, SYMB, CTRL, EXTD
<1>4. \A x \in Int : -128 <= x /\ x <= 127 /\ CharCat(x) = NUMB => 48 <= x /\ x <= 57
  BY DEF CharCat, NUMB, LETT, SYMB, CTRL, EXTD
<1>5. ASSUME CharCat(ToUpper(c)) = NUMB PROVE CharCat(c) = NUMB
  <2>1. 48 <= ToUpper(c) /\ ToUpper(c) <= 57 BY <1>2, <1>4, <1>5
  <2>2. ToUpper(c) = c BY <2>1, <1>1 DEF ToUpper
  <2> QED BY <2>2, <1>5
<1> QED BY <1>2, <1>3, <1>5

(* A number ends behind its first digit and not behind the string's end.    *)
LEMMA DigitsEndAfter ==
  ASSUME NEW s \in Seq(CharValues), NEW i \in 1..Len(s), CharCat(s[i]) = NUMB
  PROVE  DigitsEnd(s, i) \in (i + 1)..(Len(s) + 1)
<1> DEFINE n == Len(s)
           T == {e \in i..(n + 1) : e = n + 1 \/ CharCat(s[e]) # NUMB}
<1>0. n \in Nat /\ i \in Nat /\ i <= n BY LenProperties
<1> HIDE DEF n
<1>1. T \subseteq Nat /\ n + 1 \in T BY <1>0
<1>2. PICK e \in T : \A m \in T : e <= m BY <1>1, LeastNatural
<1>3. e \in i..(n + 1) /\ (e = n + 1 \/ CharCat(s[e]) # NUMB) OBVIOUS
<1>4. ASSUME NEW k \in i..(e - 1) PROVE CharCat(s[k]) = NUMB
  <2>1. k \in i..(n + 1) /\ k < e BY <1>0, <1>3
  <2>2. k \notin T BY <2>1, <1>2, <1>0
  <2> QED BY <2>1, <2>2
<1> DEFINE D == DigitsEnd(s, i)
<1>5. /\ D \in i..(n + 1)
      /\ D = n + 1 \/ CharCat(s[D]) # NUMB
  BY <1>3, <1>4 DEF DigitsEnd, n
<1>6. D # i BY <1>5, <1>0
<1> QED BY <1>5, <1>6, <1>0 DEF n

(* What from_chars() leaves in the variable is an integer.                  *)
LEMMA FromCharsTyped ==
  ASSUME NEW s \in Seq(CharValues), NEW i \in 1..Len(s), CharCat(s[i]) = NUMB, NEW UMax
  PROVE  FromChars(s, i, UMax) \in Int
<1> DEFINE n == DigitsEnd(s, i)
           step == [p \in Int \X ((i + 1)..n) |-> 10 * p[1] + (s[p[2] - 1] - 48)]
           Reads(g) == g = [e \in i..n |-> IF e = i THEN 0 ELSE 10 * g[e - 1] + (s[e - 1] - 48)]
           Number == CHOOSE g : Reads(g)
<1>0. PICK zero \in Int : zero = 0 OBVIOUS
<1>1. n \in (i + 1)..(Len(s) + 1) /\ i \in Nat /\ Len(s) \in Nat BY DigitsEndAfter, LenProperties
<1> HIDE DEF n
<1>2. \A k \in i..(n - 1) : s[k] \in Int
  <2> SUFFICES ASSUME NEW k \in i..(n - 1) PROVE s[k] \in Int OBVIOUS
  <2>1. k \in 1..Len(s) BY <1>1
  <2>2. s[k] \in CharValues BY <2>1, ElementOfSeq
  <2>3. \A c \in CharValues : c \in Int BY DEF CharValues
  <2> QED BY <2>2, <2>3
<1>3. step \in [Int \X ((i + 1)..n) -> Int]
  <2> SUFFICES ASSUME NEW p \in Int \X ((i + 1)..n)
               PROVE  10 * p[1] + (s[p[2] - 1] - 48) \in Int
    OBVIOUS
  <2>1. p[1] \in Int /\ p[2] - 1 \in i..(n - 1) BY <1>1
  <2>2. s[p[2] - 1] \in Int BY <2>1, <1>2
  <2> QED BY <2>1, <2>2
(* A function that reads the digits is one that follows the steps.          *)
<1>4. ASSUME NEW e \in i..n, e # i, NEW v \in Int
      PROVE  step[<<v, e>>] = 10 * v + (s[e - 1] - 48)
  <2>1. <<v, e>> \in Int \X ((i + 1)..n) BY <1>1, <1>4
  <2> QED BY <2>1
<1> HIDE DEF step
<1>5. i \in Int /\ n \in Int BY <1>1
<1>6. \E g : Reads(g)
  <2> DEFINE w == Stepwise(i, n, zero, step)
             g == [e \in i..n |-> w[e]]
  <2>1. FollowsSteps(w, i, n, zero, step) BY <1>3, <1>5, StepwiseFollows
  <2> HIDE DEF w
  <2>2. \A e \in i..n : w[e] \in Int BY <1>3, <1>5, <2>1, StepwiseTyped
  <2>3. ASSUME NEW e \in i..n PROVE w[e] = IF e = i THEN 0 ELSE 10 * w[e - 1] + (s[e - 1] - 48)
    <3>1. w[e] = IF e = i THEN zero ELSE step[<<w[e - 1], e>>] BY <2>1 DEF FollowsSteps
    <3>2. e # i => e - 1 \in i..n BY <1>1
    <3> QED BY <1>0, <1>4, <2>2, <3>1, <3>2
  <2>4. \A e \in i..n : e # i => g[e - 1] = w[e - 1] BY <1>1
  <2>5. g = [e \in i..n |-> IF e = i THEN 0 ELSE 10 * g[e - 1] + (s[e - 1] - 48)] BY <2>3, <2>4
  <2> QED BY <2>5
<1>7. Reads(Number) BY <1>6
<1> HIDE DEF Number
<1>8. ASSUME NEW e \in i..n PROVE Number[e] = IF e = i THEN 0 ELSE 10 * Number[e - 1] + (s[e - 1] - 48)
  BY <1>7
<1> DEFINE T == {e \in i..n : Number[e] \in Int}
<1>9. n \in T
  <2>1. i \in T BY <1>1, <1>8
  <2>2. ASSUME NEW e \in (i + 1)..n, e - 1 \in T PROVE e \in T
    <3>1. e \in i..n /\ e # i /\ e - 1 \in i..(n - 1) BY <1>1
    <3>2. Number[e - 1] \in Int /\ s[e - 1] \in Int BY <2>2, <3>1, <1>2
    <3>3. Number[e] = 10 * Number[e - 1] + (s[e - 1] - 48) BY <3>1, <1>8
    <3>4. Number[e] \in Int BY <3>2, <3>3
    <3> QED BY <3>1, <3>4
  <2>3. n \in i..n BY <1>1
  <2> HIDE DEF T
  <2> QED BY <2>1, <2>2, <2>3, <1>5, UpwardInduction
<1>10. Number[n] \in Int BY <1>9
<1>11. FromChars(s, i, UMax) = IF Number[n] > UMax THEN 0 ELSE Number[n] BY DEF FromChars, n, Number
<1> QED BY <1>10, <1>11

(* A token: its category, its rank and the next one, which is not behind    *)
(* the place where the string ends.                                         *)
LEMMA TokenTyped ==
  ASSUME NEW s \in Seq(CharValues), NEW i \in 1..Len(s), NEW UMax
  PROVE  /\ Cat(s, i) \in Int
         /\ Rank(s, i, UMax) \in Int
         /\ NextToken(s, i) \in (i + 1)..(Len(s) + 1)
<1>1. s[i] \in CharValues BY ElementOfSeq
<1>2. Cat(s, i) \in 0..4 /\ ToUpper(s[i]) \in Int BY <1>1, Categories DEF Cat
<1>3. CASE Cat(s, i) = NUMB
  <2>1. CharCat(s[i]) = NUMB BY <1>1, <1>3, Categories DEF Cat
  <2>2. FromChars(s, i, UMax) \in Int BY <2>1, FromCharsTyped
  <2>3. DigitsEnd(s, i) \in (i + 1)..(Len(s) + 1) BY <2>1, DigitsEndAfter
  <2> QED BY <1>2, <1>3, <2>2, <2>3 DEF Rank, NextToken
<1>4. CASE Cat(s, i) # NUMB
  <2>1. Len(s) \in Nat BY LenProperties
  <2> QED BY <1>2, <1>4, <2>1 DEF Rank, NextToken
<1> QED BY <1>3, <1>4

------------------------------------------------------------------------------
(* One turn of the loop of lex_str_less().                                  *)
Turn(L, a, b, UMax, i, j) ==
        IF i > Len(a) \/ j > Len(b) THEN Len(a) - i < Len(b) - j
        ELSE LET c1 == ToUpper(a[i])  c2 == ToUpper(b[j])
                 t1 == CharCat(c1)    t2 == CharCat(c2)
                 u1 == FromChars(a, i, UMax)  u2 == FromChars(b, j, UMax)
             IN  IF t1 # t2 THEN t1 < t2
                 ELSE IF t1 = NUMB
                      THEN IF u1 # u2 THEN u1 < u2
                           ELSE L[<<DigitsEnd(a, i), DigitsEnd(b, j)>>]
                 ELSE IF c1 # c2 THEN c1 < c2
                 ELSE L[<<i + 1, j + 1>>]

(* The recursion of LessFrom, one turn at a time.                           *)
LEMMA LessFromChoice ==
  ASSUME NEW a, NEW b, NEW UMax
  PROVE  LessFrom(a, b, UMax) =
           CHOOSE L : L = [p \in Places(a, b) |-> Turn(L, a, b, UMax, p[1], p[2])]
BY DEF LessFrom, Turn

(* The loop ends: each turn goes on to later places.                        *)
Ends(a, b, UMax, p) ==
  \/ p[1] > Len(a) \/ p[2] > Len(b)
  \/ Cat(a, p[1]) # Cat(b, p[2])
  \/ Rank(a, p[1], UMax) # Rank(b, p[2], UMax)

(* What it answers then.                                                    *)
Answer(a, b, UMax, p) ==
  IF p[1] > Len(a) \/ p[2] > Len(b) THEN p[1] > Len(a) /\ p[2] <= Len(b)
  ELSE IF Cat(a, p[1]) # Cat(b, p[2]) THEN Cat(a, p[1]) < Cat(b, p[2])
  ELSE Rank(a, p[1], UMax) < Rank(b, p[2], UMax)

(* A turn gives the answer itself or the one from two later places.         *)
LEMMA TurnIs ==
  ASSUME NEW a \in Seq(CharValues), NEW b \in Seq(CharValues), NEW UMax,
         NEW p \in Places(a, b), NEW L
  PROVE  Turn(L, a, b, UMax, p[1], p[2]) =
           IF Ends(a, b, UMax, p) THEN Answer(a, b, UMax, p)
           ELSE L[<<NextToken(a, p[1]), NextToken(b, p[2])>>]
<1>1. Len(a) \in Nat /\ Len(b) \in Nat BY LenProperties
<1>2. p[1] \in 1..(Len(a) + 1) /\ p[2] \in 1..(Len(b) + 1) BY DEF Places
<1>3. CASE p[1] > Len(a) \/ p[2] > Len(b)
  <2>1. Turn(L, a, b, UMax, p[1], p[2]) = (Len(a) - p[1] < Len(b) - p[2]) BY <1>3 DEF Turn
  <2>2. (Len(a) - p[1] < Len(b) - p[2]) = (p[1] > Len(a) /\ p[2] <= Len(b))
    BY <1>1, <1>2, <1>3
  <2>3. Ends(a, b, UMax, p) BY <1>3 DEF Ends
  <2>4. Answer(a, b, UMax, p) = (p[1] > Len(a) /\ p[2] <= Len(b)) BY <1>3 DEF Answer
  <2> QED BY <2>1, <2>2, <2>3, <2>4
<1>4. CASE ~(p[1] > Len(a) \/ p[2] > Len(b))
  <2>1. CASE Cat(a, p[1]) # Cat(b, p[2])
    <3>1. Turn(L, a, b, UMax, p[1], p[2]) = (Cat(a, p[1]) < Cat(b, p[2]))
      BY <1>4, <2>1 DEF Turn, Cat
    <3>2. Ends(a, b, UMax, p) BY <2>1 DEF Ends
    <3>3. Answer(a, b, UMax, p) = (Cat(a, p[1]) < Cat(b, p[2])) BY <1>4, <2>1 DEF Answer
    <3> QED BY <3>1, <3>2, <3>3
  <2>2. CASE Cat(a, p[1]) = Cat(b, p[2])
    <3> DEFINE r1 == Rank(a, p[1], UMax)
               r2 == Rank(b, p[2], UMax)
    <3>1. Turn(L, a, b, UMax, p[1], p[2]) =
            IF r1 # r2 THEN r1 < r2 ELSE L[<<NextToken(a, p[1]), NextToken(b, p[2])>>]
      <4>1. CASE Cat(a, p[1]) = NUMB BY <1>4, <2>2, <4>1 DEF Turn, Cat, Rank, NextToken
      <4>2. CASE Cat(a, p[1]) # NUMB BY <1>4, <2>2, <4>2 DEF Turn, Cat, Rank, NextToken
      <4> QED BY <4>1, <4>2
    <3>2. Ends(a, b, UMax, p) = (r1 # r2) BY <1>4, <2>2 DEF Ends
    <3>3. Answer(a, b, UMax, p) = (r1 < r2) BY <1>4, <2>2 DEF Answer
    <3> HIDE DEF r1, r2
    <3> QED BY <3>1, <3>2, <3>3
  <2> QED BY <2>1, <2>2
<1> QED BY <1>3, <1>4

(* LessFrom is well defined: a turn needs the value at later places only.   *)
LEMMA LessFromTurns ==
  ASSUME NEW a \in Seq(CharValues), NEW b \in Seq(CharValues), NEW UMax, NEW p \in Places(a, b)
  PROVE  LessFrom(a, b, UMax)[p] = Turn(LessFrom(a, b, UMax), a, b, UMax, p[1], p[2])
<1> DEFINE D == Places(a, b)
           Good(g, n) == \A q \in D : q[1] >= n => g[q] = Turn(g, a, b, UMax, q[1], q[2])
           T == {n \in 1..(Len(a) + 2) : \E g : g = [q \in D |-> g[q]] /\ Good(g, n)}
           After(q) == <<NextToken(a, q[1]), NextToken(b, q[2])>>
<1>1. Len(a) \in Nat /\ Len(b) \in Nat BY LenProperties
<1>2. ASSUME NEW q \in D, ~Ends(a, b, UMax, q)
      PROVE  After(q) \in D /\ NextToken(a, q[1]) > q[1]
  <2>1. q[1] \in 1..Len(a) /\ q[2] \in 1..Len(b) BY <1>1, <1>2 DEF Ends, Places
  <2>2. NextToken(a, q[1]) \in (q[1] + 1)..(Len(a) + 1) BY <2>1, TokenTyped
  <2>3. NextToken(b, q[2]) \in (q[2] + 1)..(Len(b) + 1) BY <2>1, TokenTyped
  <2> QED BY <1>1, <2>1, <2>2, <2>3 DEF Places
<1>3. \A q \in D : q[1] \in 1..(Len(a) + 1) BY DEF Places
<1>4. ASSUME NEW n \in 1..(Len(a) + 2), \A m \in (n + 1)..(Len(a) + 2) : m \in T PROVE n \in T
  <2>1. CASE n = Len(a) + 2
    <3> DEFINE g == [q \in D |-> TRUE]
    <3>1. g = [q \in D |-> g[q]] OBVIOUS
    <3>2. Good(g, n) BY <1>1, <1>3, <2>1
    <3> QED BY <3>1, <3>2
  <2>2. CASE n # Len(a) + 2
    <3>1. n + 1 \in T BY <1>1, <1>4, <2>2
    <3>2. PICK g : g = [q \in D |-> g[q]] /\ Good(g, n + 1) BY <3>1
    <3> DEFINE h == [q \in D |-> IF q[1] = n THEN Turn(g, a, b, UMax, q[1], q[2]) ELSE g[q]]
    <3>3. h = [q \in D |-> h[q]] OBVIOUS
    <3>4. ASSUME NEW q \in D, q[1] >= n PROVE h[q] = Turn(h, a, b, UMax, q[1], q[2])
      <4>1. h[q] = Turn(g, a, b, UMax, q[1], q[2])
        <5>1. CASE q[1] = n BY <5>1
        <5>2. CASE q[1] # n
          <6>1. q[1] >= n + 1 BY <1>3, <3>4, <5>2
          <6>2. g[q] = Turn(g, a, b, UMax, q[1], q[2]) BY <3>2, <6>1
          <6>3. h[q] = g[q] BY <5>2
          <6> QED BY <6>2, <6>3
        <5> QED BY <5>1, <5>2
      <4>2. CASE Ends(a, b, UMax, q) BY <4>1, <4>2, TurnIs
      <4>3. CASE ~Ends(a, b, UMax, q)
        <5>1. After(q) \in D /\ After(q)[1] # n BY <1>1, <1>2, <1>3, <3>4, <4>3
        <5>2. h[After(q)] = g[After(q)] BY <5>1
        <5>3. Turn(g, a, b, UMax, q[1], q[2]) = g[After(q)] BY <4>3, TurnIs
        <5>4. Turn(h, a, b, UMax, q[1], q[2]) = h[After(q)] BY <4>3, TurnIs
        <5> QED BY <4>1, <5>2, <5>3, <5>4
      <4> QED BY <4>2, <4>3
    <3>5. Good(h, n) BY <3>4
    <3> QED BY <3>3, <3>5
  <2> QED BY <2>1, <2>2
<1>5. 1 \in T
  <2>1. Len(a) + 2 \in Nat /\ 1 \in 1..(Len(a) + 2) BY <1>1
  <2> HIDE DEF T
  <2> QED BY <1>4, <2>1, DownwardInduction
<1>6. PICK g : g = [q \in D |-> g[q]] /\ Good(g, 1) BY <1>5
<1>7. \A q \in D : g[q] = Turn(g, a, b, UMax, q[1], q[2]) BY <1>3, <1>6
<1>8. g = [q \in D |-> Turn(g, a, b, UMax, q[1], q[2])] BY <1>6, <1>7
<1> DEFINE Is(L) == L = [q \in D |-> Turn(L, a, b, UMax, q[1], q[2])]
           M == LessFrom(a, b, UMax)
<1>9. Is(M)
  <2>1. Is(g) BY <1>8
  <2>2. M = CHOOSE L : Is(L) BY LessFromChoice
  <2> HIDE DEF Is
  <2> QED BY <2>1, <2>2
<1> HIDE DEF M
<1>10. M[p] = Turn(M, a, b, UMax, p[1], p[2]) BY <1>9
<1> QED BY <1>10 DEF M

(* What the loop answers from a place in each string on.                    *)
Verdict(L, a, b, UMax, i, j) ==
  IF i > Len(a) \/ j > Len(b) THEN i > Len(a) /\ j <= Len(b)
  ELSE IF Cat(a, i) # Cat(b, j) THEN Cat(a, i) < Cat(b, j)
  ELSE IF Rank(a, i, UMax) # Rank(b, j, UMax) THEN Rank(a, i, UMax) < Rank(b, j, UMax)
  ELSE L[<<NextToken(a, i), NextToken(b, j)>>]

(* What the recursive function gives at any two places is their verdict.    *)
LEMMA LessFromIs ==
  ASSUME NEW a \in Seq(CharValues), NEW b \in Seq(CharValues), NEW UMax,
         NEW i \in 1..(Len(a) + 1), NEW j \in 1..(Len(b) + 1)
  PROVE  LessFrom(a, b, UMax)[<<i, j>>] = Verdict(LessFrom(a, b, UMax), a, b, UMax, i, j)
<1> DEFINE p == <<i, j>>
           L == LessFrom(a, b, UMax)
<1>1. p \in Places(a, b) /\ p[1] = i /\ p[2] = j BY DEF Places
<1> HIDE DEF p, L
<1>2. L[p] = Turn(L, a, b, UMax, p[1], p[2]) BY <1>1, LessFromTurns DEF L
<1>3. L[p] = IF Ends(a, b, UMax, p) THEN Answer(a, b, UMax, p)
             ELSE L[<<NextToken(a, p[1]), NextToken(b, p[2])>>]
  BY <1>1, <1>2, TurnIs
<1>4. L[p] = Verdict(L, a, b, UMax, i, j)
  BY <1>1, <1>3 DEF Ends, Answer, Verdict
<1> QED BY <1>4 DEF p, L

(* No string is less than itself, from any place on.                        *)
LEMMA LessIrreflexive ==
  ASSUME NEW a \in Seq(CharValues), NEW UMax, NEW i \in 1..(Len(a) + 1)
  PROVE  ~LessFrom(a, a, UMax)[<<i, i>>]
<1> DEFINE n == Len(a) + 1
           L == LessFrom(a, a, UMax)
           T == {x \in 1..n : ~L[<<x, x>>]}
<1>1. Len(a) \in Nat /\ n \in Nat BY LenProperties
<1>2. ASSUME NEW x \in 1..n, \A m \in (x + 1)..n : m \in T PROVE x \in T
  <2>1. L[<<x, x>>] = Verdict(L, a, a, UMax, x, x) BY LessFromIs
  <2> HIDE DEF L
  <2>2. CASE x > Len(a)
    <3>1. Verdict(L, a, a, UMax, x, x) = FALSE BY <1>1, <2>2 DEF Verdict
    <3> QED BY <2>1, <3>1
  <2>3. CASE ~(x > Len(a))
    <3>1. NextToken(a, x) \in (x + 1)..n BY <1>1, <2>3, TokenTyped
    <3>2. L[<<x, x>>] = L[<<NextToken(a, x), NextToken(a, x)>>] BY <2>1, <2>3 DEF Verdict
    <3>3. ~L[<<NextToken(a, x), NextToken(a, x)>>] BY <1>2, <3>1
    <3> QED BY <3>2, <3>3
  <2> QED BY <2>2, <2>3
<1> HIDE DEF T
<1>3. i \in T BY <1>1, <1>2, DownwardInduction
<1> QED BY <1>3 DEF T

(* The tokens at two places, as numbers and truth values.                   *)
LEMMA TokensCompared ==
  ASSUME NEW a \in Seq(CharValues), NEW b \in Seq(CharValues), NEW UMax,
         NEW i \in 1..Len(a), NEW j \in 1..Len(b)
  PROVE  /\ Cat(a, i) \in Int /\ Cat(b, j) \in Int
         /\ Rank(a, i, UMax) \in Int /\ Rank(b, j, UMax) \in Int
         /\ NextToken(a, i) \in (i + 1)..(Len(a) + 1) /\ NextToken(b, j) \in 1..(Len(b) + 1)
<1>1. Cat(a, i) \in Int /\ Rank(a, i, UMax) \in Int
      /\ NextToken(a, i) \in (i + 1)..(Len(a) + 1)
  BY TokenTyped
<1>2. Cat(b, j) \in Int /\ Rank(b, j, UMax) \in Int
      /\ NextToken(b, j) \in (j + 1)..(Len(b) + 1)
  BY TokenTyped
<1> QED BY <1>1, <1>2

(* Two strings are not less than each other, from any places on.            *)
LEMMA LessAsymmetric ==
  ASSUME NEW a \in Seq(CharValues), NEW b \in Seq(CharValues), NEW UMax,
         NEW i \in 1..(Len(a) + 1), NEW j \in 1..(Len(b) + 1)
  PROVE  ~(LessFrom(a, b, UMax)[<<i, j>>] /\ LessFrom(b, a, UMax)[<<j, i>>])
<1> DEFINE n == Len(a) + 1
           k == Len(b) + 1
           L == LessFrom(a, b, UMax)
           M == LessFrom(b, a, UMax)
           T == {x \in 1..n : \A y \in 1..k : ~(L[<<x, y>>] /\ M[<<y, x>>])}
<1>1. Len(a) \in Nat /\ n \in Nat /\ Len(b) \in Nat BY LenProperties
<1>2. ASSUME NEW x \in 1..n, \A m \in (x + 1)..n : m \in T, NEW y \in 1..k
      PROVE  ~(L[<<x, y>>] /\ M[<<y, x>>])
  <2>1. L[<<x, y>>] = Verdict(L, a, b, UMax, x, y) BY LessFromIs
  <2>2. M[<<y, x>>] = Verdict(M, b, a, UMax, y, x) BY LessFromIs
  <2> HIDE DEF L, M
  <2>3. CASE x > Len(a)
    <3>1. Verdict(M, b, a, UMax, y, x) = FALSE BY <1>1, <2>3 DEF Verdict
    <3> QED BY <2>2, <3>1
  <2>5. CASE y > Len(b)
    <3>1. Verdict(L, a, b, UMax, x, y) = FALSE BY <1>1, <2>5 DEF Verdict
    <3> QED BY <2>1, <3>1
  <2>4. CASE ~(x > Len(a) \/ y > Len(b))
    <3> DEFINE c1 == Cat(a, x)  c2 == Cat(b, y)
               r1 == Rank(a, x, UMax)  r2 == Rank(b, y, UMax)
               x1 == NextToken(a, x)  y1 == NextToken(b, y)
    <3>1. x \in 1..Len(a) /\ y \in 1..Len(b) BY <1>1, <2>4
    <3>2. /\ c1 \in Int /\ c2 \in Int /\ r1 \in Int /\ r2 \in Int
          /\ x1 \in (x + 1)..n /\ y1 \in 1..k
      BY <3>1, TokensCompared
    <3>5. ~(L[<<x1, y1>>] /\ M[<<y1, x1>>]) BY <1>2, <3>2
    <3> HIDE DEF c1, c2, r1, r2, x1, y1, T
    <3>6. CASE c1 < c2 \/ (c1 = c2 /\ r1 < r2)
      <4>1. Verdict(M, b, a, UMax, y, x) = FALSE
        BY <2>4, <3>2, <3>6 DEF Verdict, c1, c2, r1, r2
      <4> QED BY <2>2, <4>1
    <3>7. CASE c2 < c1 \/ (c1 = c2 /\ r2 < r1)
      <4>1. Verdict(L, a, b, UMax, x, y) = FALSE
        BY <2>4, <3>2, <3>7 DEF Verdict, c1, c2, r1, r2
      <4> QED BY <2>1, <4>1
    <3>8. CASE c1 = c2 /\ r1 = r2
      <4>1. L[<<x, y>>] = L[<<x1, y1>>]
        BY <2>1, <2>4, <3>8 DEF Verdict, c1, c2, r1, r2, x1, y1
      <4>2. M[<<y, x>>] = M[<<y1, x1>>]
        BY <2>2, <2>4, <3>8 DEF Verdict, c1, c2, r1, r2, x1, y1
      <4> QED BY <3>5, <4>1, <4>2
    <3> QED BY <3>2, <3>6, <3>7, <3>8
  <2> QED BY <2>3, <2>4, <2>5
<1>3. ASSUME NEW x \in 1..n, \A m \in (x + 1)..n : m \in T PROVE x \in T BY <1>2, <1>3
<1> HIDE DEF T
<1>4. i \in T BY <1>1, <1>3, DownwardInduction
<1> QED BY <1>4 DEF T

(* What a positive verdict on two tokens says of them.                      *)
LEMMA VerdictOnTokens ==
  ASSUME NEW a \in Seq(CharValues), NEW b \in Seq(CharValues), NEW UMax,
         NEW i \in 1..Len(a), NEW j \in 1..Len(b), NEW L,
         Verdict(L, a, b, UMax, i, j)
  PROVE  /\ Cat(a, i) <= Cat(b, j)
         /\ Cat(a, i) = Cat(b, j) => Rank(a, i, UMax) <= Rank(b, j, UMax)
         /\ Cat(a, i) = Cat(b, j) /\ Rank(a, i, UMax) = Rank(b, j, UMax) =>
              L[<<NextToken(a, i), NextToken(b, j)>>]
<1>1. ~(i > Len(a) \/ j > Len(b)) BY LenProperties
<1>2. /\ Cat(a, i) \in Int /\ Cat(b, j) \in Int
      /\ Rank(a, i, UMax) \in Int /\ Rank(b, j, UMax) \in Int
  BY TokensCompared
<1>3. Cat(a, i) <= Cat(b, j) BY <1>1, <1>2 DEF Verdict
<1>4. Cat(a, i) = Cat(b, j) => Rank(a, i, UMax) <= Rank(b, j, UMax) BY <1>1, <1>2 DEF Verdict
<1>5. Cat(a, i) = Cat(b, j) /\ Rank(a, i, UMax) = Rank(b, j, UMax) =>
        L[<<NextToken(a, i), NextToken(b, j)>>]
  BY <1>1 DEF Verdict
<1> QED BY <1>3, <1>4, <1>5

(* Less is transitive, and so is "neither is less", from any places on.     *)
LEMMA LessTransitive ==
  ASSUME NEW a \in Seq(CharValues), NEW b \in Seq(CharValues), NEW d \in Seq(CharValues), NEW UMax,
         NEW i \in 1..(Len(a) + 1), NEW j \in 1..(Len(b) + 1), NEW k \in 1..(Len(d) + 1),
         LessFrom(a, b, UMax)[<<i, j>>], LessFrom(b, d, UMax)[<<j, k>>]
  PROVE  LessFrom(a, d, UMax)[<<i, k>>]
<1> DEFINE na == Len(a) + 1
           nb == Len(b) + 1
           nd == Len(d) + 1
           L == LessFrom(a, b, UMax)
           M == LessFrom(b, d, UMax)
           N == LessFrom(a, d, UMax)
           T == {x \in 1..na : \A y \in 1..nb, z \in 1..nd :
                   L[<<x, y>>] /\ M[<<y, z>>] => N[<<x, z>>]}
<1>1. Len(a) \in Nat /\ na \in Nat /\ Len(b) \in Nat /\ Len(d) \in Nat BY LenProperties
<1>2. ASSUME NEW x \in 1..na, \A m \in (x + 1)..na : m \in T,
             NEW y \in 1..nb, NEW z \in 1..nd, L[<<x, y>>], M[<<y, z>>]
      PROVE  N[<<x, z>>]
  <2>1. L[<<x, y>>] = Verdict(L, a, b, UMax, x, y) BY LessFromIs
  <2>2. M[<<y, z>>] = Verdict(M, b, d, UMax, y, z) BY LessFromIs
  <2>3. N[<<x, z>>] = Verdict(N, a, d, UMax, x, z) BY LessFromIs
  <2> HIDE DEF L, M, N
  <2>4. Verdict(L, a, b, UMax, x, y) BY <1>2, <2>1
  <2>5. Verdict(M, b, d, UMax, y, z) BY <1>2, <2>2
  <2>6. SUFFICES Verdict(N, a, d, UMax, x, z) BY <2>3
  <2>7. y <= Len(b) /\ z <= Len(d)
    <3>1. y <= Len(b) BY <1>1, <2>4 DEF Verdict
    <3>2. z <= Len(d) BY <1>1, <2>5 DEF Verdict
    <3> QED BY <3>1, <3>2
  <2>8. CASE x > Len(a) BY <1>1, <2>7, <2>8 DEF Verdict
  <2>9. CASE x <= Len(a)
    <3> DEFINE c1 == Cat(a, x)  c2 == Cat(b, y)  c3 == Cat(d, z)
               r1 == Rank(a, x, UMax)  r2 == Rank(b, y, UMax)  r3 == Rank(d, z, UMax)
               x1 == NextToken(a, x)  y1 == NextToken(b, y)  z1 == NextToken(d, z)
    <3>1. x \in 1..Len(a) /\ y \in 1..Len(b) /\ z \in 1..Len(d) BY <1>1, <2>7, <2>9
    <3>2. /\ c1 \in Int /\ c2 \in Int /\ r1 \in Int /\ r2 \in Int
          /\ x1 \in (x + 1)..na /\ y1 \in 1..nb
      BY <3>1, TokensCompared
    <3>3. c3 \in Int /\ r3 \in Int /\ z1 \in 1..nd
      BY <3>1, TokensCompared
    <3>4. ~(x > Len(a)) /\ ~(y > Len(b)) /\ ~(z > Len(d)) BY <1>1, <3>1
    <3>5. L[<<x1, y1>>] /\ M[<<y1, z1>>] => N[<<x1, z1>>] BY <1>2, <3>2, <3>3
    <3>6. c1 <= c2 /\ (c1 = c2 => r1 <= r2) BY <2>4, <3>1, VerdictOnTokens
    <3>7. c2 <= c3 /\ (c2 = c3 => r2 <= r3) BY <2>5, <3>1, VerdictOnTokens
    <3>8. c1 = c2 /\ r1 = r2 => L[<<x1, y1>>] BY <2>4, <3>1, VerdictOnTokens
    <3>9. c2 = c3 /\ r2 = r3 => M[<<y1, z1>>] BY <2>5, <3>1, VerdictOnTokens
    <3> HIDE DEF c1, c2, c3, r1, r2, r3, x1, y1, z1, T
    <3>10. c1 <= c3 /\ (c1 = c3 => c1 = c2 /\ c2 = c3 /\ r1 <= r3) BY <3>2, <3>3, <3>6, <3>7
    <3>11. c1 = c3 /\ r1 = r3 => r1 = r2 /\ r2 = r3 BY <3>2, <3>3, <3>6, <3>7, <3>10
    <3>12. CASE c1 < c3 BY <3>2, <3>3, <3>4, <3>12 DEF Verdict, c1, c3
    <3>13. CASE c1 = c3 /\ r1 < r3 BY <3>2, <3>3, <3>4, <3>13 DEF Verdict, c1, c3, r1, r3
    <3>14. CASE c1 = c3 /\ r1 = r3
      <4>1. Verdict(N, a, d, UMax, x, z) = N[<<x1, z1>>]
        BY <3>4, <3>14 DEF Verdict, c1, c3, r1, r3, x1, z1
      <4>2. L[<<x1, y1>>] /\ M[<<y1, z1>>] BY <3>8, <3>9, <3>10, <3>11, <3>14
      <4> QED BY <3>5, <4>1, <4>2
    <3> QED BY <3>2, <3>3, <3>10, <3>12, <3>13, <3>14
  <2> QED BY <1>1, <2>8, <2>9
<1>3. ASSUME NEW x \in 1..na, \A m \in (x + 1)..na : m \in T PROVE x \in T BY <1>2, <1>3
<1> HIDE DEF T
<1>4. i \in T BY <1>1, <1>3, DownwardInduction
<1> QED BY <1>4 DEF T

(* Two strings of which neither is less have the same tokens.               *)
LEMMA SameTokens ==
  ASSUME NEW a \in Seq(CharValues), NEW b \in Seq(CharValues), NEW UMax,
         NEW i \in 1..(Len(a) + 1), NEW j \in 1..(Len(b) + 1), NEW L, NEW M,
         ~Verdict(L, a, b, UMax, i, j), ~Verdict(M, b, a, UMax, j, i)
  PROVE  /\ i > Len(a) <=> j > Len(b)
         /\ i <= Len(a) => /\ Cat(a, i) = Cat(b, j)
                           /\ Rank(a, i, UMax) = Rank(b, j, UMax)
                           /\ ~L[<<NextToken(a, i), NextToken(b, j)>>]
                           /\ ~M[<<NextToken(b, j), NextToken(a, i)>>]
<1>1. Len(a) \in Nat /\ Len(b) \in Nat BY LenProperties
<1>2. i > Len(a) => j > Len(b) BY <1>1 DEF Verdict
<1>3. j > Len(b) => i > Len(a) BY <1>1 DEF Verdict
<1>4. ASSUME i <= Len(a)
      PROVE  /\ Cat(a, i) = Cat(b, j) /\ Rank(a, i, UMax) = Rank(b, j, UMax)
             /\ ~L[<<NextToken(a, i), NextToken(b, j)>>]
             /\ ~M[<<NextToken(b, j), NextToken(a, i)>>]
  <2>1. i \in 1..Len(a) /\ j \in 1..Len(b) /\ ~(i > Len(a)) /\ ~(j > Len(b))
    BY <1>1, <1>3, <1>4
  <2>2. /\ Cat(a, i) \in Int /\ Cat(b, j) \in Int
        /\ Rank(a, i, UMax) \in Int /\ Rank(b, j, UMax) \in Int
    BY <2>1, TokensCompared
  <2>3. Cat(a, i) = Cat(b, j)
    <3>1. ~(Cat(a, i) < Cat(b, j)) BY <2>1, <2>2 DEF Verdict
    <3>2. ~(Cat(b, j) < Cat(a, i)) BY <2>1, <2>2 DEF Verdict
    <3> QED BY <2>2, <3>1, <3>2
  <2>4. Rank(a, i, UMax) = Rank(b, j, UMax)
    <3>1. ~(Rank(a, i, UMax) < Rank(b, j, UMax)) BY <2>1, <2>2, <2>3 DEF Verdict
    <3>2. ~(Rank(b, j, UMax) < Rank(a, i, UMax)) BY <2>1, <2>2, <2>3 DEF Verdict
    <3> QED BY <2>2, <3>1, <3>2
  <2>5. ~L[<<NextToken(a, i), NextToken(b, j)>>] BY <2>1, <2>3, <2>4 DEF Verdict
  <2>6. ~M[<<NextToken(b, j), NextToken(a, i)>>] BY <2>1, <2>3, <2>4 DEF Verdict
  <2> QED BY <2>3, <2>4, <2>5, <2>6
<1> QED BY <1>2, <1>3, <1>4

(* If neither of two strings is less, and neither of the second and a       *)
(* third, the same holds of the first and the third, from any places on.    *)
LEMMA SameTransitive ==
  ASSUME NEW a \in Seq(CharValues), NEW b \in Seq(CharValues), NEW d \in Seq(CharValues), NEW UMax,
         NEW i \in 1..(Len(a) + 1), NEW j \in 1..(Len(b) + 1), NEW k \in 1..(Len(d) + 1),
         ~LessFrom(a, b, UMax)[<<i, j>>], ~LessFrom(b, a, UMax)[<<j, i>>],
         ~LessFrom(b, d, UMax)[<<j, k>>], ~LessFrom(d, b, UMax)[<<k, j>>]
  PROVE  ~LessFrom(a, d, UMax)[<<i, k>>]
<1> DEFINE na == Len(a) + 1
           nb == Len(b) + 1
           nd == Len(d) + 1
           L == LessFrom(a, b, UMax)
           L2 == LessFrom(b, a, UMax)
           M == LessFrom(b, d, UMax)
           M2 == LessFrom(d, b, UMax)
           N == LessFrom(a, d, UMax)
           T == {x \in 1..na : \A y \in 1..nb, z \in 1..nd :
                   ~L[<<x, y>>] /\ ~L2[<<y, x>>] /\ ~M[<<y, z>>] /\ ~M2[<<z, y>>] => ~N[<<x, z>>]}
<1>1. Len(a) \in Nat /\ na \in Nat /\ Len(b) \in Nat /\ Len(d) \in Nat BY LenProperties
<1>2. ASSUME NEW x \in 1..na, \A m \in (x + 1)..na : m \in T,
             NEW y \in 1..nb, NEW z \in 1..nd,
             ~L[<<x, y>>], ~L2[<<y, x>>], ~M[<<y, z>>], ~M2[<<z, y>>]
      PROVE  ~N[<<x, z>>]
  <2>1. ~Verdict(L, a, b, UMax, x, y) BY <1>2, LessFromIs
  <2>2. ~Verdict(L2, b, a, UMax, y, x) BY <1>2, LessFromIs
  <2>3. ~Verdict(M, b, d, UMax, y, z) BY <1>2, LessFromIs
  <2>4. ~Verdict(M2, d, b, UMax, z, y) BY <1>2, LessFromIs
  <2>5. N[<<x, z>>] = Verdict(N, a, d, UMax, x, z) BY LessFromIs
  <2> HIDE DEF L, L2, M, M2, N
  <2>6. (x > Len(a) <=> y > Len(b)) /\ (y > Len(b) <=> z > Len(d))
    BY <2>1, <2>2, <2>3, <2>4, SameTokens
  <2>7. CASE x > Len(a)
    <3>1. ~Verdict(N, a, d, UMax, x, z) BY <1>1, <2>6, <2>7 DEF Verdict
    <3> QED BY <2>5, <3>1
  <2>8. CASE ~(x > Len(a))
    <3> DEFINE x1 == NextToken(a, x)  y1 == NextToken(b, y)  z1 == NextToken(d, z)
    <3>1. x <= Len(a) /\ y <= Len(b) /\ ~(z > Len(d)) BY <1>1, <2>6, <2>8
    <3>2. /\ Cat(a, x) = Cat(b, y)
          /\ Rank(a, x, UMax) = Rank(b, y, UMax)
          /\ ~L[<<x1, y1>>]
          /\ ~L2[<<y1, x1>>]
      <4> HIDE DEF T
      <4> QED BY ONLY a \in Seq(CharValues), b \in Seq(CharValues), x \in 1..na, y \in 1..nb,
                      <2>1, <2>2, <3>1, SameTokens
    <3>3. /\ Cat(b, y) = Cat(d, z)
          /\ Rank(b, y, UMax) = Rank(d, z, UMax)
          /\ ~M[<<y1, z1>>]
          /\ ~M2[<<z1, y1>>]
      <4> HIDE DEF T
      <4> QED BY ONLY b \in Seq(CharValues), d \in Seq(CharValues), y \in 1..nb, z \in 1..nd,
                      <2>3, <2>4, <3>1, SameTokens
    <3>4. x \in 1..Len(a) /\ y \in 1..Len(b) /\ z \in 1..Len(d) BY <1>1, <3>1
    <3>5. x1 \in (x + 1)..na /\ y1 \in 1..nb BY <3>4, TokensCompared
    <3>6. z1 \in 1..nd BY <3>4, TokensCompared
    <3> HIDE DEF x1, y1, z1
    <3>7. ~N[<<x1, z1>>] BY <1>2, <3>2, <3>3, <3>5, <3>6
    <3>8. Verdict(N, a, d, UMax, x, z) = N[<<x1, z1>>]
      BY <2>8, <3>1, <3>2, <3>3 DEF Verdict, x1, z1
    <3> QED BY <2>5, <3>7, <3>8
  <2> QED BY <2>7, <2>8
<1>3. ASSUME NEW x \in 1..na, \A m \in (x + 1)..na : m \in T PROVE x \in T BY <1>2, <1>3
<1> HIDE DEF T
<1>4. i \in T BY <1>1, <1>3, DownwardInduction
<1> QED BY <1>4 DEF T

(* std::sort() may be given lex_str_less(): for strings of any characters,  *)
(* any length and any limit of from_chars(), it is a strict weak order, also *)
(* where numbers are written with leading zeros or do not fit.              *)
THEOREM LessIsStrictWeakOrder ==
  ASSUME NEW strings \in SUBSET Seq(CharValues), NEW a \in strings, NEW b \in strings, NEW UMax
  PROVE  StrictWeakOrder(a, b, strings, UMax)
<1> DEFINE Less(x, y) == LexStrLess(x, y, UMax)
<1>1. \A x \in Seq(CharValues) : 1 \in 1..(Len(x) + 1) BY LenProperties
<1>2. ~Less(a, a) BY <1>1, LessIrreflexive DEF LexStrLess
<1>3. Less(a, b) => ~Less(b, a) BY <1>1, LessAsymmetric DEF LexStrLess
<1>4. ASSUME NEW c \in strings, Less(a, b), Less(b, c) PROVE Less(a, c)
  BY <1>1, <1>4, LessTransitive DEF LexStrLess
<1>5. ASSUME NEW x \in Seq(CharValues), NEW y \in Seq(CharValues), NEW z \in Seq(CharValues),
             ~Less(x, y), ~Less(y, x), ~Less(y, z), ~Less(z, y)
      PROVE  ~Less(x, z)
  BY <1>1, <1>5, SameTransitive DEF LexStrLess
<1> HIDE DEF Less
<1>6. ASSUME NEW c \in strings, ~Less(a, b), ~Less(b, a), ~Less(b, c), ~Less(c, b)
      PROVE  ~Less(a, c) /\ ~Less(c, a)
  BY <1>5, <1>6
<1> QED BY <1>2, <1>3, <1>4, <1>6 DEF StrictWeakOrder, Less
------------------------------------------------------------------------------
(* base64.                                                                   *)
(* The states of base64_encode(): what is written, the letter begun and how *)
(* many bits of it are missing.                                             *)
EncodeStates == [o : Seq(Int), d : Int, step : {0, 2, 4}]

(* The powers of two of the encoder and the decoder.                        *)
LEMMA Powers ==
  ASSUME NEW n
  PROVE  /\ n = 2 => 2^n = 4
         /\ n = 4 => 2^n = 16
         /\ n = 6 => 2^n = 64
         /\ n = 0 => 2^n = 1
<1>1. n = 2 => 2^n = 4
  <2> SUFFICES ASSUME n = 2 PROVE 2^n = 4 OBVIOUS
  <2>1. 2^2 = 4 OBVIOUS
  <2> QED BY <2>1
<1>2. n = 4 => 2^n = 16
  <2> SUFFICES ASSUME n = 4 PROVE 2^n = 16 OBVIOUS
  <2>1. 2^4 = 16 OBVIOUS
  <2> QED BY <2>1
<1>3. n = 6 => 2^n = 64
  <2> SUFFICES ASSUME n = 6 PROVE 2^n = 64 OBVIOUS
  <2>1. 2^6 = 64 OBVIOUS
  <2> QED BY <2>1
<1>4. n = 0 => 2^n = 1
  <2> SUFFICES ASSUME n = 0 PROVE 2^n = 1 OBVIOUS
  <2>1. 2^0 = 1 OBVIOUS
  <2> QED BY <2>1
<1> QED BY <1>1, <1>2, <1>3, <1>4

(* One turn of the encoder for each number of bits that are missing.        *)
LEMMA EncodeByteIs ==
  ASSUME NEW st \in EncodeStates, NEW byte \in Bytes
  PROVE  /\ st.step = 0 => EncodeByte(st, byte) =
              [o |-> Append(st.o, st.d + (byte \div 4)), d |-> (byte % 4) * 16, step |-> 2]
         /\ st.step = 2 => EncodeByte(st, byte) =
              [o |-> Append(st.o, st.d + (byte \div 16)), d |-> (byte % 16) * 4, step |-> 4]
         /\ st.step = 4 => EncodeByte(st, byte) =
              [o |-> Append(Append(st.o, st.d + (byte \div 64)), byte % 64),
               d |-> 0, step |-> 0]
<1>1. byte \in Int BY DEF Bytes
<1>2. CASE st.step = 0
  <2>1. st.step + 2 = 2 /\ 6 - (st.step + 2) = 4 BY <1>2
  <2>2. 2^(st.step + 2) = 4 /\ 2^(6 - (st.step + 2)) = 16 BY <2>1, Powers
  <2> QED BY <1>2, <2>1, <2>2 DEF EncodeByte
<1>3. CASE st.step = 2
  <2>1. st.step + 2 = 4 /\ 6 - (st.step + 2) = 2 BY <1>3
  <2>2. 2^(st.step + 2) = 16 /\ 2^(6 - (st.step + 2)) = 4 BY <2>1, Powers
  <2> QED BY <1>3, <2>1, <2>2 DEF EncodeByte
<1>4. CASE st.step = 4
  <2>1. st.step + 2 = 6 /\ 6 - (st.step + 2) = 0 BY <1>4
  <2>2. 2^(st.step + 2) = 64 /\ 2^(6 - (st.step + 2)) = 1 BY <2>1, Powers
  <2>3. (byte % 64) * 1 = byte % 64 BY <1>1
  <2> QED BY <1>4, <2>1, <2>2, <2>3 DEF EncodeByte
<1> QED BY <1>2, <1>3, <1>4

(* A turn of the encoder leads from a state to a state.                     *)
LEMMA EncodeByteTyped ==
  ASSUME NEW st \in EncodeStates, NEW byte \in Bytes
  PROVE  EncodeByte(st, byte) \in EncodeStates
<1>1. byte \in Int /\ st.o \in Seq(Int) /\ st.d \in Int BY DEF Bytes, EncodeStates
<1>2. /\ st.d + (byte \div 4) \in Int /\ st.d + (byte \div 16) \in Int
      /\ st.d + (byte \div 64) \in Int /\ byte % 64 \in Int
      /\ (byte % 4) * 16 \in Int /\ (byte % 16) * 4 \in Int
  BY <1>1
<1>3. CASE st.step = 0
  <2> DEFINE x == st.d + (byte \div 4)  y == (byte % 4) * 16
  <2>1. EncodeByte(st, byte) = [o |-> Append(st.o, x), d |-> y, step |-> 2]
    BY <1>3, EncodeByteIs
  <2>2. x \in Int /\ y \in Int BY <1>2
  <2> HIDE DEF x, y
  <2>3. Append(st.o, x) \in Seq(Int) BY <1>1, <2>2
  <2> QED BY <2>1, <2>2, <2>3 DEF EncodeStates
<1>4. CASE st.step = 2
  <2> DEFINE x == st.d + (byte \div 16)  y == (byte % 16) * 4
  <2>1. EncodeByte(st, byte) = [o |-> Append(st.o, x), d |-> y, step |-> 4]
    BY <1>4, EncodeByteIs
  <2>2. x \in Int /\ y \in Int BY <1>2
  <2> HIDE DEF x, y
  <2>3. Append(st.o, x) \in Seq(Int) BY <1>1, <2>2
  <2> QED BY <2>1, <2>2, <2>3 DEF EncodeStates
<1>5. CASE st.step = 4
  <2> DEFINE x == st.d + (byte \div 64)  y == byte % 64
  <2>1. EncodeByte(st, byte) = [o |-> Append(Append(st.o, x), y), d |-> 0, step |-> 0]
    BY <1>5, EncodeByteIs
  <2>2. x \in Int /\ y \in Int BY <1>2
  <2> HIDE DEF x, y
  <2>3. Append(st.o, x) \in Seq(Int) BY <1>1, <2>2
  <2>4. Append(Append(st.o, x), y) \in Seq(Int) BY <2>2, <2>3
  <2> QED BY <2>1, <2>4 DEF EncodeStates
<1> QED BY <1>3, <1>4, <1>5 DEF EncodeStates

(* The states that the loop goes through.                                   *)
EncodeRun(s) ==
  CHOOSE st : st = [i \in 0..Len(s) |->
    IF i = 0 THEN [o |-> <<>>, d |-> 0, step |-> 0] ELSE EncodeByte(st[i - 1], s[i])]

(* The states of the encoder, each from the one before, are the loop's.     *)
LEMMA EncodeRunIs ==
  ASSUME NEW s \in Seq(Bytes)
  PROVE  /\ EncodedBytes(s) = EncodeRun(s)[Len(s)]
         /\ EncodeRun(s)[0] = [o |-> <<>>, d |-> 0, step |-> 0]
         /\ \A i \in 1..Len(s) : /\ EncodeRun(s)[i - 1] \in EncodeStates
                                 /\ EncodeRun(s)[i] = EncodeByte(EncodeRun(s)[i - 1], s[i])
<1> DEFINE n == Len(s)
           start == [o |-> <<>>, d |-> 0, step |-> 0]
           step == [p \in EncodeStates \X (1..n) |-> EncodeByte(p[1], s[p[2]])]
           Is(g) == g = [i \in 0..n |-> IF i = 0 THEN start ELSE EncodeByte(g[i - 1], s[i])]
           w == Stepwise(0, n, start, step)
           r == EncodeRun(s)
<1>1. n \in Nat /\ 0 \in Int /\ n \in Int BY LenProperties
<1>2. \A i \in 1..n : s[i] \in Bytes BY ElementOfSeq
<1>3. start \in EncodeStates BY DEF EncodeStates
<1>4. step \in [EncodeStates \X ((0 + 1)..n) -> EncodeStates]
  <2> SUFFICES ASSUME NEW p \in EncodeStates \X (1..n)
               PROVE  EncodeByte(p[1], s[p[2]]) \in EncodeStates
    OBVIOUS
  <2>1. p[1] \in EncodeStates /\ s[p[2]] \in Bytes BY <1>2
  <2> QED BY <2>1, EncodeByteTyped
<1>5. ASSUME NEW i \in 1..n, NEW v \in EncodeStates
      PROVE  step[<<v, i>>] = EncodeByte(v, s[i])
  OBVIOUS
<1> HIDE DEF n, start, step, w
<1>6. FollowsSteps(w, 0, n, start, step) BY <1>1, <1>3, <1>4, StepwiseFollows DEF w
<1>7. \A i \in 0..n : w[i] \in EncodeStates BY <1>1, <1>3, <1>4, <1>6, StepwiseTyped
<1>8. ASSUME NEW i \in 0..n PROVE w[i] = IF i = 0 THEN start ELSE EncodeByte(w[i - 1], s[i])
  <2>1. w[i] = IF i = 0 THEN start ELSE step[<<w[i - 1], i>>] BY <1>6 DEF FollowsSteps
  <2>2. i # 0 => i - 1 \in 0..n /\ i \in 1..n BY <1>1
  <2> QED BY <1>5, <1>7, <2>1, <2>2
<1>9. \E g : Is(g)
  <2> DEFINE g == [i \in 0..n |-> w[i]]
  <2>1. \A i \in 0..n : i # 0 => g[i - 1] = w[i - 1] BY <1>1
  <2>2. Is(g) BY <1>8, <2>1
  <2> QED BY <2>2
<1>10. Is(r)
  <2>1. r = CHOOSE g : Is(g) BY DEF EncodeRun, n, start
  <2> HIDE DEF Is
  <2> QED BY <1>9, <2>1
<1>11. EncodedBytes(s) = r[n] BY DEF EncodedBytes, EncodeRun, n, start
<1> HIDE DEF r
<1>12. \A i \in 0..n : r[i] = IF i = 0 THEN start ELSE EncodeByte(r[i - 1], s[i]) BY <1>10
<1> DEFINE T == {i \in 0..n : r[i] \in EncodeStates}
<1>13. 0 \in T BY <1>1, <1>3, <1>12
<1>14. ASSUME NEW i \in (0 + 1)..n, i - 1 \in T PROVE i \in T
  <2>1. i \in 0..n /\ i # 0 /\ i \in 1..n BY <1>1
  <2>2. r[i] = EncodeByte(r[i - 1], s[i]) BY <1>12, <2>1
  <2>3. r[i] \in EncodeStates BY <1>2, <1>14, <2>1, <2>2, EncodeByteTyped
  <2> QED BY <2>1, <2>3
<1>15. \A i \in 0..n : i \in T
  <2> HIDE DEF T
  <2> QED BY <1>1, <1>13, <1>14, UpwardInduction
<1>16. r[0] = start BY <1>1, <1>12
<1>17. ASSUME NEW i \in 1..n PROVE r[i - 1] \in EncodeStates /\ r[i] = EncodeByte(r[i - 1], s[i])
  <2>1. i - 1 \in 0..n /\ i \in 0..n /\ i # 0 BY <1>1
  <2> QED BY <1>12, <1>15, <2>1
<1> QED BY <1>11, <1>16, <1>17 DEF n, r, start

(* Letter m of the encoding: six bits of the bytes, zeros behind them.      *)
ByteAt(s, i) == IF i \in 1..Len(s) THEN s[i] ELSE 0

Letter(s, m) ==
  LET q == (m - 1) \div 4
      c == (m - 1) % 4
  IN  IF c = 0 THEN ByteAt(s, 3 * q + 1) \div 4
      ELSE IF c = 1 THEN (ByteAt(s, 3 * q + 1) % 4) * 16 + (ByteAt(s, 3 * q + 2) \div 16)
      ELSE IF c = 2 THEN (ByteAt(s, 3 * q + 2) % 16) * 4 + (ByteAt(s, 3 * q + 3) \div 64)
      ELSE ByteAt(s, 3 * q + 3) % 64

(* Bytes behind the end count as zero.                                      *)
LEMMA ByteAtTyped ==
  ASSUME NEW s \in Seq(Bytes), NEW i
  PROVE  ByteAt(s, i) \in Bytes
<1>1. CASE i \in 1..Len(s) BY <1>1, ElementOfSeq DEF ByteAt
<1>2. CASE i \notin 1..Len(s) BY <1>2 DEF ByteAt, Bytes
<1> QED BY <1>1, <1>2

(* The four letters of a group of three bytes.                              *)
LEMMA LetterOfGroup ==
  ASSUME NEW s, NEW q \in Nat
  PROVE  /\ Letter(s, 4 * q + 1) = ByteAt(s, 3 * q + 1) \div 4
         /\ Letter(s, 4 * q + 2) = (ByteAt(s, 3 * q + 1) % 4) * 16 + (ByteAt(s, 3 * q + 2) \div 16)
         /\ Letter(s, 4 * q + 3) = (ByteAt(s, 3 * q + 2) % 16) * 4 + (ByteAt(s, 3 * q + 3) \div 64)
         /\ Letter(s, 4 * q + 4) = ByteAt(s, 3 * q + 3) % 64
<1>1. /\ ((4 * q + 1) - 1) \div 4 = q /\ ((4 * q + 1) - 1) % 4 = 0
      /\ ((4 * q + 2) - 1) \div 4 = q /\ ((4 * q + 2) - 1) % 4 = 1
      /\ ((4 * q + 3) - 1) \div 4 = q /\ ((4 * q + 3) - 1) % 4 = 2
      /\ ((4 * q + 4) - 1) \div 4 = q /\ ((4 * q + 4) - 1) % 4 = 3
  OBVIOUS
<1>2. Letter(s, 4 * q + 1) = ByteAt(s, 3 * q + 1) \div 4 BY <1>1 DEF Letter
<1>3. Letter(s, 4 * q + 2) = (ByteAt(s, 3 * q + 1) % 4) * 16 + (ByteAt(s, 3 * q + 2) \div 16)
  BY <1>1 DEF Letter
<1>4. Letter(s, 4 * q + 3) = (ByteAt(s, 3 * q + 2) % 16) * 4 + (ByteAt(s, 3 * q + 3) \div 64)
  BY <1>1 DEF Letter
<1>5. Letter(s, 4 * q + 4) = ByteAt(s, 3 * q + 3) % 64 BY <1>1 DEF Letter
<1> QED BY <1>2, <1>3, <1>4, <1>5

(* A letter is six bits.                                                    *)
LEMMA LetterBelow64 ==
  ASSUME NEW s \in Seq(Bytes), NEW m
  PROVE  Letter(s, m) \in 0..63
<1> DEFINE q == (m - 1) \div 4
           a == ByteAt(s, 3 * q + 1)  b == ByteAt(s, 3 * q + 2)  d == ByteAt(s, 3 * q + 3)
<1>1. a \in 0..255 /\ b \in 0..255 /\ d \in 0..255 BY ByteAtTyped DEF Bytes
<1>2. \/ Letter(s, m) = a \div 4
      \/ Letter(s, m) = (a % 4) * 16 + (b \div 16)
      \/ Letter(s, m) = (b % 16) * 4 + (d \div 64)
      \/ Letter(s, m) = d % 64
  BY DEF Letter
<1> HIDE DEF a, b, d
<1>3. /\ a \div 4 \in 0..63
      /\ (a % 4) * 16 + (b \div 16) \in 0..63
      /\ (b % 16) * 4 + (d \div 64) \in 0..63
      /\ d % 64 \in 0..63
  BY <1>1
<1> QED BY <1>2, <1>3

(* A sequence whose elements are the letters up to its end, and the next.   *)
IsLetters(o, s) ==
  o \in Seq(Int) /\ \A m \in 1..Len(o) : o[m] = Letter(s, m)

(* Appending the next letter keeps a sequence one of letters.               *)
LEMMA NextLetter ==
  ASSUME NEW s \in Seq(Bytes), NEW o, IsLetters(o, s), NEW x, x = Letter(s, Len(o) + 1)
  PROVE  IsLetters(Append(o, x), s) /\ Len(Append(o, x)) = Len(o) + 1
<1>1. o \in Seq(Int) /\ Len(o) \in Nat BY LenProperties DEF IsLetters
<1>2. x \in Int
  <2>1. Letter(s, Len(o) + 1) \in 0..63 BY LetterBelow64
  <2> QED BY <2>1
<1>3. /\ Append(o, x) \in Seq(Int)
      /\ Len(Append(o, x)) = Len(o) + 1
      /\ \A m \in 1..Len(o) : Append(o, x)[m] = o[m]
      /\ Append(o, x)[Len(o) + 1] = x
  BY <1>1, <1>2, AppendProperties
<1>4. ASSUME NEW m \in 1..(Len(o) + 1) PROVE Append(o, x)[m] = Letter(s, m)
  <2>1. CASE m = Len(o) + 1 BY <1>3, <2>1
  <2>2. CASE m # Len(o) + 1
    <3>1. m \in 1..Len(o) BY <1>1, <2>2
    <3> QED BY <1>3, <3>1 DEF IsLetters
  <2> QED BY <2>1, <2>2
<1> QED BY <1>3, <1>4 DEF IsLetters

(* What has been written after k bytes.                                     *)
EncodedUpTo(st, s, k) ==
  LET q == k \div 3
      c == k % 3
  IN  /\ st.step = 2 * c
      /\ st.d = IF c = 0 THEN 0
                ELSE IF c = 1 THEN (ByteAt(s, k) % 4) * 16 ELSE (ByteAt(s, k) % 16) * 4
      /\ IsLetters(st.o, s) /\ Len(st.o) = 4 * q + c

(* One byte more leaves what is written after one byte more.                *)
LEMMA EncodeOneMore ==
  ASSUME NEW s \in Seq(Bytes), NEW k \in 1..Len(s), NEW st \in EncodeStates,
         EncodedUpTo(st, s, k - 1)
  PROVE  EncodedUpTo(EncodeByte(st, s[k]), s, k)
<1> DEFINE q == (k - 1) \div 3
           x == s[k]
           next == EncodeByte(st, x)
<1>1. k \in Nat /\ q \in Nat /\ x \in Bytes /\ x \in 0..255
  BY LenProperties, ElementOfSeq DEF Bytes
<1>2. ByteAt(s, k) = x BY DEF ByteAt
<1>3. IsLetters(st.o, s) /\ Len(st.o) \in Nat BY LenProperties DEF EncodedUpTo, IsLetters
<1> HIDE DEF next, x, q
<1>4. CASE (k - 1) % 3 = 0
  <2> DEFINE v == st.d + (x \div 4)
             o == Append(st.o, v)
  <2>1. k = 3 * q + 1 /\ k \div 3 = q /\ k % 3 = 1 BY <1>1, <1>4 DEF q
  <2>2. st.step = 0 /\ st.d = 0 /\ Len(st.o) = 4 * q BY <1>1, <1>4 DEF EncodedUpTo, q
  <2>3. next = [o |-> o, d |-> (x % 4) * 16, step |-> 2]
    BY <1>1, <2>2, EncodeByteIs DEF next
  <2>4. v = Letter(s, Len(st.o) + 1)
    <3>1. Letter(s, 4 * q + 1) = x \div 4 BY <1>1, <1>2, <2>1, LetterOfGroup
    <3> QED BY <1>1, <2>2, <3>1
  <2> HIDE DEF v
  <2>5. IsLetters(o, s) /\ Len(o) = Len(st.o) + 1 BY <1>3, <2>4, NextLetter
  <2> HIDE DEF o
  <2>6. next.step = 2 /\ next.d = (x % 4) * 16 /\ next.o = o BY <2>3
  <2>7. EncodedUpTo(next, s, k) BY <1>1, <1>2, <2>1, <2>2, <2>5, <2>6 DEF EncodedUpTo
  <2> QED BY <2>7 DEF next, x
<1>5. CASE (k - 1) % 3 = 1
  <2> DEFINE v == st.d + (x \div 16)
             o == Append(st.o, v)
  <2>1. k = 3 * q + 2 /\ k \div 3 = q /\ k % 3 = 2 BY <1>1, <1>5 DEF q
  <2>2. /\ st.step = 2 /\ st.d = (ByteAt(s, 3 * q + 1) % 4) * 16
        /\ Len(st.o) = 4 * q + 1
    <3>1. k - 1 = 3 * q + 1 BY <1>1, <2>1
    <3> QED BY <1>1, <1>5, <3>1 DEF EncodedUpTo, q
  <2>3. next = [o |-> o, d |-> (x % 16) * 4, step |-> 4]
    BY <1>1, <2>2, EncodeByteIs DEF next
  <2>4. v = Letter(s, Len(st.o) + 1)
    <3>1. Letter(s, 4 * q + 2) = (ByteAt(s, 3 * q + 1) % 4) * 16 + (x \div 16)
      BY <1>1, <1>2, <2>1, LetterOfGroup
    <3> QED BY <1>1, <2>2, <3>1
  <2> HIDE DEF v
  <2>5. IsLetters(o, s) /\ Len(o) = Len(st.o) + 1 BY <1>3, <2>4, NextLetter
  <2> HIDE DEF o
  <2>6. next.step = 4 /\ next.d = (x % 16) * 4 /\ next.o = o BY <2>3
  <2>7. EncodedUpTo(next, s, k) BY <1>1, <1>2, <2>1, <2>2, <2>5, <2>6 DEF EncodedUpTo
  <2> QED BY <2>7 DEF next, x
<1>6. CASE (k - 1) % 3 = 2
  <2> DEFINE v == st.d + (x \div 64)
             o == Append(st.o, v)
             w == x % 64
             p == Append(o, w)
  <2>1. k = 3 * q + 3 /\ k \div 3 = q + 1 /\ k % 3 = 0 BY <1>1, <1>6 DEF q
  <2>2. /\ st.step = 4 /\ st.d = (ByteAt(s, 3 * q + 2) % 16) * 4
        /\ Len(st.o) = 4 * q + 2
    <3>1. k - 1 = 3 * q + 2 BY <1>1, <2>1
    <3> QED BY <1>1, <1>6, <3>1 DEF EncodedUpTo, q
  <2>3. next = [o |-> p, d |-> 0, step |-> 0]
    BY <1>1, <2>2, EncodeByteIs DEF next
  <2>4. v = Letter(s, Len(st.o) + 1)
    <3>1. Letter(s, 4 * q + 3) = (ByteAt(s, 3 * q + 2) % 16) * 4 + (x \div 64)
      BY <1>1, <1>2, <2>1, LetterOfGroup
    <3> QED BY <1>1, <2>2, <3>1
  <2> HIDE DEF v
  <2>5. IsLetters(o, s) /\ Len(o) = Len(st.o) + 1 BY <1>3, <2>4, NextLetter
  <2> HIDE DEF o
  <2>6. w = Letter(s, Len(o) + 1)
    <3>1. Letter(s, 4 * q + 4) = x % 64 BY <1>1, <1>2, <2>1, LetterOfGroup
    <3> QED BY <1>1, <2>2, <2>5, <3>1
  <2> HIDE DEF w
  <2>7. IsLetters(p, s) /\ Len(p) = Len(o) + 1 BY <2>5, <2>6, NextLetter
  <2> HIDE DEF p
  <2>8. next.step = 0 /\ next.d = 0 /\ next.o = p BY <2>3
  <2>9. EncodedUpTo(next, s, k) BY <1>1, <1>2, <2>1, <2>2, <2>5, <2>7, <2>8 DEF EncodedUpTo
  <2> QED BY <2>9 DEF next, x
<1>7. (k - 1) % 3 \in {0, 1, 2} BY <1>1
<1> QED BY <1>4, <1>5, <1>6, <1>7

(* So the loop over the whole text leaves what all its bytes stand for.     *)
LEMMA EncodedWhole ==
  ASSUME NEW s \in Seq(Bytes)
  PROVE  EncodedUpTo(EncodedBytes(s), s, Len(s))
<1> DEFINE n == Len(s)
           r == EncodeRun(s)
           T == {k \in 0..n : EncodedUpTo(r[k], s, k)}
<1>1. n \in Nat /\ 0 \in Int /\ n \in Int BY LenProperties
<1>2. r[0] = [o |-> <<>>, d |-> 0, step |-> 0] BY EncodeRunIs
<1>3. \A k \in 1..n : r[k - 1] \in EncodeStates /\ r[k] = EncodeByte(r[k - 1], s[k])
  BY EncodeRunIs
<1> HIDE DEF r
<1>4. 0 \in T
  <2>1. r[0].step = 0 /\ r[0].d = 0 /\ r[0].o = <<>> BY <1>2
  <2>2. IsLetters(<<>>, s) BY DEF IsLetters
  <2>3. Len(<<>>) = 0 OBVIOUS
  <2>4. 0 \div 3 = 0 /\ 0 % 3 = 0 OBVIOUS
  <2>5. EncodedUpTo(r[0], s, 0) BY <2>1, <2>2, <2>3, <2>4 DEF EncodedUpTo
  <2> QED BY <1>1, <2>5
<1>5. ASSUME NEW k \in (0 + 1)..n, k - 1 \in T PROVE k \in T
  <2>1. k \in 1..n /\ k \in 0..n BY <1>1
  <2>2. EncodedUpTo(r[k - 1], s, k - 1) BY <1>5
  <2>3. r[k - 1] \in EncodeStates /\ r[k] = EncodeByte(r[k - 1], s[k]) BY <1>3, <2>1
  <2>4. EncodedUpTo(r[k], s, k) BY <2>1, <2>2, <2>3, EncodeOneMore
  <2> QED BY <2>1, <2>4
<1> HIDE DEF T
<1>6. \A k \in 0..n : k \in T BY <1>1, <1>4, <1>5, UpwardInduction
<1>7. n \in T BY <1>1, <1>6
<1>8. EncodedBytes(s) = r[n] BY EncodeRunIs DEF r
<1> QED BY <1>7, <1>8 DEF T

(* How many letters stand for n bytes, and the letters.                     *)
LetterCount(n) == 4 * (n \div 3) + (IF n % 3 = 0 THEN 0 ELSE (n % 3) + 1)

EncodedText(s) ==
  EncodedBytes(s).o \o (IF EncodedBytes(s).step = 0 THEN <<>> ELSE <<EncodedBytes(s).d>>)

(* The letters of the text are those of its bytes in groups of six bits.    *)
LEMMA EncodedTextIs ==
  ASSUME NEW s \in Seq(Bytes)
  PROVE  IsLetters(EncodedText(s), s) /\ Len(EncodedText(s)) = LetterCount(Len(s))
<1> DEFINE n == Len(s)
           st == EncodedBytes(s)
           q == n \div 3
           c == n % 3
<1>1. n \in Nat /\ q \in Nat /\ c \in {0, 1, 2} /\ n = 3 * q + c BY LenProperties
<1>2. /\ st.step = 2 * c
      /\ st.d = IF c = 0 THEN 0
                ELSE IF c = 1 THEN (ByteAt(s, n) % 4) * 16 ELSE (ByteAt(s, n) % 16) * 4
      /\ IsLetters(st.o, s)
      /\ Len(st.o) = 4 * q + c
  BY EncodedWhole DEF EncodedUpTo
<1>3. st.o \in Seq(Int) BY <1>2 DEF IsLetters
<1>4. LetterCount(n) = 4 * q + (IF c = 0 THEN 0 ELSE c + 1) BY DEF LetterCount
<1>5. EncodedText(s) = st.o \o (IF st.step = 0 THEN <<>> ELSE <<st.d>>) BY DEF EncodedText
<1>6. ByteAt(s, n + 1) = 0 BY <1>1 DEF ByteAt
<1> HIDE DEF n, st, q, c
<1>7. CASE c = 0
  <2>1. EncodedText(s) = st.o BY <1>2, <1>3, <1>5, <1>7
  <2> QED BY <1>1, <1>2, <1>4, <1>7, <2>1 DEF n
<1>8. CASE c # 0
  <2>1. st.step # 0 BY <1>1, <1>2, <1>8
  <2>2. EncodedText(s) = st.o \o <<st.d>> BY <1>5, <2>1
  <2>3. st.d = Letter(s, Len(st.o) + 1)
    <3>1. CASE c = 1
      <4>1. n = 3 * q + 1 /\ Len(st.o) + 1 = 4 * q + 2 /\ n + 1 = 3 * q + 2 BY <1>1, <1>2, <3>1
      <4>2. Letter(s, 4 * q + 2) = (ByteAt(s, 3 * q + 1) % 4) * 16 + (ByteAt(s, 3 * q + 2) \div 16)
        BY <1>1, LetterOfGroup
      <4>3. ByteAt(s, 3 * q + 2) \div 16 = 0
        <5>1. ByteAt(s, 3 * q + 2) = 0 BY <1>6, <4>1
        <5> QED BY <5>1
      <4>4. ByteAt(s, n) \in 0..255 BY ByteAtTyped DEF Bytes
      <4>5. (ByteAt(s, n) % 4) * 16 + 0 = (ByteAt(s, n) % 4) * 16
        <5>1. \A x \in 0..255 : (x % 4) * 16 + 0 = (x % 4) * 16 OBVIOUS
        <5> QED BY <4>4, <5>1
      <4>6. Letter(s, 4 * q + 2) = (ByteAt(s, n) % 4) * 16 + 0 BY <4>1, <4>2, <4>3
      <4>7. Letter(s, Len(st.o) + 1) = (ByteAt(s, n) % 4) * 16 BY <4>1, <4>5, <4>6
      <4> QED BY <1>2, <3>1, <4>7
    <3>2. CASE c = 2
      <4>1. n = 3 * q + 2 /\ Len(st.o) + 1 = 4 * q + 3 /\ n + 1 = 3 * q + 3 BY <1>1, <1>2, <3>2
      <4>2. Letter(s, 4 * q + 3) = (ByteAt(s, 3 * q + 2) % 16) * 4 + (ByteAt(s, 3 * q + 3) \div 64)
        BY <1>1, LetterOfGroup
      <4>3. ByteAt(s, 3 * q + 3) \div 64 = 0
        <5>1. ByteAt(s, 3 * q + 3) = 0 BY <1>6, <4>1
        <5> QED BY <5>1
      <4>4. ByteAt(s, n) \in 0..255 BY ByteAtTyped DEF Bytes
      <4>5. (ByteAt(s, n) % 16) * 4 + 0 = (ByteAt(s, n) % 16) * 4
        <5>1. \A x \in 0..255 : (x % 16) * 4 + 0 = (x % 16) * 4 OBVIOUS
        <5> QED BY <4>4, <5>1
      <4>6. Letter(s, 4 * q + 3) = (ByteAt(s, n) % 16) * 4 + 0 BY <4>1, <4>2, <4>3
      <4>7. Letter(s, Len(st.o) + 1) = (ByteAt(s, n) % 16) * 4 BY <4>1, <4>5, <4>6
      <4> QED BY <1>2, <3>2, <4>7
    <3> QED BY <1>1, <1>8, <3>1, <3>2
  <2>4. st.d \in Int
    <3>1. Letter(s, Len(st.o) + 1) \in 0..63 BY LetterBelow64
    <3> QED BY <2>3, <3>1
  <2>5. EncodedText(s) = Append(st.o, st.d) BY <1>3, <2>2, <2>4
  <2>6. IsLetters(Append(st.o, st.d), s) /\ Len(Append(st.o, st.d)) = Len(st.o) + 1
    BY <1>2, <2>3, NextLetter
  <2>7. Len(st.o) + 1 = LetterCount(n) BY <1>1, <1>2, <1>4, <1>8
  <2> QED BY <2>5, <2>6, <2>7 DEF n
<1> QED BY <1>7, <1>8

(* The encoding: its letters, then one '=' for every byte that is missing.  *)
LEMMA EncodingIs ==
  ASSUME NEW s \in Seq(Bytes)
  PROVE  /\ Base64Encode(s) = EncodedText(s) \o Stops(Padding(Len(s)))
         /\ Len(Base64Encode(s)) = LetterCount(Len(s)) + Padding(Len(s))
         /\ LetterCount(Len(s)) + Padding(Len(s)) = 4 * DivCeil(Len(s), 3)
         /\ Padding(Len(s)) \in 0..2
<1> DEFINE n == Len(s)
           p == Padding(n)
           u == EncodedText(s)
<1>1. n \in Nat BY LenProperties
<1>2. p \in 0..2 BY <1>1 DEF Padding
<1>3. LetterCount(n) + p = 4 * DivCeil(n, 3)
  <2> DEFINE q == n \div 3  c == n % 3
  <2>1. q \in Nat /\ c \in {0, 1, 2} BY <1>1
  <2>2. LetterCount(n) = 4 * q + (IF c = 0 THEN 0 ELSE c + 1) BY DEF LetterCount
  <2>3. p = IF c = 0 THEN 0 ELSE 3 - c BY DEF Padding
  <2>4. DivCeil(n, 3) = q + (IF c = 0 THEN 0 ELSE 1) BY DEF DivCeil
  <2> HIDE DEF q, c, p
  <2> QED BY <2>1, <2>2, <2>3, <2>4
<1>4. u \in Seq(Int) /\ Len(u) = LetterCount(n) BY EncodedTextIs DEF IsLetters
<1>5. Stops(p) \in Seq(Int) /\ Len(Stops(p)) = p BY <1>2 DEF Stops, Stop
<1>6. Base64Encode(s) = u \o Stops(p)
  <2>1. EncodedText(s) \in Seq(Int) BY <1>4
  <2> QED BY DEF Base64Encode, EncodedText
<1> HIDE DEF p, u, n
<1> DEFINE v == Stops(p)
<1> HIDE DEF v
<1>7. Len(u \o v) = Len(u) + Len(v) BY <1>4, <1>5, ConcatProperties DEF v
<1>8. Len(Base64Encode(s)) = LetterCount(n) + p BY <1>4, <1>5, <1>6, <1>7 DEF v
<1> QED BY <1>2, <1>3, <1>6, <1>8 DEF n, p, u

------------------------------------------------------------------------------
(* The reference: bits read six at a time.                                  *)
LEMMA NumberOfSix ==
  ASSUME NEW bits \in Seq({0, 1}), Len(bits) = 6
  PROVE  NumberOf(bits) = 32 * bits[1] + 16 * bits[2] + 8 * bits[3]
                          + 4 * bits[4] + 2 * bits[5] + bits[6]
<1> DEFINE step == [p \in Int \X (1..6) |-> 2 * p[1] + bits[p[2]]]
           Is(g) == g = [k \in 0..Len(bits) |-> IF k = 0 THEN 0 ELSE 2 * g[k - 1] + bits[k]]
           w == Stepwise(0, 6, 0, step)
           v == CHOOSE g : Is(g)
<1>1. \A k \in 1..6 : bits[k] \in {0, 1}
  <2> SUFFICES ASSUME NEW k \in 1..6 PROVE bits[k] \in {0, 1} OBVIOUS
  <2> QED BY ElementOfSeq
<1>2. step \in [Int \X ((0 + 1)..6) -> Int]
  <2> SUFFICES ASSUME NEW p \in Int \X (1..6) PROVE 2 * p[1] + bits[p[2]] \in Int OBVIOUS
  <2>1. p[1] \in Int /\ bits[p[2]] \in Int BY <1>1
  <2> QED BY <2>1
<1>3. ASSUME NEW k \in 1..6, NEW x \in Int PROVE step[<<x, k>>] = 2 * x + bits[k] OBVIOUS
<1> HIDE DEF step, w
<1>4. PICK zero \in Int : zero = 0 OBVIOUS
<1>5. PICK six \in Int : six = 6 OBVIOUS
<1>6. step \in [Int \X ((zero + 1)..six) -> Int] BY <1>2, <1>4, <1>5
<1>7. FollowsSteps(Stepwise(zero, six, zero, step), zero, six, zero, step)
  BY <1>6, StepwiseFollows
<1>8. FollowsSteps(w, zero, six, zero, step) BY <1>4, <1>5, <1>7 DEF w
<1>9. \A k \in zero..six : w[k] \in Int BY <1>6, <1>8, StepwiseTyped
<1>10. ASSUME NEW k \in 0..6 PROVE w[k] = IF k = 0 THEN 0 ELSE 2 * w[k - 1] + bits[k]
  <2>1. w[k] = IF k = 0 THEN 0 ELSE step[<<w[k - 1], k>>] BY <1>4, <1>5, <1>8 DEF FollowsSteps
  <2>2. k # 0 => k - 1 \in zero..six /\ k \in 1..6 BY <1>4, <1>5
  <2> QED BY <1>3, <1>9, <2>1, <2>2
<1>11. \E g : Is(g)
  <2> DEFINE g == [k \in 0..6 |-> w[k]]
  <2>1. \A k \in 0..6 : k # 0 => g[k - 1] = w[k - 1] OBVIOUS
  <2>2. Is(g) BY <1>10, <2>1
  <2> QED BY <2>2
<1>12. Is(v)
  <2> HIDE DEF Is
  <2> QED BY <1>11
<1>13. NumberOf(bits) = v[6] BY DEF NumberOf
<1> HIDE DEF v
<1>14. \A k \in 0..6 : v[k] = IF k = 0 THEN 0 ELSE 2 * v[k - 1] + bits[k] BY <1>12
<1>15. v[0] = 0 BY <1>14
<1>16. v[1] = bits[1] BY <1>1, <1>14, <1>15
<1>17. v[2] = 2 * bits[1] + bits[2] BY <1>1, <1>14, <1>16
<1>18. v[3] = 4 * bits[1] + 2 * bits[2] + bits[3] BY <1>1, <1>14, <1>17
<1>19. v[4] = 8 * bits[1] + 4 * bits[2] + 2 * bits[3] + bits[4] BY <1>1, <1>14, <1>18
<1>20. v[5] = 16 * bits[1] + 8 * bits[2] + 4 * bits[3] + 2 * bits[4] + bits[5]
  BY <1>1, <1>14, <1>19
<1>21. v[6] = 32 * bits[1] + 16 * bits[2] + 8 * bits[3] + 4 * bits[4] + 2 * bits[5] + bits[6]
  <2>1. 6 \in 0..6 /\ 6 # 0 /\ 6 - 1 = 5 OBVIOUS
  <2>2. v[6] = 2 * v[5] + bits[6] BY <1>14, <2>1
  <2>3. /\ bits[1] \in Int /\ bits[2] \in Int /\ bits[3] \in Int
        /\ bits[4] \in Int /\ bits[5] \in Int /\ bits[6] \in Int
    BY <1>1
  <2> DEFINE b1 == bits[1]  b2 == bits[2]  b3 == bits[3]
             b4 == bits[4]  b5 == bits[5]  b6 == bits[6]  v5 == v[5]
  <2>4. v5 = 16 * b1 + 8 * b2 + 4 * b3 + 2 * b4 + b5 BY <1>20
  <2>5. v[6] = 2 * v5 + b6 BY <2>2
  <2>6. b1 \in Int /\ b2 \in Int /\ b3 \in Int /\ b4 \in Int /\ b5 \in Int /\ b6 \in Int
    BY <2>3
  <2>7. v[6] = 32 * b1 + 16 * b2 + 8 * b3 + 4 * b4 + 2 * b5 + b6
    <3> HIDE DEF b1, b2, b3, b4, b5, b6, v5
    <3> QED BY ONLY <2>4, <2>5, <2>6
  <2> QED BY ONLY <2>7
<1> QED BY <1>13, <1>21

(* Bit i of the bytes, the highest of each byte first, and zeros behind.    *)
BitAt(s, i) == (ByteAt(s, (i - 1) \div 8 + 1) \div 2^(7 - ((i - 1) % 8))) % 2

(* The powers of two within a byte.                                         *)
LEMMA EightPowers ==
  /\ 2^7 = 128 /\ 2^6 = 64 /\ 2^5 = 32 /\ 2^4 = 16
  /\ 2^3 = 8 /\ 2^2 = 4 /\ 2^1 = 2 /\ 2^0 = 1
<1>1. 2^7 = 128 /\ 2^6 = 64 /\ 2^5 = 32 /\ 2^4 = 16 OBVIOUS
<1>2. 2^3 = 8 /\ 2^2 = 4 /\ 2^1 = 2 /\ 2^0 = 1 OBVIOUS
<1> QED BY <1>1, <1>2

(* The eight bits of byte k + 1.                                            *)
LEMMA BitsOfByte ==
  ASSUME NEW s \in Seq(Bytes), NEW k \in Nat, NEW x, x = ByteAt(s, k + 1)
  PROVE  /\ BitAt(s, 8 * k + 1) = (x \div 128) % 2 /\ BitAt(s, 8 * k + 2) = (x \div 64) % 2
         /\ BitAt(s, 8 * k + 3) = (x \div 32) % 2 /\ BitAt(s, 8 * k + 4) = (x \div 16) % 2
         /\ BitAt(s, 8 * k + 5) = (x \div 8) % 2 /\ BitAt(s, 8 * k + 6) = (x \div 4) % 2
         /\ BitAt(s, 8 * k + 7) = (x \div 2) % 2 /\ BitAt(s, 8 * k + 8) = x % 2
<1>0. x \in 0..255 BY ByteAtTyped DEF Bytes
<1>1. ASSUME NEW j \in 0..7
      PROVE  BitAt(s, 8 * k + (j + 1)) = (x \div 2^(7 - j)) % 2
  <2>1. ((8 * k + (j + 1)) - 1) \div 8 = k /\ ((8 * k + (j + 1)) - 1) % 8 = j OBVIOUS
  <2> QED BY <2>1 DEF BitAt
<1>2. BitAt(s, 8 * k + 1) = (x \div 128) % 2
  <2>1. 0 + 1 = 1 /\ 7 - 0 = 7 /\ 0 \in 0..7 OBVIOUS
  <2> QED BY <1>1, <2>1, EightPowers
<1>3. BitAt(s, 8 * k + 2) = (x \div 64) % 2
  <2>1. 1 + 1 = 2 /\ 7 - 1 = 6 /\ 1 \in 0..7 OBVIOUS
  <2> QED BY <1>1, <2>1, EightPowers
<1>4. BitAt(s, 8 * k + 3) = (x \div 32) % 2
  <2>1. 2 + 1 = 3 /\ 7 - 2 = 5 /\ 2 \in 0..7 OBVIOUS
  <2> QED BY <1>1, <2>1, EightPowers
<1>5. BitAt(s, 8 * k + 4) = (x \div 16) % 2
  <2>1. 3 + 1 = 4 /\ 7 - 3 = 4 /\ 3 \in 0..7 OBVIOUS
  <2> QED BY <1>1, <2>1, EightPowers
<1>6. BitAt(s, 8 * k + 5) = (x \div 8) % 2
  <2>1. 4 + 1 = 5 /\ 7 - 4 = 3 /\ 4 \in 0..7 OBVIOUS
  <2> QED BY <1>1, <2>1, EightPowers
<1>7. BitAt(s, 8 * k + 6) = (x \div 4) % 2
  <2>1. 5 + 1 = 6 /\ 7 - 5 = 2 /\ 5 \in 0..7 OBVIOUS
  <2> QED BY <1>1, <2>1, EightPowers
<1>8. BitAt(s, 8 * k + 7) = (x \div 2) % 2
  <2>1. 6 + 1 = 7 /\ 7 - 6 = 1 /\ 6 \in 0..7 OBVIOUS
  <2> QED BY <1>1, <2>1, EightPowers
<1>9. BitAt(s, 8 * k + 8) = x % 2
  <2>1. 7 + 1 = 8 /\ 7 - 7 = 0 /\ 7 \in 0..7 OBVIOUS
  <2>2. BitAt(s, 8 * k + 8) = (x \div 1) % 2 BY <1>1, <2>1, EightPowers
  <2>3. x \div 1 = x BY <1>0
  <2> QED BY <2>2, <2>3
<1> QED BY <1>2, <1>3, <1>4, <1>5, <1>6, <1>7, <1>8, <1>9

(* A bit is 0 or 1.                                                         *)
LEMMA BitAtTyped ==
  ASSUME NEW s \in Seq(Bytes), NEW i \in Nat \ {0}
  PROVE  BitAt(s, i) \in {0, 1} /\ (i > 8 * Len(s) => BitAt(s, i) = 0)
<1> DEFINE k == (i - 1) \div 8
           x == ByteAt(s, k + 1)
<1>1. k \in Nat /\ i \in (8 * k + 1)..(8 * k + 8) OBVIOUS
<1>2. x \in 0..255 BY ByteAtTyped DEF Bytes
<1>3. \E m \in {1, 2, 4, 8, 16, 32, 64, 128} : BitAt(s, i) = (x \div m) % 2
  <2>1. \/ i = 8 * k + 1 \/ i = 8 * k + 2 \/ i = 8 * k + 3 \/ i = 8 * k + 4
        \/ i = 8 * k + 5 \/ i = 8 * k + 6 \/ i = 8 * k + 7 \/ i = 8 * k + 8
    BY <1>1
  <2>2. x % 2 = (x \div 1) % 2
    <3> HIDE DEF x
    <3>1. x \div 1 = x BY <1>2
    <3> QED BY <3>1
  <2> HIDE DEF k
  <2> QED BY <1>1, <2>1, <2>2, BitsOfByte, SMTT(30)
<1>4. i > 8 * Len(s) => x = 0
  <2>1. Len(s) \in Nat BY LenProperties
  <2>2. i > 8 * Len(s) => k + 1 \notin 1..Len(s) BY <2>1
  <2> QED BY <2>2 DEF ByteAt
<1> HIDE DEF x
<1>5. \A m \in {1, 2, 4, 8, 16, 32, 64, 128} : (x \div m) % 2 \in {0, 1} BY <1>2
<1>6. \A m \in {1, 2, 4, 8, 16, 32, 64, 128} : x = 0 => (x \div m) % 2 = 0 BY <1>2
<1> QED BY <1>3, <1>4, <1>5, <1>6

(* Six bits after one another are a letter.                                 *)
LEMMA LetterOfBits ==
  ASSUME NEW s \in Seq(Bytes), NEW g \in Nat
  PROVE  Letter(s, g + 1) =
           32 * BitAt(s, 6 * g + 1) + 16 * BitAt(s, 6 * g + 2) + 8 * BitAt(s, 6 * g + 3)
           + 4 * BitAt(s, 6 * g + 4) + 2 * BitAt(s, 6 * g + 5) + BitAt(s, 6 * g + 6)
<1> DEFINE q == g \div 4
           k == 3 * q
           a == ByteAt(s, k + 1)  b == ByteAt(s, k + 2)  d == ByteAt(s, k + 3)
<1>1. q \in Nat /\ k \in Nat /\ k + 1 \in Nat /\ k + 2 \in Nat OBVIOUS
<1>2. a \in 0..255 /\ b \in 0..255 /\ d \in 0..255 BY ByteAtTyped DEF Bytes
<1>3. /\ Letter(s, 4 * q + 1) = a \div 4
      /\ Letter(s, 4 * q + 2) = (a % 4) * 16 + (b \div 16)
      /\ Letter(s, 4 * q + 3) = (b % 16) * 4 + (d \div 64)
      /\ Letter(s, 4 * q + 4) = d % 64
  BY <1>1, LetterOfGroup
<1>4. /\ BitAt(s, 8 * k + 1) = (a \div 128) % 2 /\ BitAt(s, 8 * k + 2) = (a \div 64) % 2
      /\ BitAt(s, 8 * k + 3) = (a \div 32) % 2 /\ BitAt(s, 8 * k + 4) = (a \div 16) % 2
      /\ BitAt(s, 8 * k + 5) = (a \div 8) % 2 /\ BitAt(s, 8 * k + 6) = (a \div 4) % 2
      /\ BitAt(s, 8 * k + 7) = (a \div 2) % 2 /\ BitAt(s, 8 * k + 8) = a % 2
  BY <1>1, BitsOfByte
<1>5. /\ BitAt(s, 8 * (k + 1) + 1) = (b \div 128) % 2 /\ BitAt(s, 8 * (k + 1) + 2) = (b \div 64) % 2
      /\ BitAt(s, 8 * (k + 1) + 3) = (b \div 32) % 2 /\ BitAt(s, 8 * (k + 1) + 4) = (b \div 16) % 2
      /\ BitAt(s, 8 * (k + 1) + 5) = (b \div 8) % 2 /\ BitAt(s, 8 * (k + 1) + 6) = (b \div 4) % 2
      /\ BitAt(s, 8 * (k + 1) + 7) = (b \div 2) % 2 /\ BitAt(s, 8 * (k + 1) + 8) = b % 2
  <2> DEFINE l == k + 1
  <2>1. l \in Nat /\ l + 1 = k + 2 BY <1>1
  <2>2. b = ByteAt(s, l + 1) BY <2>1
  <2>3. l = k + 1 OBVIOUS
  <2> HIDE DEF b, k, l
  <2>4. /\ BitAt(s, 8 * l + 1) = (b \div 128) % 2 /\ BitAt(s, 8 * l + 2) = (b \div 64) % 2
        /\ BitAt(s, 8 * l + 3) = (b \div 32) % 2 /\ BitAt(s, 8 * l + 4) = (b \div 16) % 2
        /\ BitAt(s, 8 * l + 5) = (b \div 8) % 2 /\ BitAt(s, 8 * l + 6) = (b \div 4) % 2
        /\ BitAt(s, 8 * l + 7) = (b \div 2) % 2 /\ BitAt(s, 8 * l + 8) = b % 2
    BY <2>1, <2>2, BitsOfByte
  <2> QED BY ONLY <2>3, <2>4
<1>6. /\ BitAt(s, 8 * (k + 2) + 1) = (d \div 128) % 2 /\ BitAt(s, 8 * (k + 2) + 2) = (d \div 64) % 2
      /\ BitAt(s, 8 * (k + 2) + 3) = (d \div 32) % 2 /\ BitAt(s, 8 * (k + 2) + 4) = (d \div 16) % 2
      /\ BitAt(s, 8 * (k + 2) + 5) = (d \div 8) % 2 /\ BitAt(s, 8 * (k + 2) + 6) = (d \div 4) % 2
      /\ BitAt(s, 8 * (k + 2) + 7) = (d \div 2) % 2 /\ BitAt(s, 8 * (k + 2) + 8) = d % 2
  <2> DEFINE l == k + 2
  <2>1. l \in Nat /\ l + 1 = k + 3 BY <1>1
  <2>2. d = ByteAt(s, l + 1) BY <2>1
  <2>3. l = k + 2 OBVIOUS
  <2> HIDE DEF d, k, l
  <2>4. /\ BitAt(s, 8 * l + 1) = (d \div 128) % 2 /\ BitAt(s, 8 * l + 2) = (d \div 64) % 2
        /\ BitAt(s, 8 * l + 3) = (d \div 32) % 2 /\ BitAt(s, 8 * l + 4) = (d \div 16) % 2
        /\ BitAt(s, 8 * l + 5) = (d \div 8) % 2 /\ BitAt(s, 8 * l + 6) = (d \div 4) % 2
        /\ BitAt(s, 8 * l + 7) = (d \div 2) % 2 /\ BitAt(s, 8 * l + 8) = d % 2
    BY <2>1, <2>2, BitsOfByte
  <2> QED BY ONLY <2>3, <2>4
<1> HIDE DEF a, b, d
<1>7. CASE g = 4 * q
  <2>1. /\ 6 * g + 1 = 8 * k + 1 /\ 6 * g + 2 = 8 * k + 2 /\ 6 * g + 3 = 8 * k + 3
        /\ 6 * g + 4 = 8 * k + 4 /\ 6 * g + 5 = 8 * k + 5 /\ 6 * g + 6 = 8 * k + 6
        /\ g + 1 = 4 * q + 1
    BY <1>1, <1>7
  <2>2. a \div 4 = 32 * ((a \div 128) % 2) + 16 * ((a \div 64) % 2) + 8 * ((a \div 32) % 2)
                   + 4 * ((a \div 16) % 2) + 2 * ((a \div 8) % 2) + ((a \div 4) % 2)
    BY <1>2
  <2> HIDE DEF q, k
  <2> QED BY <1>3, <1>4, <2>1, <2>2
<1>8. CASE g = 4 * q + 1
  <2>1. /\ 6 * g + 1 = 8 * k + 7 /\ 6 * g + 2 = 8 * k + 8
        /\ 6 * g + 3 = 8 * (k + 1) + 1 /\ 6 * g + 4 = 8 * (k + 1) + 2
        /\ 6 * g + 5 = 8 * (k + 1) + 3 /\ 6 * g + 6 = 8 * (k + 1) + 4
        /\ g + 1 = 4 * q + 2
    BY <1>1, <1>8
  <2>2. (a % 4) * 16 + (b \div 16) =
          32 * ((a \div 2) % 2) + 16 * (a % 2) + 8 * ((b \div 128) % 2)
          + 4 * ((b \div 64) % 2) + 2 * ((b \div 32) % 2) + ((b \div 16) % 2)
    BY <1>2
  <2> HIDE DEF q, k
  <2> QED BY <1>3, <1>4, <1>5, <2>1, <2>2
<1>9. CASE g = 4 * q + 2
  <2>1. /\ 6 * g + 1 = 8 * (k + 1) + 5 /\ 6 * g + 2 = 8 * (k + 1) + 6
        /\ 6 * g + 3 = 8 * (k + 1) + 7 /\ 6 * g + 4 = 8 * (k + 1) + 8
        /\ 6 * g + 5 = 8 * (k + 2) + 1 /\ 6 * g + 6 = 8 * (k + 2) + 2
        /\ g + 1 = 4 * q + 3
    BY <1>1, <1>9
  <2>2. (b % 16) * 4 + (d \div 64) =
          32 * ((b \div 8) % 2) + 16 * ((b \div 4) % 2) + 8 * ((b \div 2) % 2)
          + 4 * (b % 2) + 2 * ((d \div 128) % 2) + ((d \div 64) % 2)
    BY <1>2, SMTT(30)
  <2> HIDE DEF q, k
  <2> QED BY <1>3, <1>5, <1>6, <2>1, <2>2
<1>10. CASE g = 4 * q + 3
  <2>1. /\ 6 * g + 1 = 8 * (k + 2) + 3 /\ 6 * g + 2 = 8 * (k + 2) + 4
        /\ 6 * g + 3 = 8 * (k + 2) + 5 /\ 6 * g + 4 = 8 * (k + 2) + 6
        /\ 6 * g + 5 = 8 * (k + 2) + 7 /\ 6 * g + 6 = 8 * (k + 2) + 8
        /\ g + 1 = 4 * q + 4
    BY <1>1, <1>10
  <2>2. d % 64 =
          32 * ((d \div 32) % 2) + 16 * ((d \div 16) % 2) + 8 * ((d \div 8) % 2)
          + 4 * ((d \div 4) % 2) + 2 * ((d \div 2) % 2) + (d % 2)
    BY <1>2
  <2> HIDE DEF q, k
  <2> QED BY <1>3, <1>6, <2>1, <2>2
<1>11. g = 4 * q \/ g = 4 * q + 1 \/ g = 4 * q + 2 \/ g = 4 * q + 3 OBVIOUS
<1> QED BY <1>7, <1>8, <1>9, <1>10, <1>11

(* Two sequences with the same length and elements are equal.               *)
LEMMA SameElements ==
  ASSUME NEW S, NEW u \in Seq(S), NEW v \in Seq(S), Len(u) = Len(v),
         \A i \in 1..Len(u) : u[i] = v[i]
  PROVE  u = v
<1>1. u \in [1..Len(u) -> S] /\ v \in [1..Len(v) -> S] BY LenProperties
<1> QED BY <1>1

(* The same bits read six at a time.                                        *)
LEMMA BitsGrouped ==
  ASSUME NEW s \in Seq(Bytes)
  PROVE  Group(Bits(s, 8), 6) = EncodedText(s)
<1> DEFINE n == Len(s)
           b == Bits(s, 8)
           c == DivCeil(8 * n, 6)
           z == 6 * c - (8 * n)
           full == b \o Zeros(z)
           u == EncodedText(s)
<1>1. n \in Nat BY LenProperties
<1>2. c \in Nat /\ z \in Nat /\ 8 * n + z = 6 * c BY <1>1 DEF DivCeil
<1>3. c = LetterCount(n)
  <2> DEFINE q == n \div 3  r == n % 3
  <2>1. q \in Nat /\ r \in {0, 1, 2} /\ n = 3 * q + r BY <1>1
  <2> HIDE DEF q, r
  <2>2. c = 4 * q + (IF r = 0 THEN 0 ELSE r + 1)
    <3>1. CASE r = 0
      <4>1. 8 * n = 24 * q BY <2>1, <3>1
      <4>2. (24 * q) \div 6 = 4 * q /\ (24 * q) % 6 = 0 BY <2>1
      <4> QED BY <3>1, <4>1, <4>2 DEF DivCeil
    <3>2. CASE r = 1
      <4>1. 8 * n = 24 * q + 8 BY <2>1, <3>2
      <4>2. (24 * q + 8) \div 6 = 4 * q + 1 /\ (24 * q + 8) % 6 = 2 BY <2>1
      <4> QED BY <2>1, <3>2, <4>1, <4>2 DEF DivCeil
    <3>3. CASE r = 2
      <4>1. 8 * n = 24 * q + 16 BY <2>1, <3>3
      <4>2. (24 * q + 16) \div 6 = 4 * q + 2 /\ (24 * q + 16) % 6 = 4 BY <2>1
      <4> QED BY <2>1, <3>3, <4>1, <4>2 DEF DivCeil
    <3> QED BY <2>1, <3>1, <3>2, <3>3
  <2> QED BY <2>2 DEF LetterCount, q, r
<1>4. ASSUME NEW i \in 1..(8 * n) PROVE b[i] = BitAt(s, i)
  <2> DEFINE k == (i - 1) \div 8 + 1
             j == (i - 1) % 8
  <2>1. k \in 1..n /\ j \in 0..7 BY <1>1
  <2>2. i \in 1..(8 * Len(s)) OBVIOUS
  <2>3. b[i] = (s[k] \div 2^(8 - 1 - j)) % 2 BY <2>2 DEF Bits
  <2>4. BitAt(s, i) = (ByteAt(s, k) \div 2^(7 - j)) % 2 BY DEF BitAt
  <2>5. ByteAt(s, k) = s[k] BY <2>1 DEF ByteAt
  <2> HIDE DEF k, j, b
  <2>6. 8 - 1 - j = 7 - j BY <2>1
  <2> QED BY <2>3, <2>4, <2>5, <2>6
<1>5. \A i \in Nat \ {0} : BitAt(s, i) \in {0, 1} /\ (i > 8 * n => BitAt(s, i) = 0)
  BY BitAtTyped
<1>6. b = [i \in 1..(8 * n) |-> b[i]] BY DEF Bits
<1> HIDE DEF b, c
<1>7. b \in Seq({0, 1}) /\ Len(b) = 8 * n
  <2>1. \A i \in 1..(8 * n) : b[i] \in {0, 1} BY <1>1, <1>4, <1>5
  <2>2. 8 * n \in Nat BY <1>1
  <2> QED BY <1>6, <2>1, <2>2
<1> HIDE DEF z
<1>8. Zeros(z) \in Seq({0, 1}) /\ Len(Zeros(z)) = z BY <1>2 DEF Zeros
<1>9. full \in Seq({0, 1}) /\ Len(full) = 6 * c
  <2>1. Len(full) = Len(b) + Len(Zeros(z)) /\ full \in Seq({0, 1}) BY <1>7, <1>8, ConcatProperties
  <2> QED BY <1>2, <1>7, <1>8, <2>1
<1>10. ASSUME NEW i \in 1..(6 * c) PROVE full[i] = BitAt(s, i)
  <2>1. CASE i <= 8 * n
    <3>1. i \in 1..(8 * n) BY <1>1, <1>2, <2>1
    <3>2. full[i] = b[i] BY <1>7, <1>8, <3>1, ConcatProperties
    <3> QED BY <1>4, <3>1, <3>2
  <2>2. CASE i > 8 * n
    <3> DEFINE j == i - (8 * n)
    <3>1. j \in 1..z /\ i \in Nat \ {0} /\ ~(i <= 8 * n) /\ i \in 1..(8 * n + z)
      BY <1>1, <1>2, <2>2
    <3>2. full[i] = Zeros(z)[j]
      <4>1. full[i] = IF i <= Len(b) THEN b[i] ELSE Zeros(z)[i - Len(b)]
        BY <1>7, <1>8, <3>1, ConcatProperties DEF full
      <4> QED BY <1>7, <3>1, <4>1
    <3> HIDE DEF j
    <3>3. Zeros(z)[j] = 0 BY <3>1 DEF Zeros
    <3>4. BitAt(s, i) = 0 BY <1>1, <1>5, <2>2, <3>1
    <3> QED BY <3>2, <3>3, <3>4
  <2>3. i <= 8 * n \/ i > 8 * n BY <1>1, <1>2
  <2> QED BY <2>1, <2>2, <2>3
<1> HIDE DEF full
<1>11. ASSUME NEW g \in 1..c PROVE NumberOf(SubSeq(full, 6 * (g - 1) + 1, 6 * g)) = Letter(s, g)
  <2> DEFINE h == g - 1
             lo == 6 * h + 1
             hi == 6 * g
             t == SubSeq(full, lo, hi)
  <2>1. h \in Nat /\ g = h + 1 /\ lo \in 1..(6 * c) /\ hi \in 1..(6 * c) /\ hi - lo + 1 = 6
        /\ lo \in Nat /\ hi \in Nat
    BY <1>2
  <2>2. \A i \in 1..6 : lo + i - 1 \in 1..(6 * c) /\ lo + i - 1 = 6 * h + i BY <1>2, <2>1
  <2> HIDE DEF lo, hi
  <2>3. t \in Seq({0, 1}) /\ Len(t) = 6 /\ \A i \in 1..6 : t[i] = full[lo + i - 1]
    <3>1. t = [i \in 1..(hi - lo + 1) |-> full[i + lo - 1]] BY <2>1 DEF t
    <3>2. t = [i \in 1..6 |-> full[i + lo - 1]] BY <2>1, <3>1
    <3>3. \A i \in 1..6 : i + lo - 1 = lo + i - 1 BY <2>1
    <3>4. \A i \in 1..6 : t[i] = full[lo + i - 1] BY <3>2, <3>3
    <3>5. \A i \in 1..6 : full[lo + i - 1] \in {0, 1} BY <1>9, <2>2, ElementOfSeq
    <3>6. t = [i \in 1..6 |-> t[i]] /\ \A i \in 1..6 : t[i] \in {0, 1}
      BY <3>2, <3>4, <3>5
    <3> HIDE DEF t
    <3>7. t \in Seq({0, 1}) /\ Len(t) = 6 BY <3>6
    <3> QED BY <3>4, <3>7
  <2> HIDE DEF t
  <2>4. ASSUME NEW i \in 1..6 PROVE t[i] = BitAt(s, 6 * h + i) BY <1>10, <2>2, <2>3
  <2>5. NumberOf(t) = 32 * t[1] + 16 * t[2] + 8 * t[3] + 4 * t[4] + 2 * t[5] + t[6]
    BY <2>3, NumberOfSix
  <2>6. Letter(s, h + 1) =
           32 * BitAt(s, 6 * h + 1) + 16 * BitAt(s, 6 * h + 2) + 8 * BitAt(s, 6 * h + 3)
           + 4 * BitAt(s, 6 * h + 4) + 2 * BitAt(s, 6 * h + 5) + BitAt(s, 6 * h + 6)
    BY <2>1, LetterOfBits
  <2>7. /\ t[1] = BitAt(s, 6 * h + 1) /\ t[2] = BitAt(s, 6 * h + 2)
        /\ t[3] = BitAt(s, 6 * h + 3) /\ t[4] = BitAt(s, 6 * h + 4)
        /\ t[5] = BitAt(s, 6 * h + 5) /\ t[6] = BitAt(s, 6 * h + 6)
    BY <2>4
  <2>8. NumberOf(t) = Letter(s, h + 1) BY <2>5, <2>6, <2>7
  <2> QED BY <2>1, <2>8 DEF t, lo, hi
<1>12. Group(b, 6) = [g \in 1..c |-> Letter(s, g)]
  <2>1. DivCeil(Len(b), 6) = c /\ Zeros(6 * c - Len(b)) = Zeros(z) BY <1>7 DEF c, z
  <2>2. Group(b, 6) = [g \in 1..c |-> NumberOf(SubSeq(full, 6 * (g - 1) + 1, 6 * g))]
    BY <2>1 DEF Group, full
  <2> QED BY <1>11, <2>2
<1>13. u \in Seq(Int) /\ Len(u) = c /\ \A m \in 1..c : u[m] = Letter(s, m)
  BY <1>3, EncodedTextIs DEF IsLetters
<1> HIDE DEF u
<1>14. u = [g \in 1..c |-> Letter(s, g)]
  <2>1. u \in [1..c -> Int] BY <1>13, LenProperties
  <2> QED BY <1>13, <2>1
<1> QED BY <1>12, <1>14 DEF b, u

(* The scan of the decoder stops at the end of the letters.                 *)
LEMMA ScannedText ==
  ASSUME NEW u \in Seq(0..63), NEW p \in Nat
  PROVE  Scanned(u \o Stops(p), <<Stop>>) = u
<1> DEFINE e == u \o Stops(p)
           m == e \o <<Stop>>
           n == Len(u)
           I == {i \in 1..Len(m) : m[i] = Stop}
<1>1. u \in Seq(Int) /\ n \in Nat /\ \A i \in 1..n : u[i] \in 0..63
  <2>1. \A i \in 1..n : u[i] \in 0..63 BY ElementOfSeq
  <2>2. u \in [1..n -> 0..63] /\ n \in Nat BY LenProperties
  <2>3. u = [i \in 1..n |-> u[i]] BY <2>2
  <2> HIDE DEF n
  <2>4. \A i \in 1..n : u[i] \in Int
    <3> SUFFICES ASSUME NEW i \in 1..n PROVE u[i] \in Int OBVIOUS
    <3>1. u[i] \in 0..63 BY <2>1
    <3>2. \A x \in 0..63 : x \in Int OBVIOUS
    <3> QED BY ONLY <3>1, <3>2
  <2>5. u \in Seq(Int) BY <2>2, <2>3, <2>4
  <2> QED BY <2>1, <2>2, <2>5
<1>2. Stops(p) \in Seq(Int) /\ Len(Stops(p)) = p /\ \A i \in 1..p : Stops(p)[i] = 64
  BY DEF Stops, Stop
<1>3. e \in Seq(Int) /\ Len(e) = n + p
      /\ (\A i \in 1..n : e[i] = u[i]) /\ (\A i \in 1..p : e[n + i] = 64)
  <2> DEFINE v == Stops(p)
  <2> HIDE DEF v
  <2>1. v \in Seq(Int) /\ Len(v) = p /\ \A i \in 1..p : v[i] = 64 BY <1>2 DEF v
  <2>2. Len(u \o v) = n + p /\ u \o v \in Seq(Int)
    BY <1>1, <2>1, ConcatProperties
  <2>3. \A i \in 1..n : (u \o v)[i] = u[i] BY <1>1, <2>1, ConcatProperties
  <2>4. ASSUME NEW i \in 1..p PROVE (u \o v)[n + i] = 64
    <3>1. n + i \in (Len(u) + 1)..(Len(u) + Len(v)) /\ (n + i) - Len(u) = i BY <1>1, <2>1
    <3>2. (u \o v)[n + i] = v[(n + i) - Len(u)] BY <1>1, <2>1, <3>1, ConcatProperties
    <3> QED BY <2>1, <3>1, <3>2
  <2> QED BY <2>2, <2>3, <2>4 DEF v
<1> HIDE DEF e
<1>4. m \in Seq(Int) /\ Len(m) = n + p + 1
      /\ (\A i \in 1..(n + p) : m[i] = e[i]) /\ m[n + p + 1] = 64
  <2> DEFINE w == Append(e, 64)
  <2>1. m = w BY <1>3 DEF Stop
  <2>2. /\ w \in Seq(Int) /\ Len(w) = Len(e) + 1
        /\ \A i \in 1..Len(e) : w[i] = e[i]
        /\ w[Len(e) + 1] = 64
    BY <1>3, AppendProperties
  <2> QED BY <1>3, <2>1, <2>2
<1> HIDE DEF m
<1>5. n + 1 \in I
  <2>1. CASE p = 0 BY <1>1, <1>4, <2>1 DEF Stop
  <2>2. CASE p > 0
    <3>1. n + 1 \in 1..(n + p) /\ 1 \in 1..p BY <1>1, <2>2
    <3>2. m[n + 1] = e[n + 1] BY <1>4, <3>1
    <3>3. e[n + 1] = 64 BY <1>3, <3>1
    <3>4. n + 1 \in 1..Len(m) BY <1>1, <1>4
    <3> QED BY <3>2, <3>3, <3>4 DEF Stop
  <2> QED BY <2>1, <2>2
<1>6. ASSUME NEW i \in I PROVE n + 1 <= i
  <2> SUFFICES ASSUME i <= n PROVE FALSE BY <1>1, <1>4
  <2>1. i \in 1..n /\ i \in 1..(n + p) BY <1>1, <1>4
  <2>2. m[i] = u[i] /\ m[i] = 64 BY <1>3, <1>4, <2>1 DEF Stop
  <2>3. u[i] \in 0..63 BY <1>1, <2>1
  <2>4. 64 \in 0..63 BY <2>2, <2>3
  <2> QED BY <2>4
<1>7. I \subseteq Int BY <1>4
<1>8. SelectInSeq(m, LAMBDA c : c = Stop) = Min(I) BY <1>5 DEF SelectInSeq
<1> HIDE DEF I
<1>9. Min(I) = n + 1
  <2>1. \A x \in I : (\A y \in I : x <= y) => x = n + 1 BY <1>1, <1>5, <1>6, <1>7
  <2> QED BY <1>5, <1>6, <2>1 DEF Min
<1>10. Min({n, 6 * Len(e)}) = n
  <2>1. n <= 6 * Len(e) /\ 6 * Len(e) \in Int BY <1>1, <1>3
  <2>2. \A x \in {n, 6 * Len(e)} : (\A y \in {n, 6 * Len(e)} : x <= y) => x = n BY <1>1, <2>1
  <2>3. \A y \in {n, 6 * Len(e)} : n <= y BY <1>1, <2>1
  <2> QED BY <2>2, <2>3 DEF Min
<1>11. Scanned(e, <<Stop>>) = SubSeq(m, 1, n)
  <2> DEFINE k == SelectInSeq(m, LAMBDA c : c = Stop)
  <2>1. Scanned(e, <<Stop>>) =
          SubSeq(m, 1, IF k = 0 THEN Min({Len(m), 6 * Len(e)}) ELSE Min({k - 1, 6 * Len(e)}))
    BY DEF Scanned, m
  <2>2. k = n + 1 BY <1>8, <1>9
  <2> HIDE DEF k
  <2>3. k # 0 /\ k - 1 = n BY <1>1, <2>2
  <2> QED BY <1>10, <2>1, <2>3
<1>12. SubSeq(m, 1, n) = u
  <2>1. SubSeq(m, 1, n) = [i \in 1..(n - 1 + 1) |-> m[i + 1 - 1]] BY <1>1, <1>4
  <2>2. n - 1 + 1 = n BY <1>1
  <2>3. \A i \in 1..n : m[i + 1 - 1] = u[i] BY <1>1, <1>3, <1>4
  <2>4. SubSeq(m, 1, n) = [i \in 1..n |-> u[i]] BY <2>1, <2>2, <2>3
  <2>5. u \in [1..n -> Int] BY <1>1, LenProperties
  <2> QED BY <2>4, <2>5
<1> QED BY <1>11, <1>12 DEF e

(* The states of base64_decode().                                           *)
DecodeStates == [o : Seq(Int), byte : Int, step : {0, 2, 4, 6}]

(* One turn of the decoder for each number of bits that it holds.           *)
LEMMA DecodeLetterIs ==
  ASSUME NEW st \in DecodeStates, NEW d \in 0..63
  PROVE  /\ st.step = 0 => DecodeLetter(st, d) =
              [o |-> st.o, byte |-> (d * 4) % 256, step |-> 2]
         /\ st.step = 2 => DecodeLetter(st, d) =
              [o |-> Append(st.o, st.byte + (d \div 16)), byte |-> (d * 16) % 256, step |-> 4]
         /\ st.step = 4 => DecodeLetter(st, d) =
              [o |-> Append(st.o, st.byte + (d \div 4)), byte |-> (d * 64) % 256, step |-> 6]
         /\ st.step = 6 => DecodeLetter(st, d) =
              [o |-> Append(st.o, st.byte + d), byte |-> st.byte, step |-> 0]
<1>1. CASE st.step = 0
  <2>1. st.step + 2 = 2 /\ 2 % 8 = 2 BY <1>1
  <2>2. 2^(st.step + 2) = 4 BY <2>1, Powers
  <2> QED BY <1>1, <2>1, <2>2 DEF DecodeLetter
<1>2. CASE st.step = 2
  <2>1. st.step + 2 = 4 /\ 8 - (st.step + 2) = 4 /\ 4 % 8 = 4 BY <1>2
  <2>2. 2^(st.step + 2) = 16 /\ 2^(8 - (st.step + 2)) = 16 BY <2>1, Powers
  <2> QED BY <1>2, <2>1, <2>2 DEF DecodeLetter
<1>3. CASE st.step = 4
  <2>1. st.step + 2 = 6 /\ 8 - (st.step + 2) = 2 /\ 6 % 8 = 6 BY <1>3
  <2>2. 2^(st.step + 2) = 64 /\ 2^(8 - (st.step + 2)) = 4 BY <2>1, Powers
  <2> QED BY <1>3, <2>1, <2>2 DEF DecodeLetter
<1>4. CASE st.step = 6
  <2>1. st.step + 2 = 8 /\ 8 - (st.step + 2) = 0 /\ 8 % 8 = 0 BY <1>4
  <2>2. 2^(8 - (st.step + 2)) = 1 BY <2>1, Powers
  <2>3. d \div 1 = d OBVIOUS
  <2> QED BY <1>4, <2>1, <2>2, <2>3, SMTT(30) DEF DecodeLetter
<1> QED BY <1>1, <1>2, <1>3, <1>4

(* A turn of the decoder leads from a state to a state.                     *)
LEMMA DecodeLetterTyped ==
  ASSUME NEW st \in DecodeStates, NEW d \in 0..63
  PROVE  DecodeLetter(st, d) \in DecodeStates
<1>1. st.o \in Seq(Int) /\ st.byte \in Int /\ st.step \in {0, 2, 4, 6} BY DEF DecodeStates
<1>2. CASE st.step = 0
  <2> DEFINE y == (d * 4) % 256
  <2>1. st.step = 0 => DecodeLetter(st, d) = [o |-> st.o, byte |-> y, step |-> 2]
    BY DecodeLetterIs
  <2>2. y \in Int OBVIOUS
  <2> HIDE DEF y
  <2> QED BY <1>1, <1>2, <2>1, <2>2 DEF DecodeStates
<1>3. CASE st.step = 2
  <2> DEFINE x == st.byte + (d \div 16)  y == (d * 16) % 256
  <2>1. DecodeLetter(st, d) = [o |-> Append(st.o, x), byte |-> y, step |-> 4]
    BY <1>3, DecodeLetterIs
  <2>2. x \in Int /\ y \in Int BY <1>1
  <2> HIDE DEF x, y
  <2>3. Append(st.o, x) \in Seq(Int) BY <1>1, <2>2
  <2> QED BY <2>1, <2>2, <2>3 DEF DecodeStates
<1>4. CASE st.step = 4
  <2> DEFINE x == st.byte + (d \div 4)  y == (d * 64) % 256
  <2>1. DecodeLetter(st, d) = [o |-> Append(st.o, x), byte |-> y, step |-> 6]
    BY <1>4, DecodeLetterIs
  <2>2. x \in Int /\ y \in Int BY <1>1
  <2> HIDE DEF x, y
  <2>3. Append(st.o, x) \in Seq(Int) BY <1>1, <2>2
  <2> QED BY <2>1, <2>2, <2>3 DEF DecodeStates
<1>5. CASE st.step = 6
  <2> DEFINE x == st.byte + d
  <2>1. DecodeLetter(st, d) = [o |-> Append(st.o, x), byte |-> st.byte, step |-> 0]
    BY <1>5, DecodeLetterIs
  <2>2. x \in Int BY <1>1
  <2> HIDE DEF x
  <2>3. Append(st.o, x) \in Seq(Int) BY <1>1, <2>2
  <2> QED BY <1>1, <2>1, <2>3 DEF DecodeStates
<1> QED BY <1>1, <1>2, <1>3, <1>4, <1>5

(* The states that the loop over the letters goes through.                  *)
DecodeRun(t) ==
  CHOOSE st : st = [i \in 0..Len(t) |->
    IF i = 0 THEN [o |-> <<>>, byte |-> 0, step |-> 0] ELSE DecodeLetter(st[i - 1], t[i])]

(* The states of the decoder, each from the one before, are the loop's.     *)
LEMMA DecodeRunIs ==
  ASSUME NEW t \in Seq(0..63)
  PROVE  /\ DecodedLetters(t) = DecodeRun(t)[Len(t)]
         /\ DecodeRun(t)[0] = [o |-> <<>>, byte |-> 0, step |-> 0]
         /\ \A i \in 1..Len(t) : /\ DecodeRun(t)[i - 1] \in DecodeStates
                                 /\ DecodeRun(t)[i] = DecodeLetter(DecodeRun(t)[i - 1], t[i])
<1> DEFINE n == Len(t)
           start == [o |-> <<>>, byte |-> 0, step |-> 0]
           step == [p \in DecodeStates \X (1..n) |-> DecodeLetter(p[1], t[p[2]])]
           Is(g) == g = [i \in 0..n |-> IF i = 0 THEN start ELSE DecodeLetter(g[i - 1], t[i])]
           w == Stepwise(0, n, start, step)
           r == DecodeRun(t)
<1>1. n \in Nat /\ 0 \in Int /\ n \in Int BY LenProperties
<1>2. \A i \in 1..n : t[i] \in 0..63 BY ElementOfSeq
<1>3. start \in DecodeStates BY DEF DecodeStates
<1>4. step \in [DecodeStates \X ((0 + 1)..n) -> DecodeStates]
  <2> SUFFICES ASSUME NEW p \in DecodeStates \X (1..n)
               PROVE  DecodeLetter(p[1], t[p[2]]) \in DecodeStates
    OBVIOUS
  <2>1. p[1] \in DecodeStates /\ t[p[2]] \in 0..63 BY <1>2
  <2> QED BY <2>1, DecodeLetterTyped
<1>5. ASSUME NEW i \in 1..n, NEW v \in DecodeStates
      PROVE  step[<<v, i>>] = DecodeLetter(v, t[i])
  OBVIOUS
<1> HIDE DEF n, start, step, w
<1>6. FollowsSteps(w, 0, n, start, step) BY <1>1, <1>3, <1>4, StepwiseFollows DEF w
<1>7. \A i \in 0..n : w[i] \in DecodeStates BY <1>1, <1>3, <1>4, <1>6, StepwiseTyped
<1>8. ASSUME NEW i \in 0..n PROVE w[i] = IF i = 0 THEN start ELSE DecodeLetter(w[i - 1], t[i])
  <2>1. w[i] = IF i = 0 THEN start ELSE step[<<w[i - 1], i>>] BY <1>6 DEF FollowsSteps
  <2>2. i # 0 => i - 1 \in 0..n /\ i \in 1..n BY <1>1
  <2> QED BY <1>5, <1>7, <2>1, <2>2
<1>9. \E g : Is(g)
  <2> DEFINE g == [i \in 0..n |-> w[i]]
  <2>1. \A i \in 0..n : i # 0 => g[i - 1] = w[i - 1] BY <1>1
  <2>2. Is(g) BY <1>8, <2>1
  <2> QED BY <2>2
<1>10. Is(r)
  <2>1. r = CHOOSE g : Is(g) BY DEF DecodeRun, n, start
  <2> HIDE DEF Is
  <2> QED BY <1>9, <2>1
<1>11. DecodedLetters(t) = r[n] BY DEF DecodedLetters, DecodeRun, n, start
<1> HIDE DEF r
<1>12. \A i \in 0..n : r[i] = IF i = 0 THEN start ELSE DecodeLetter(r[i - 1], t[i]) BY <1>10
<1> DEFINE T == {i \in 0..n : r[i] \in DecodeStates}
<1>13. 0 \in T BY <1>1, <1>3, <1>12
<1>14. ASSUME NEW i \in (0 + 1)..n, i - 1 \in T PROVE i \in T
  <2>1. i \in 0..n /\ i # 0 /\ i \in 1..n BY <1>1
  <2>2. r[i] = DecodeLetter(r[i - 1], t[i]) BY <1>12, <2>1
  <2>3. r[i] \in DecodeStates BY <1>2, <1>14, <2>1, <2>2, DecodeLetterTyped
  <2> QED BY <2>1, <2>3
<1>15. \A i \in 0..n : i \in T
  <2> HIDE DEF T
  <2> QED BY <1>1, <1>13, <1>14, UpwardInduction
<1>16. r[0] = start BY <1>1, <1>12
<1>17. ASSUME NEW i \in 1..n
       PROVE  r[i - 1] \in DecodeStates /\ r[i] = DecodeLetter(r[i - 1], t[i])
  <2>1. i - 1 \in 0..n /\ i \in 0..n /\ i # 0 BY <1>1
  <2> QED BY <1>12, <1>15, <2>1
<1> QED BY <1>11, <1>16, <1>17 DEF n, r, start

(* A sequence whose elements are the bytes up to its end, and the next.     *)
IsBytes(o, s) ==
  o \in Seq(Int) /\ \A m \in 1..Len(o) : o[m] = ByteAt(s, m)

(* Appending the next byte keeps a sequence one of bytes.                   *)
LEMMA NextByte ==
  ASSUME NEW s \in Seq(Bytes), NEW o, IsBytes(o, s), NEW x, x = ByteAt(s, Len(o) + 1)
  PROVE  IsBytes(Append(o, x), s) /\ Len(Append(o, x)) = Len(o) + 1
<1>1. o \in Seq(Int) /\ Len(o) \in Nat BY LenProperties DEF IsBytes
<1>2. x \in Int
  <2>1. ByteAt(s, Len(o) + 1) \in 0..255 BY ByteAtTyped DEF Bytes
  <2> QED BY <2>1
<1>3. /\ Append(o, x) \in Seq(Int)
      /\ Len(Append(o, x)) = Len(o) + 1
      /\ \A m \in 1..Len(o) : Append(o, x)[m] = o[m]
      /\ Append(o, x)[Len(o) + 1] = x
  BY <1>1, <1>2, AppendProperties
<1>4. ASSUME NEW m \in 1..(Len(o) + 1) PROVE Append(o, x)[m] = ByteAt(s, m)
  <2>1. CASE m = Len(o) + 1 BY <1>3, <2>1
  <2>2. CASE m # Len(o) + 1
    <3>1. m \in 1..Len(o) BY <1>1, <2>2
    <3> QED BY <1>3, <3>1 DEF IsBytes
  <2> QED BY <2>1, <2>2
<1> QED BY <1>3, <1>4 DEF IsBytes

(* What has been written after k letters.                                   *)
DecodedUpTo(st, s, k) ==
  LET q == k \div 4
      c == k % 4
  IN  /\ st.step = 2 * c
      /\ c = 1 => st.byte = (ByteAt(s, 3 * q + 1) \div 4) * 4
      /\ c = 2 => st.byte = (ByteAt(s, 3 * q + 2) \div 16) * 16
      /\ c = 3 => st.byte = (ByteAt(s, 3 * q + 3) \div 64) * 64
      /\ IsBytes(st.o, s) /\ Len(st.o) = 3 * q + (IF c = 0 THEN 0 ELSE c - 1)

(* One letter more leaves what is written after one letter more.            *)
LEMMA DecodeOneMore ==
  ASSUME NEW s \in Seq(Bytes), NEW k \in Nat \ {0}, NEW st \in DecodeStates,
         DecodedUpTo(st, s, k - 1)
  PROVE  DecodedUpTo(DecodeLetter(st, Letter(s, k)), s, k)
<1> DEFINE q == (k - 1) \div 4
           a == ByteAt(s, 3 * q + 1)
           b == ByteAt(s, 3 * q + 2)
           d == ByteAt(s, 3 * q + 3)
           x == Letter(s, k)
           next == DecodeLetter(st, x)
           o == st.o
<1>1. q \in Nat BY LenProperties
<1>2. a \in 0..255 /\ b \in 0..255 /\ d \in 0..255 BY ByteAtTyped DEF Bytes
<1>3. x \in 0..63 BY LetterBelow64
<1>4. /\ Letter(s, 4 * q + 1) = a \div 4
      /\ Letter(s, 4 * q + 2) = (a % 4) * 16 + (b \div 16)
      /\ Letter(s, 4 * q + 3) = (b % 16) * 4 + (d \div 64)
      /\ Letter(s, 4 * q + 4) = d % 64
  BY <1>1, LetterOfGroup
<1>5. IsBytes(o, s) /\ Len(o) \in Nat BY LenProperties DEF DecodedUpTo, IsBytes
<1> HIDE DEF a, b, d
<1>11. /\ ((a \div 4) * 4) % 256 = (a \div 4) * 4
       /\ (a \div 4) * 4 + (((a % 4) * 16 + (b \div 16)) \div 16) = a
       /\ (((a % 4) * 16 + (b \div 16)) * 16) % 256 = (b \div 16) * 16
       /\ (b \div 16) * 16 + (((b % 16) * 4 + (d \div 64)) \div 4) = b
       /\ (((b % 16) * 4 + (d \div 64)) * 64) % 256 = (d \div 64) * 64
       /\ (d \div 64) * 64 + (d % 64) = d
  <2>1. ((a \div 4) * 4) % 256 = (a \div 4) * 4 BY <1>2
  <2>2. (a \div 4) * 4 + (((a % 4) * 16 + (b \div 16)) \div 16) = a BY <1>2
  <2>3. (((a % 4) * 16 + (b \div 16)) * 16) % 256 = (b \div 16) * 16 BY <1>2
  <2>4. (b \div 16) * 16 + (((b % 16) * 4 + (d \div 64)) \div 4) = b BY <1>2
  <2>5. (((b % 16) * 4 + (d \div 64)) * 64) % 256 = (d \div 64) * 64 BY <1>2
  <2>6. (d \div 64) * 64 + (d % 64) = d BY <1>2
  <2> QED BY <2>1, <2>2, <2>3, <2>4, <2>5, <2>6
<1> HIDE DEF next, x, q, o
<1>6. CASE (k - 1) % 4 = 0
  <2>1. k = 4 * q + 1 /\ k \div 4 = q /\ k % 4 = 1 BY <1>6 DEF q
  <2>2. st.step = 0 /\ Len(o) = 3 * q BY <1>1, <1>6 DEF DecodedUpTo, q, o
  <2>3. next = [o |-> o, byte |-> (x * 4) % 256, step |-> 2]
    <3>1. st.step = 0 => next = [o |-> o, byte |-> (x * 4) % 256, step |-> 2]
      BY <1>3, DecodeLetterIs, ZenonT(30) DEF next, o
    <3> QED BY <2>2, <3>1, SMTT(30)
  <2>4. x = a \div 4 BY <1>4, <2>1 DEF x
  <2>5. (x * 4) % 256 = (a \div 4) * 4 BY <1>11, <2>4
  <2>6. next.step = 2 /\ next.byte = (a \div 4) * 4 /\ next.o = o BY <2>3, <2>5
  <2>7. DecodedUpTo(next, s, k) BY <1>1, <1>5, <2>1, <2>2, <2>6 DEF DecodedUpTo, a
  <2> QED BY <2>7 DEF next, x
<1>7. CASE (k - 1) % 4 = 1
  <2> DEFINE y == st.byte + (x \div 16)
             p == Append(o, y)
  <2>1. k = 4 * q + 2 /\ k \div 4 = q /\ k % 4 = 2 BY <1>7 DEF q
  <2>2. st.step = 2 /\ Len(o) = 3 * q /\ st.byte = (a \div 4) * 4
    BY <1>1, <1>7 DEF DecodedUpTo, q, o, a
  <2>3. next = [o |-> p, byte |-> (x * 16) % 256, step |-> 4]
    BY <1>3, <2>2, DecodeLetterIs, ZenonT(30) DEF next, o
  <2>4. x = (a % 4) * 16 + (b \div 16) BY <1>4, <2>1 DEF x
  <2>5. (x * 16) % 256 = (b \div 16) * 16 /\ y = a BY <1>11, <2>2, <2>4
  <2> HIDE DEF y
  <2>6. y = ByteAt(s, Len(o) + 1) BY <2>2, <2>5 DEF a
  <2>7. IsBytes(p, s) /\ Len(p) = Len(o) + 1 BY <1>5, <2>6, NextByte
  <2> HIDE DEF p
  <2>8. next.step = 4 /\ next.byte = (b \div 16) * 16 /\ next.o = p BY <2>3, <2>5
  <2>9. DecodedUpTo(next, s, k) BY <1>1, <1>5, <2>1, <2>2, <2>7, <2>8 DEF DecodedUpTo, b
  <2> QED BY <2>9 DEF next, x
<1>8. CASE (k - 1) % 4 = 2
  <2> DEFINE y == st.byte + (x \div 4)
             p == Append(o, y)
  <2>1. k = 4 * q + 3 /\ k \div 4 = q /\ k % 4 = 3 BY <1>8 DEF q
  <2>2. st.step = 4 /\ Len(o) = 3 * q + 1 /\ st.byte = (b \div 16) * 16
    BY <1>1, <1>8, SMTT(30) DEF DecodedUpTo, q, o, b
  <2>3. next = [o |-> p, byte |-> (x * 64) % 256, step |-> 6]
    BY <1>3, <2>2, DecodeLetterIs DEF next, o
  <2>4. x = (b % 16) * 4 + (d \div 64) BY <1>4, <2>1 DEF x
  <2>5. (x * 64) % 256 = (d \div 64) * 64 /\ y = b BY <1>11, <2>2, <2>4
  <2> HIDE DEF y
  <2>6. y = ByteAt(s, Len(o) + 1)
    <3>1. Len(o) + 1 = 3 * q + 2 BY <1>1, <2>2
    <3> QED BY <2>5, <3>1 DEF b
  <2>7. IsBytes(p, s) /\ Len(p) = Len(o) + 1 BY <1>5, <2>6, NextByte
  <2> HIDE DEF p
  <2>8. next.step = 6 /\ next.byte = (d \div 64) * 64 /\ next.o = p BY <2>3, <2>5
  <2>9. DecodedUpTo(next, s, k)
    <3>1. Len(p) = 3 * q + (3 - 1) BY <1>1, <2>2, <2>7
    <3>2. next.step = 2 * 3 BY <2>8
    <3>3. next.byte = (ByteAt(s, 3 * q + 3) \div 64) * 64 BY <2>8 DEF d
    <3>4. IsBytes(next.o, s) /\ Len(next.o) = 3 * q + (3 - 1) BY <2>7, <2>8, <3>1
    <3> DEFINE c == k % 4  g == k \div 4
    <3>5. c = 3 /\ g = q BY <2>1
    <3>6. /\ DecodedUpTo(next, s, k) <=>
              /\ next.step = 2 * c
              /\ c = 1 => next.byte = (ByteAt(s, 3 * g + 1) \div 4) * 4
              /\ c = 2 => next.byte = (ByteAt(s, 3 * g + 2) \div 16) * 16
              /\ c = 3 => next.byte = (ByteAt(s, 3 * g + 3) \div 64) * 64
              /\ IsBytes(next.o, s) /\ Len(next.o) = 3 * g + (IF c = 0 THEN 0 ELSE c - 1)
      BY DEF DecodedUpTo
    <3> HIDE DEF c, g
    <3>7. c # 0 /\ c # 1 /\ c # 2 /\ next.step = 2 * c BY <3>2, <3>5
    <3>8. Len(next.o) = 3 * g + (IF c = 0 THEN 0 ELSE c - 1) BY <3>4, <3>5
    <3>9. c = 3 => next.byte = (ByteAt(s, 3 * g + 3) \div 64) * 64 BY <3>3, <3>5
    <3> QED BY ONLY <3>4, <3>6, <3>7, <3>8, <3>9
  <2> QED BY <2>9 DEF next, x
<1>9. CASE (k - 1) % 4 = 3
  <2> DEFINE y == st.byte + x
             p == Append(o, y)
  <2>1. k = 4 * q + 4 /\ k \div 4 = q + 1 /\ k % 4 = 0 BY <1>9 DEF q
  <2>2. st.step = 6 /\ Len(o) = 3 * q + 2 /\ st.byte = (d \div 64) * 64
    BY <1>1, <1>9, SMTT(30) DEF DecodedUpTo, q, o, d
  <2>3. next = [o |-> p, byte |-> st.byte, step |-> 0]
    BY <1>3, <2>2, DecodeLetterIs, ZenonT(30) DEF next, o
  <2>4. x = d % 64 BY <1>4, <2>1 DEF x
  <2>5. y = d BY <1>11, <2>2, <2>4
  <2> HIDE DEF y
  <2>6. y = ByteAt(s, Len(o) + 1)
    <3>1. Len(o) + 1 = 3 * q + 3 BY <1>1, <2>2
    <3> QED BY <2>5, <3>1 DEF d
  <2>7. IsBytes(p, s) /\ Len(p) = Len(o) + 1 BY <1>5, <2>6, NextByte
  <2> HIDE DEF p
  <2>8. next.step = 0 /\ next.o = p BY <2>3
  <2>9. DecodedUpTo(next, s, k) BY <1>1, <1>5, <2>1, <2>2, <2>7, <2>8 DEF DecodedUpTo
  <2> QED BY <2>9 DEF next, x
<1>10. (k - 1) % 4 \in {0, 1, 2, 3} OBVIOUS
<1> QED BY <1>6, <1>7, <1>8, <1>9, <1>10

(* So the loop over all letters leaves the bytes they stand for.            *)
LEMMA DecodedWhole ==
  ASSUME NEW s \in Seq(Bytes), NEW t \in Seq(0..63), \A m \in 1..Len(t) : t[m] = Letter(s, m)
  PROVE  DecodedUpTo(DecodedLetters(t), s, Len(t))
<1> DEFINE n == Len(t)
           r == DecodeRun(t)
           T == {k \in 0..n : DecodedUpTo(r[k], s, k)}
<1>1. n \in Nat /\ 0 \in Int /\ n \in Int BY LenProperties
<1>2. r[0] = [o |-> <<>>, byte |-> 0, step |-> 0] BY DecodeRunIs
<1>3. \A k \in 1..n : r[k - 1] \in DecodeStates /\ r[k] = DecodeLetter(r[k - 1], Letter(s, k))
  BY DecodeRunIs
<1> HIDE DEF r
<1>4. 0 \in T
  <2>1. r[0].step = 0 /\ r[0].o = <<>> BY <1>2
  <2>2. IsBytes(<<>>, s) BY DEF IsBytes
  <2>3. Len(<<>>) = 0 OBVIOUS
  <2>4. 0 \div 4 = 0 /\ 0 % 4 = 0 OBVIOUS
  <2>5. DecodedUpTo(r[0], s, 0) BY <2>1, <2>2, <2>3, <2>4 DEF DecodedUpTo
  <2> QED BY <1>1, <2>5
<1>5. ASSUME NEW k \in (0 + 1)..n, k - 1 \in T PROVE k \in T
  <2>1. k \in 1..n /\ k \in 0..n /\ k \in Nat \ {0} BY <1>1
  <2>2. DecodedUpTo(r[k - 1], s, k - 1) BY <1>5
  <2>3. r[k - 1] \in DecodeStates /\ r[k] = DecodeLetter(r[k - 1], Letter(s, k)) BY <1>3, <2>1
  <2>4. DecodedUpTo(r[k], s, k) BY <2>1, <2>2, <2>3, DecodeOneMore
  <2> QED BY <2>1, <2>4
<1> HIDE DEF T
<1>6. \A k \in 0..n : k \in T BY <1>1, <1>4, <1>5, UpwardInduction
<1>7. n \in T BY <1>1, <1>6
<1>8. DecodedLetters(t) = r[n] BY DecodeRunIs DEF r
<1> QED BY <1>7, <1>8 DEF T

(* The bytes that were written into the zeros of a longer vector.           *)
LEMMA ZerosBehind ==
  ASSUME NEW s \in Seq(Bytes), NEW o, IsBytes(o, s), Len(o) >= Len(s), NEW z \in Nat
  PROVE  IsBytes(o \o Zeros(z), s) /\ Len(o \o Zeros(z)) = Len(o) + z
<1> DEFINE v == Zeros(z)
           w == o \o v
<1>1. o \in Seq(Int) /\ Len(o) \in Nat /\ Len(s) \in Nat BY LenProperties DEF IsBytes
<1>2. v \in Seq(Int) /\ Len(v) = z /\ \A i \in 1..z : v[i] = 0 BY DEF Zeros
<1> HIDE DEF v
<1>3. /\ w \in Seq(Int) /\ Len(w) = Len(o) + Len(v)
      /\ \A i \in 1..(Len(o) + Len(v)) : w[i] = IF i <= Len(o) THEN o[i] ELSE v[i - Len(o)]
  BY <1>1, <1>2, ConcatProperties
<1> HIDE DEF w
<1>4. ASSUME NEW i \in 1..(Len(o) + z) PROVE w[i] = ByteAt(s, i)
  <2>1. w[i] = IF i <= Len(o) THEN o[i] ELSE v[i - Len(o)] BY <1>2, <1>3
  <2>2. CASE i <= Len(o)
    <3>1. i \in 1..Len(o) BY <1>1, <2>2
    <3> QED BY <2>1, <2>2, <3>1 DEF IsBytes
  <2>3. CASE ~(i <= Len(o))
    <3>1. i - Len(o) \in 1..z /\ i \notin 1..Len(s) BY <1>1, <2>3
    <3>2. ByteAt(s, i) = 0 BY <3>1 DEF ByteAt
    <3>3. v[i - Len(o)] = 0 BY <1>2, <3>1
    <3> QED BY <2>1, <2>3, <3>2, <3>3
  <2> QED BY <2>2, <2>3
<1>5. IsBytes(w, s) BY <1>2, <1>3, <1>4 DEF IsBytes
<1>6. Len(w) = Len(o) + z BY <1>2, <1>3
<1> QED BY <1>5, <1>6 DEF w, v

(* A sequence is one over any set that its elements belong to.              *)
LEMMA SeqOfElements ==
  ASSUME NEW S, NEW T, NEW u \in Seq(S), \A m \in 1..Len(u) : u[m] \in T
  PROVE  u \in Seq(T)
<1>1. u \in [1..Len(u) -> S] /\ Len(u) \in Nat BY LenProperties
<1>2. u \in [1..Len(u) -> T] BY <1>1
<1> QED BY <1>1, <1>2, SeqDef

(* For any bytes: base64_encode() writes their bits six at a time, padded   *)
(* with zero bits and '=' to a multiple of four, and base64_decode() of     *)
(* that gives the bytes back, with a zero for each '='.                     *)
THEOREM Base64RoundTrips ==
  ASSUME NEW s \in Seq(Bytes)
  PROVE  Base64RoundTrip(s)
<1> DEFINE n == Len(s)
           u == EncodedText(s)
           e == Base64Encode(s)
           p == Padding(n)
           q == n \div 3
           r == n % 3
           st == DecodedLetters(u)
           v == Decoded(e, <<Stop>>)
           groups == DivCeil(n, 3)
<1>1. n \in Nat /\ q \in Nat /\ r \in {0, 1, 2} /\ n = 3 * q + r BY LenProperties
<1>2. /\ e = u \o Stops(p)
      /\ Len(e) = LetterCount(n) + p
      /\ LetterCount(n) + p = 4 * groups
      /\ p \in 0..2
  BY EncodingIs
<1>3. /\ u \in Seq(Int) /\ Len(u) = LetterCount(n)
      /\ \A m \in 1..Len(u) : u[m] = Letter(s, m)
  BY EncodedTextIs DEF IsLetters
<1>4. u \in Seq(0..63)
  <2>1. \A m \in 1..Len(u) : u[m] \in 0..63
    <3> SUFFICES ASSUME NEW m \in 1..Len(u) PROVE u[m] \in 0..63 OBVIOUS
    <3>1. Letter(s, m) \in 0..63 BY LetterBelow64
    <3> QED BY <1>3, <3>1
  <2> HIDE DEF u
  <2> QED BY <1>3, <2>1, SeqOfElements
<1>5. e = Group(Bits(s, 8), 6) \o Stops(p) BY <1>2, BitsGrouped
<1>6. groups \in Nat /\ 3 * groups = n + p /\ groups = q + (IF r = 0 THEN 0 ELSE 1)
      /\ p = (IF r = 0 THEN 0 ELSE 3 - r)
  BY <1>1 DEF DivCeil, Padding
<1>7. Len(e) = 4 * groups BY <1>2
<1>8. Len(e) % 4 = 0
  <2> HIDE DEF groups, e
  <2> QED BY <1>6, <1>7
<1>9. VectorSize(e) = 3 * groups
  <2>1. VectorSize(e) = DivCeil(6 * (4 * groups), 8) BY <1>7 DEF VectorSize
  <2> HIDE DEF groups, e
  <2>2. (6 * (4 * groups)) \div 8 = 3 * groups /\ (6 * (4 * groups)) % 8 = 0 BY <1>6
  <2> QED BY <1>6, <2>1, <2>2 DEF DivCeil
<1>10. v = st.o \o (IF st.step = 0 THEN <<>> ELSE <<st.byte>>)
  <2>1. p \in Nat BY <1>2
  <2> HIDE DEF p
  <2>2. Scanned(u \o Stops(p), <<Stop>>) = u BY <1>4, <2>1, ScannedText
  <2>3. Scanned(e, <<Stop>>) = u BY <1>2, <2>2
  <2> QED BY <2>3 DEF Decoded
<1>11. DecodedUpTo(st, s, Len(u)) BY <1>3, <1>4, DecodedWhole
<1>12. Len(u) = 4 * q + (IF r = 0 THEN 0 ELSE r + 1) BY <1>3 DEF LetterCount
<1> HIDE DEF groups, e, u, p, q, r, st, v
<1>13. IsBytes(st.o, s) /\ st.o \in Seq(Int) BY <1>11 DEF DecodedUpTo, IsBytes
<1> DEFINE c == Len(u) % 4  g == Len(u) \div 4
<1>22. /\ st.step = 2 * c
       /\ c = 2 => st.byte = (ByteAt(s, 3 * g + 2) \div 16) * 16
       /\ c = 3 => st.byte = (ByteAt(s, 3 * g + 3) \div 64) * 64
       /\ Len(st.o) = 3 * g + (IF c = 0 THEN 0 ELSE c - 1)
  BY <1>11 DEF DecodedUpTo
<1>14. IsBytes(v, s) /\ Len(v) = n + (IF r = 0 THEN 0 ELSE 1)
  <2>0. q \in Nat BY <1>1
  <2>1. CASE r = 0
    <3>1. g = q /\ c = 0 BY <1>1, <1>12, <2>1
    <3>2. st.step = 0 /\ Len(st.o) = 3 * q BY <1>1, <1>22, <3>1
    <3>3. v = st.o BY <1>10, <1>13, <3>2
    <3> QED BY <1>1, <1>13, <2>1, <3>2, <3>3
  <2>2. CASE r = 1
    <3>1. g = q /\ c = 2 BY <1>1, <1>12, <2>2
    <3>2. /\ st.step = 4 /\ Len(st.o) = 3 * q + 1
          /\ st.byte = (ByteAt(s, 3 * q + 2) \div 16) * 16
      <4> HIDE DEF c, g
      <4> QED BY <2>0, <1>22, <3>1
    <3>3. 3 * q + 2 \notin 1..Len(s) /\ Len(st.o) + 1 = 3 * q + 2 /\ Len(st.o) = n
      BY <1>1, <2>2, <3>2
    <3>4. ByteAt(s, 3 * q + 2) = 0 BY <3>3 DEF ByteAt
    <3>5. st.byte = 0 BY <3>2, <3>4
    <3>6. st.byte = ByteAt(s, Len(st.o) + 1) BY <3>3, <3>4, <3>5
    <3>7. v = Append(st.o, st.byte) BY <1>10, <1>13, <3>2, <3>5
    <3>8. IsBytes(v, s) /\ Len(v) = Len(st.o) + 1
      <4> DEFINE o == st.o  x == st.byte
      <4>1. IsBytes(o, s) /\ x = ByteAt(s, Len(o) + 1) BY <1>13, <3>6
      <4>2. v = Append(o, x) BY <3>7
      <4>3. Len(v) = Len(o) + 1 /\ IsBytes(v, s)
        <5> HIDE DEF o, x
        <5> QED BY <4>1, <4>2, NextByte
      <4> QED BY <4>3
    <3> QED BY <2>2, <3>3, <3>8
  <2>3. CASE r = 2
    <3>1. g = q /\ c = 3 BY <1>1, <1>12, <2>3
    <3>2. /\ st.step = 6 /\ Len(st.o) = 3 * q + 2
          /\ st.byte = (ByteAt(s, 3 * q + 3) \div 64) * 64
      <4> HIDE DEF c, g
      <4> QED BY <2>0, <1>22, <3>1
    <3>3. 3 * q + 3 \notin 1..Len(s) /\ Len(st.o) + 1 = 3 * q + 3 /\ Len(st.o) = n
      BY <1>1, <2>3, <3>2
    <3>4. ByteAt(s, 3 * q + 3) = 0 BY <3>3 DEF ByteAt
    <3>5. st.byte = 0 BY <3>2, <3>4
    <3>6. st.byte = ByteAt(s, Len(st.o) + 1) BY <3>3, <3>4, <3>5
    <3>7. v = Append(st.o, st.byte) BY <1>10, <1>13, <3>2, <3>5
    <3>8. IsBytes(v, s) /\ Len(v) = Len(st.o) + 1
      <4> DEFINE o == st.o  x == st.byte
      <4>1. IsBytes(o, s) /\ x = ByteAt(s, Len(o) + 1) BY <1>13, <3>6
      <4>2. v = Append(o, x) BY <3>7
      <4>3. Len(v) = Len(o) + 1 /\ IsBytes(v, s)
        <5> HIDE DEF o, x
        <5> QED BY <4>1, <4>2, NextByte
      <4> QED BY <4>3
    <3> QED BY <2>3, <3>3, <3>8
  <2> QED BY <1>1, <2>1, <2>2, <2>3
<1>15. Len(v) >= n /\ Len(v) <= 3 * groups /\ Len(v) \in Nat BY <1>1, <1>6, <1>14
<1> DEFINE z == 3 * groups - Len(v)
           d == v \o Zeros(z)
           w == s \o Zeros(p)
<1>16. z \in Nat BY <1>6, <1>15
<1> HIDE DEF z
<1>17. IsBytes(d, s) /\ Len(d) = 3 * groups
  <2>1. IsBytes(d, s) /\ Len(d) = Len(v) + z BY <1>14, <1>15, <1>16, ZerosBehind
  <2> QED BY <1>6, <1>15, <2>1 DEF z
<1>18. IsBytes(w, s) /\ Len(w) = n + p
  <2>1. s \in Seq(Int)
    <3>1. \A m \in 1..n : s[m] \in Int
      <4> SUFFICES ASSUME NEW m \in 1..n PROVE s[m] \in Int OBVIOUS
      <4>1. s[m] \in Bytes BY ElementOfSeq
      <4>2. \A x \in Bytes : x \in Int BY DEF Bytes
      <4> QED BY ONLY <4>1, <4>2
    <3> QED BY <3>1, SeqOfElements
  <2>2. IsBytes(s, s) BY <2>1 DEF IsBytes, ByteAt
  <2>3. p \in Nat /\ Len(s) >= Len(s) BY <1>1, <1>2
  <2> QED BY <2>2, <2>3, ZerosBehind
<1> HIDE DEF d, w
<1>19. d = w
  <2>1. d \in Seq(Int) /\ w \in Seq(Int) /\ Len(d) = Len(w) BY <1>6, <1>17, <1>18 DEF IsBytes
  <2>2. \A i \in 1..Len(d) : d[i] = w[i] BY <1>17, <1>18, <2>1 DEF IsBytes
  <2> QED BY <2>1, <2>2, SameElements
<1>20. Base64Decode(e, <<Stop>>) = s \o Zeros(p)
  <2>1. Base64Decode(e, <<Stop>>) = d BY <1>9 DEF Base64Decode, d, z, v
  <2> QED BY <1>19, <2>1 DEF w
<1>21. Len(Decoded(e, <<Stop>>)) <= VectorSize(e) BY <1>9, <1>15 DEF v
<1> QED BY <1>5, <1>8, <1>20, <1>21 DEF Base64RoundTrip, e, p
------------------------------------------------------------------------------
(* The least of a nonempty set of naturals.                                 *)
LEMMA MinIs ==
  ASSUME NEW T, T \subseteq Nat, T # {}
  PROVE  Min(T) \in T /\ \A m \in T : Min(T) <= m
<1>1. \E n \in T : \A m \in T : n <= m BY LeastNatural
<1> QED BY <1>1 DEF Min

(* An element below all others is the least.                                *)
LEMMA MinFrom ==
  ASSUME NEW T, T \subseteq Nat, NEW n \in T, \A m \in T : n <= m
  PROVE  Min(T) = n
<1>1. T # {} OBVIOUS
<1>2. Min(T) \in T /\ Min(T) <= n BY <1>1, MinIs
<1>3. n <= Min(T) BY <1>2
<1>4. n \in Nat /\ Min(T) \in Nat BY <1>2
<1> QED BY <1>2, <1>3, <1>4

(* A part of a sequence.                                                    *)
LEMMA PartIs ==
  ASSUME NEW S, NEW s \in Seq(S), NEW m \in 1..(Len(s) + 1), NEW n \in 0..Len(s), m <= n + 1
  PROVE  /\ SubSeq(s, m, n) \in Seq(S)
         /\ Len(SubSeq(s, m, n)) = (n - m) + 1
         /\ SubSeq(s, m, n) = [i \in 1..((n - m) + 1) |-> s[(i + m) - 1]]
<1> DEFINE t == SubSeq(s, m, n)
           l == (n - m) + 1
<1>1. Len(s) \in Nat /\ m \in Nat /\ n \in Nat /\ l \in Nat BY LenProperties
<1>2. t = [i \in 1..((n - m) + 1) |-> s[(i + m) - 1]] BY <1>1
<1>3. t = [i \in 1..l |-> s[(i + m) - 1]] BY <1>2
<1>4. \A i \in 1..l : t[i] \in S
  <2> SUFFICES ASSUME NEW i \in 1..l PROVE t[i] \in S OBVIOUS
  <2>1. (i + m) - 1 \in 1..Len(s) BY <1>1
  <2>2. t[i] = s[(i + m) - 1] BY <1>3
  <2> QED BY <2>1, <2>2, ElementOfSeq
<1>5. t = [i \in 1..l |-> t[i]] BY <1>3
<1> HIDE DEF t, l
<1>6. t \in [1..l -> S] BY <1>4, <1>5
<1>7. t \in Seq(S) /\ Len(t) = l BY <1>1, <1>4, <1>5
<1> QED BY <1>2, <1>7 DEF t, l

(* What lies in the buffer after the first read.                            *)
Buffer(sent, nread, stale) == SubSeq(sent, 1, nread) \o SubSeq(stale, nread + 1, Size)

(* The buffer: what was read, and what an earlier request left behind it.   *)
LEMMA BufferIs ==
  ASSUME NEW S, NEW sent \in Seq(S), NEW stale \in Seq(S),
         NEW nread \in 0..Size, nread <= Len(sent), nread = Size \/ Len(stale) = Size
  PROVE  /\ Buffer(sent, nread, stale) \in Seq(S)
         /\ Len(Buffer(sent, nread, stale)) = Size
         /\ \A i \in 1..nread : Buffer(sent, nread, stale)[i] = sent[i]
<1> DEFINE u == SubSeq(sent, 1, nread)
           v == SubSeq(stale, nread + 1, Size)
<1>1. Len(sent) \in Nat /\ Len(stale) \in Nat /\ Size \in Nat /\ nread \in Nat
  BY LenProperties, RequestAssumption
<1>2. u \in Seq(S) /\ Len(u) = nread /\ \A i \in 1..nread : u[i] = sent[i]
  <2>1. 1 \in 1..(Len(sent) + 1) /\ nread \in 0..Len(sent) /\ 1 <= nread + 1
        /\ (nread - 1) + 1 = nread
    BY <1>1
  <2>2. u \in Seq(S) /\ Len(u) = (nread - 1) + 1
        /\ u = [i \in 1..((nread - 1) + 1) |-> sent[(i + 1) - 1]]
    BY <2>1, PartIs
  <2> HIDE DEF u
  <2>3. u = [i \in 1..nread |-> sent[(i + 1) - 1]] BY <2>1, <2>2
  <2>4. \A i \in 1..nread : u[i] = sent[i]
    <3> SUFFICES ASSUME NEW i \in 1..nread PROVE u[i] = sent[i] OBVIOUS
    <3>1. (i + 1) - 1 = i OBVIOUS
    <3> QED BY <2>3, <3>1
  <2> QED BY <2>1, <2>2, <2>4
<1>3. v \in Seq(S) /\ Len(v) = Size - nread
  <2>1. CASE nread = Size
    <3>1. v = <<>>
      <4>1. v = [i \in 1..((Size - (nread + 1)) + 1) |-> stale[(i + (nread + 1)) - 1]] BY <1>1
      <4>2. 1..((Size - (nread + 1)) + 1) = {} BY <1>1, <2>1
      <4> QED BY <4>1, <4>2
    <3> QED BY <1>1, <2>1, <3>1
  <2>2. CASE nread # Size
    <3>1. nread + 1 \in 1..(Len(stale) + 1) /\ Size \in 0..Len(stale) /\ nread + 1 <= Size + 1
          /\ (Size - (nread + 1)) + 1 = Size - nread
      BY <1>1, <2>2
    <3>2. v \in Seq(S) /\ Len(v) = (Size - (nread + 1)) + 1 BY <3>1, PartIs
    <3> QED BY <3>1, <3>2
  <2> QED BY <2>1, <2>2
<1> HIDE DEF u, v
<1>4. /\ u \o v \in Seq(S) /\ Len(u \o v) = nread + (Size - nread)
      /\ \A i \in 1..nread : (u \o v)[i] = u[i]
  <2>1. /\ u \o v \in Seq(S) /\ Len(u \o v) = Len(u) + Len(v)
        /\ \A i \in 1..(Len(u) + Len(v)) : (u \o v)[i] = IF i <= Len(u) THEN u[i] ELSE v[i - Len(u)]
    BY <1>2, <1>3, ConcatProperties
  <2>2. ASSUME NEW i \in 1..nread PROVE i \in 1..(Len(u) + Len(v)) /\ i <= Len(u)
    BY <1>1, <1>2, <1>3
  <2> QED BY <1>2, <1>3, <2>1, <2>2
<1>5. nread + (Size - nread) = Size BY <1>1
<1> QED BY <1>2, <1>4, <1>5 DEF Buffer, u, v

(* Two sequences that agree up to n have the same ends of a header there.   *)
LEMMA SameEnds ==
  ASSUME NEW S, NEW b \in Seq(S), NEW c \in Seq(S), NEW n \in 0..Len(b), n <= Len(c),
         \A i \in 1..n : b[i] = c[i]
  PROVE  \A i \in 1..n : i \in HeaderEnds(b) <=> i \in HeaderEnds(c)
<1>1. Len(b) \in Nat /\ Len(c) \in Nat /\ DOMAIN b = 1..Len(b) /\ DOMAIN c = 1..Len(c)
  BY LenProperties
<1> SUFFICES ASSUME NEW i \in 1..n PROVE i \in HeaderEnds(b) <=> i \in HeaderEnds(c) OBVIOUS
<1>2. i \in DOMAIN b /\ i \in DOMAIN c /\ b[i] = c[i] BY <1>1
<1>3. \A j \in 1..(i - 1) : b[j] = c[j] /\ \A k \in (j + 1)..(i - 1) : b[k] = c[k]
  <2> SUFFICES ASSUME NEW j \in 1..(i - 1), NEW k \in (j + 1)..(i - 1)
               PROVE  b[k] = c[k]
    <3>1. \A j \in 1..(i - 1) : j \in 1..n BY <1>1
    <3> QED BY <3>1
  <2>1. k \in 1..n BY <1>1
  <2> QED BY <2>1
<1> QED BY <1>2, <1>3 DEF HeaderEnds

(* A header that ends within what was read ends there in the buffer too.    *)
LEMMA EndsOfPart ==
  ASSUME NEW S, NEW b \in Seq(S), NEW h \in Seq(S), NEW n \in 0..Len(b), Len(h) = n,
         \A i \in 1..n : b[i] = h[i], HeaderEnds(h) # {}
  PROVE  /\ HeaderEnds(b) # {} /\ Min(HeaderEnds(b)) = Min(HeaderEnds(h))
         /\ Min(HeaderEnds(h)) \in 1..n
<1> DEFINE m == Min(HeaderEnds(h))
<1>1. Len(b) \in Nat /\ n \in Nat /\ DOMAIN b = 1..Len(b) /\ DOMAIN h = 1..n BY LenProperties
<1>2. HeaderEnds(h) \subseteq 1..n /\ HeaderEnds(b) \subseteq 1..Len(b) BY <1>1 DEF HeaderEnds
<1>3. \A i \in 1..n : i \in HeaderEnds(b) <=> i \in HeaderEnds(h)
  <2>1. n <= Len(h) BY <1>1
  <2> QED BY <2>1, SameEnds
<1>4. m \in HeaderEnds(h) /\ \A x \in HeaderEnds(h) : m <= x
  <2>1. HeaderEnds(h) \subseteq Nat BY <1>2
  <2> QED BY <2>1, MinIs
<1> HIDE DEF m
<1>5. m \in 1..n /\ m \in HeaderEnds(b) BY <1>2, <1>3, <1>4
<1>6. ASSUME NEW x \in HeaderEnds(b) PROVE m <= x
  <2>1. x \in 1..Len(b) BY <1>2
  <2>2. CASE x <= n
    <3>1. x \in 1..n BY <2>1, <2>2
    <3> QED BY <1>3, <1>4, <3>1
  <2>3. CASE ~(x <= n) BY <1>1, <1>5, <2>1, <2>3
  <2> QED BY <2>2, <2>3
<1>7. Min(HeaderEnds(b)) = m
  <2>1. HeaderEnds(b) \subseteq Nat BY <1>2
  <2> QED BY <1>5, <1>6, <2>1, MinFrom
<1> QED BY <1>5, <1>7 DEF m

Line(method, path, protocol) ==
  [status |-> 200, method |-> method, path |-> path, protocol |-> protocol]

(* A request that is parsed has its line, its header and the end of both.   *)
Parsed(r, end) ==
  \E method, path, protocol, header :
    r = Merged(Line(method, path, protocol),
               [header |-> header, end |-> end])

(* Two records merged have the fields of both, the first one's before the   *)
(* second one's.                                                            *)
LEMMA FieldOf ==
  ASSUME NEW f, NEW g
  PROVE  /\ DOMAIN Merged(f, g) = DOMAIN f \cup DOMAIN g
         /\ \A x \in DOMAIN f : Merged(f, g)[x] = f[x]
         /\ \A x \in DOMAIN g : x \notin DOMAIN f => Merged(f, g)[x] = g[x]
<1>1. Merged(f, g) = [y \in DOMAIN f \cup DOMAIN g |-> IF y \in DOMAIN f THEN f[y] ELSE g[y]]
  BY DEF Merged
<1> QED BY <1>1

(* The fields of a request that was parsed.                                 *)
LEMMA ParsedFields ==
  ASSUME NEW r, NEW end, Parsed(r, end)
  PROVE  /\ r.status = 200 /\ r.end = end
         /\ DOMAIN r = {"status", "method", "path", "protocol", "header", "end"}
<1>1. PICK method, path, protocol, header :
        r = Merged(Line(method, path, protocol),
                   [header |-> header, end |-> end])
  BY DEF Parsed
<1> DEFINE f == Line(method, path, protocol)
           g == [header |-> header, end |-> end]
<1>2. DOMAIN f = {"status", "method", "path", "protocol"} /\ DOMAIN g = {"header", "end"}
  BY DEF Line
<1>3. f.status = 200 /\ g.end = end BY DEF Line
<1>4. r = Merged(f, g) BY <1>1
<1> HIDE DEF f, g
<1>5. DOMAIN r = DOMAIN f \cup DOMAIN g BY <1>4, FieldOf
<1>6. r["status"] = f["status"] BY <1>2, <1>4, FieldOf, ZenonT(30)
<1>7. r["end"] = g["end"]
  <2>1. "end" \in DOMAIN g /\ "end" \notin DOMAIN f BY <1>2
  <2>2. \A x \in DOMAIN g : x \notin DOMAIN f => Merged(f, g)[x] = g[x] BY FieldOf
  <2> QED BY <1>4, <2>1, <2>2
<1> QED BY <1>2, <1>3, <1>5, <1>6, <1>7

(* Adding the body changes nothing else.                                    *)
LEMMA WithDataFields ==
  ASSUME NEW r, NEW end, Parsed(r, end), NEW d
  PROVE  /\ WithData(r, d).data = d
         /\ WithData(r, d).status = 200 /\ WithData(r, d).end = end
         /\ WithData(r, d).method = r.method /\ WithData(r, d).path = r.path
         /\ WithData(r, d).protocol = r.protocol /\ WithData(r, d).header = r.header
<1> DEFINE g == [data |-> d]
           w == Merged(r, g)
<1>1. /\ r.status = 200 /\ r.end = end
      /\ DOMAIN r = {"status", "method", "path", "protocol", "header", "end"}
  BY ParsedFields
<1>2. DOMAIN g = {"data"} /\ g.data = d OBVIOUS
<1>3. w = WithData(r, d) BY DEF WithData
<1> HIDE DEF g
<1>4. w["data"] = g["data"]
  <2>1. "data" \in DOMAIN g /\ "data" \notin DOMAIN r BY <1>1, <1>2
  <2>2. \A x \in DOMAIN g : x \notin DOMAIN r => w[x] = g[x] BY FieldOf
  <2> HIDE DEF w
  <2> QED BY <2>1, <2>2
<1>5. w["status"] = r["status"] /\ w["end"] = r["end"]
      /\ w["method"] = r["method"] /\ w["header"] = r["header"]
      /\ w["path"] = r["path"] /\ w["protocol"] = r["protocol"]
  <2>1. \A x \in DOMAIN r : w[x] = r[x] BY FieldOf
  <2> QED BY <1>1, <2>1
<1> HIDE DEF w
<1> QED BY <1>1, <1>2, <1>3, <1>4, <1>5

(* A request line that is not refused gives a method, a path and a          *)
(* protocol.                                                                *)
LEMMA RequestLineIs ==
  ASSUME NEW line, RequestLine(line).status = 200
  PROVE  \E method, path, protocol : RequestLine(line) = Line(method, path, protocol)
<1> DEFINE result == RequestLine(line)
           m == FindIn(line, SP)
           t == [line EXCEPT ![m] = NUL]
<1>1. Refused(400).status # 200 BY DEF Refused
<1>2. result = PathAndProtocol(t, m) BY <1>1 DEF RequestLine
<1>3. result.status = 200 OBVIOUS
<1> HIDE DEF t, m
<1> DEFINE z == SelectLastInSeq(t, LAMBDA c : c # NUL)
           p == SelectLastInSubSeq(t, 1, z, LAMBDA c : c \in {SP, NUL})
           path == CString([t EXCEPT ![p] = NUL], m + 1)
           method == CString(t, 1)
           protocol == CString(t, p + 1)
<1>4. PathAndProtocol(t, m) =
        IF p = 0 THEN Refused(400)
        ELSE IF t[p] = NUL \/ Head(path \o <<NUL>>) # "/" THEN Refused(400)
        ELSE Line(method, path, protocol)
  BY DEF PathAndProtocol, Line
<1> HIDE DEF p, path, method, protocol, result
<1>5. result = Line(method, path, protocol)
  BY <1>1, <1>2, <1>3, <1>4
<1> QED BY <1>5, Zenon DEF result

(* Parsing ends in a refusal with 400 or in a request.                      *)
LEMMA ParseHeaderIs ==
  ASSUME NEW h
  PROVE  ParseHeader(h) = Refused(400) \/ Parsed(ParseHeader(h), Len(h))
<1> SUFFICES ASSUME ParseHeader(h) # Refused(400) PROVE Parsed(ParseHeader(h), Len(h)) OBVIOUS
<1> DEFINE lines == Lines(h)
           end == Len(h)
           first == RequestLine(lines[1])
           header == [n \in 1..(Len(lines) - 1) |-> Field(lines[n + 1])]
<1>1. ParseHeader(h) = ParseLines(lines, end) BY DEF ParseHeader
<1> HIDE DEF lines, end
<1>2. first.status = 200 /\ ParseLines(lines, end) = Merged(first, [header |-> header, end |-> end])
  BY <1>1 DEF ParseLines
<1>3. \E method, path, protocol :
        first = Line(method, path, protocol)
  <2> DEFINE line == lines[1]
  <2> HIDE DEF line
  <2>1. RequestLine(line).status = 200 BY <1>2 DEF line
  <2>2. \E method, path, protocol :
          RequestLine(line) =
            Line(method, path, protocol)
    BY <2>1, RequestLineIs
  <2> QED BY <2>2 DEF line
<1> HIDE DEF first, header
<1>4. Parsed(ParseLines(lines, end), end)
  <2>1. PICK method, path, protocol :
          first = Line(method, path, protocol)
    BY <1>3
  <2>2. ParseLines(lines, end) =
          Merged(Line(method, path, protocol),
                 [header |-> header, end |-> end])
    BY <1>2, <2>1
  <2> QED BY <2>2, Zenon DEF Parsed
<1> QED BY <1>1, <1>4 DEF end

(* What the buffer holds behind the end of its header has no influence on   *)
(* the parsing.                                                             *)
LEMMA ParseOfBuffer ==
  ASSUME NEW S, NEW b \in Seq(S), NEW h \in Seq(S), NEW n \in 0..Len(b), Len(h) = n,
         \A i \in 1..n : b[i] = h[i], HeaderEnds(h) # {}
  PROVE  Parse(b) = Parse(h)
<1> DEFINE m == Min(HeaderEnds(h))
<1>1. /\ HeaderEnds(b) # {} /\ Min(HeaderEnds(b)) = m /\ m \in 1..n
  BY EndsOfPart
<1> HIDE DEF m
<1>2. Len(b) \in Nat /\ n \in Nat /\ m \in Nat BY <1>1, LenProperties
<1>3. /\ SubSeq(b, 1, m) = [i \in 1..((m - 1) + 1) |-> b[(i + 1) - 1]]
      /\ SubSeq(h, 1, m) = [i \in 1..((m - 1) + 1) |-> h[(i + 1) - 1]]
      /\ Len(SubSeq(h, 1, m)) = (m - 1) + 1
  <2>1. 1 \in 1..(Len(b) + 1) /\ 1 \in 1..(Len(h) + 1) /\ m \in 0..Len(b) /\ m \in 0..Len(h)
        /\ 1 <= m + 1
    BY <1>1, <1>2
  <2> QED BY <2>1, PartIs
<1>4. SubSeq(b, 1, m) = SubSeq(h, 1, m)
  <2>1. \A i \in 1..((m - 1) + 1) : b[(i + 1) - 1] = h[(i + 1) - 1]
    <3> SUFFICES ASSUME NEW i \in 1..((m - 1) + 1) PROVE b[(i + 1) - 1] = h[(i + 1) - 1] OBVIOUS
    <3>1. (i + 1) - 1 \in 1..n BY <1>1, <1>2
    <3> QED BY <3>1
  <2> QED BY <1>3, <2>1
<1> DEFINE g == SubSeq(h, 1, m)
<1>5. Parse(h) = ParseHeader(g) BY DEF Parse, m
<1>6. Parse(b) = ParseHeader(g) BY <1>1, <1>4 DEF Parse
<1> QED BY <1>5, <1>6

(* A buffer in which a header ends is refused with 400 or parsed.           *)
LEMMA ParseIs ==
  ASSUME NEW S, NEW h \in Seq(S), HeaderEnds(h) # {}
  PROVE  Parse(h) = Refused(400) \/ \E e \in 1..Len(h) : Parsed(Parse(h), e)
<1> DEFINE m == Min(HeaderEnds(h))
           g == SubSeq(h, 1, m)
<1>1. Len(h) \in Nat /\ DOMAIN h = 1..Len(h) BY LenProperties
<1>2. HeaderEnds(h) \subseteq 1..Len(h) BY <1>1 DEF HeaderEnds
<1>3. m \in 1..Len(h)
  <2>1. HeaderEnds(h) \subseteq Nat BY <1>1, <1>2
  <2>2. m \in HeaderEnds(h) BY <2>1, MinIs
  <2> QED BY <1>2, <2>2
<1> HIDE DEF m
<1>4. Len(g) = m
  <2>1. 1 \in 1..(Len(h) + 1) /\ m \in 0..Len(h) /\ 1 <= m + 1 /\ (m - 1) + 1 = m
    BY <1>1, <1>3
  <2>2. Len(g) = (m - 1) + 1 BY <2>1, PartIs
  <2> QED BY <2>1, <2>2
<1>5. Parse(h) = ParseHeader(g) BY DEF Parse, m
<1> HIDE DEF g
<1>6. ParseHeader(g) = Refused(400) \/ Parsed(ParseHeader(g), Len(g)) BY ParseHeaderIs
<1> QED BY <1>3, <1>4, <1>5, <1>6

(* Once a header was read whole, what http::request makes of it does not    *)
(* depend on what an earlier request left in the buffer, for texts of any   *)
(* letters.                                                                 *)
THEOREM StaleNeverRead ==
  ASSUME NEW S, NEW sent \in Seq(S), NEW nread \in 0..Size, nread <= Len(sent), NEW short,
         NEW stales \in SUBSET Seq(S), \A s \in stales : Len(s) = Size
  PROVE  StaleIgnored(sent, nread, short, stales)
<1> DEFINE h == SubSeq(sent, 1, nread)
           rest == SubSeq(sent, nread + 1, Len(sent))
<1> SUFFICES ASSUME HeaderEnds(h) # {}, NEW s \in stales, NEW t \in stales
             PROVE  Request(sent, nread, short, s) = Request(sent, nread, short, t)
  BY DEF StaleIgnored
<1>1. Len(sent) \in Nat /\ Size \in Nat /\ nread \in Nat BY LenProperties, RequestAssumption
<1>2. h \in Seq(S) /\ Len(h) = nread /\ \A i \in 1..nread : h[i] = sent[i]
  <2>1. 1 \in 1..(Len(sent) + 1) /\ nread \in 0..Len(sent) /\ 1 <= nread + 1
        /\ (nread - 1) + 1 = nread
    BY <1>1
  <2>2. h \in Seq(S) /\ Len(h) = (nread - 1) + 1
        /\ h = [i \in 1..((nread - 1) + 1) |-> sent[(i + 1) - 1]]
    BY <2>1, PartIs
  <2> HIDE DEF h
  <2>3. h = [i \in 1..nread |-> sent[(i + 1) - 1]] BY <2>1, <2>2
  <2>4. \A i \in 1..nread : h[i] = sent[i]
    <3> SUFFICES ASSUME NEW i \in 1..nread PROVE h[i] = sent[i] OBVIOUS
    <3>1. (i + 1) - 1 = i OBVIOUS
    <3> QED BY <2>3, <3>1
  <2> QED BY <2>1, <2>2, <2>4
<1> HIDE DEF h
<1> DEFINE r == Parse(h)
<1>3. ASSUME NEW u \in stales
      PROVE  /\ Request(sent, nread, short, u)
                  = WithBody(r, Buffer(sent, nread, u), nread, rest, short)
             /\ Buffer(sent, nread, u) \in Seq(S) /\ Len(Buffer(sent, nread, u)) = Size
             /\ \A i \in 1..nread : Buffer(sent, nread, u)[i] = sent[i]
             /\ r = Refused(400) \/ \E e \in 1..nread : Parsed(r, e)
  <2> DEFINE b == Buffer(sent, nread, u)
  <2>1. b \in Seq(S) /\ Len(b) = Size /\ \A i \in 1..nread : b[i] = sent[i]
    <3>1. u \in Seq(S) /\ (nread = Size \/ Len(u) = Size) OBVIOUS
    <3> QED BY <1>1, <3>1, BufferIs
  <2>2. Request(sent, nread, short, u) = WithBody(Parse(b), b, nread, rest, short)
    BY DEF Request, Buffer
  <2> HIDE DEF b
  <2>3. nread \in 0..Len(b) /\ \A i \in 1..nread : b[i] = h[i] BY <1>1, <1>2, <2>1
  <2>4. Parse(b) = r /\ (r = Refused(400) \/ \E e \in 1..nread : Parsed(r, e))
    <3>1. Parse(b) = Parse(h) BY <1>2, <2>1, <2>3, ParseOfBuffer
    <3>2. Parse(h) = Refused(400) \/ \E e \in 1..nread : Parsed(Parse(h), e)
      BY <1>2, ParseIs
    <3> QED BY <3>1, <3>2
  <2> QED BY <2>1, <2>2, <2>4 DEF b
<1> DEFINE b == Buffer(sent, nread, s)
           c == Buffer(sent, nread, t)
<1>4. /\ b \in Seq(S) /\ Len(b) = Size /\ \A i \in 1..nread : b[i] = sent[i]
      /\ c \in Seq(S) /\ Len(c) = Size /\ \A i \in 1..nread : c[i] = sent[i]
  BY <1>3
<1>5. /\ Request(sent, nread, short, s) = WithBody(r, b, nread, rest, short)
      /\ Request(sent, nread, short, t) = WithBody(r, c, nread, rest, short)
      /\ r = Refused(400) \/ \E e \in 1..nread : Parsed(r, e)
  BY <1>3
<1> HIDE DEF b, c, r, rest
<1>6. CASE r = Refused(400)
  <2>1. r.status # 200 BY <1>6 DEF Refused
  <2> QED BY <1>5, <2>1 DEF WithBody
<1>7. CASE \E e \in 1..nread : Parsed(r, e)
  <2>1. PICK e \in 1..nread : Parsed(r, e) BY <1>7
  <2>2. r.status = 200 /\ r.end = e BY <2>1, ParsedFields
  <2>3. SubSeq(b, e + 1, nread) = SubSeq(c, e + 1, nread)
    <3>1. e + 1 \in 1..(Size + 1) /\ nread \in 0..Size /\ e + 1 <= nread + 1 BY <1>1, <2>1
    <3>2. /\ SubSeq(b, e + 1, nread) = [i \in 1..((nread - (e + 1)) + 1) |-> b[(i + (e + 1)) - 1]]
          /\ SubSeq(c, e + 1, nread) = [i \in 1..((nread - (e + 1)) + 1) |-> c[(i + (e + 1)) - 1]]
      BY <1>4, <3>1, PartIs
    <3>3. \A i \in 1..((nread - (e + 1)) + 1) : b[(i + (e + 1)) - 1] = c[(i + (e + 1)) - 1]
      <4> SUFFICES ASSUME NEW i \in 1..((nread - (e + 1)) + 1)
                   PROVE  b[(i + (e + 1)) - 1] = c[(i + (e + 1)) - 1]
        OBVIOUS
      <4>1. (i + (e + 1)) - 1 \in 1..nread BY <1>1, <2>1
      <4> QED BY <1>4, <4>1
    <3> QED BY <3>2, <3>3
  <2>4. WithBody(r, b, nread, rest, short) = WithBody(r, c, nread, rest, short)
    BY <2>2, <2>3 DEF WithBody
  <2> QED BY <1>5, <2>4
<1> QED BY <1>5, <1>6, <1>7

(* atol() gives a number.                                                   *)
LEMMA AtolTyped ==
  ASSUME NEW s
  PROVE  Atol(s) \in Nat
<1>1. \A n \in DOMAIN Numerals : Numerals[n] \in Nat
  <2> SUFFICES ASSUME NEW n \in {"0", "1", "2", "3", "4", "9"}
               PROVE  Numerals[n] \in Nat
    BY DEF Numerals
  <2>1. Numerals[n] = CASE n = "0" -> 0 [] n = "1" -> 1 [] n = "2" -> 2
                        [] n = "3" -> 3 [] n = "4" -> 4 [] n = "9" -> 9
    BY DEF Numerals
  <2> QED BY <2>1
<1>2. CASE s # <<>> /\ s[1] \in DOMAIN Numerals BY <1>1, <1>2 DEF Atol
<1>3. CASE ~(s # <<>> /\ s[1] \in DOMAIN Numerals) BY <1>3 DEF Atol
<1> QED BY <1>2, <1>3

(* The least of three numbers is one of them and not above any.             *)
LEMMA MinOfThree ==
  ASSUME NEW x \in Nat, NEW y \in Nat, NEW z \in Nat
  PROVE  /\ Min({x, y, z}) \in Nat
         /\ Min({x, y, z}) <= x /\ Min({x, y, z}) <= y /\ Min({x, y, z}) <= z
         /\ Min({x, y, z}) \in {x, y, z}
<1> DEFINE T == {x, y, z}
<1>1. T \subseteq Nat /\ T # {} /\ x \in T /\ y \in T /\ z \in T OBVIOUS
<1> HIDE DEF T
<1>2. Min(T) \in T /\ \A m \in T : Min(T) <= m BY <1>1, MinIs
<1>3. Min(T) \in Nat /\ Min(T) <= x /\ Min(T) <= y /\ Min(T) <= z BY <1>1, <1>2
<1> QED BY <1>2, <1>3 DEF T

(* What the second buffer holds: nothing unfilled if the read came whole.   *)
LEMMA OwnBufferIs ==
  ASSUME NEW S, Garbage \notin S, NEW have \in Seq(S), NEW got \in Seq(S), NEW length \in Nat,
         Len(have) + Len(got) <= length
  PROVE  /\ Len(OwnBuffer(have, got, length)) = length
         /\ Garbage \in Range(OwnBuffer(have, got, length)) => Len(have) + Len(got) < length
<1> DEFINE m == length - Len(have) - Len(got)
           fill == [i \in 1..m |-> Garbage]
           u == have \o got
           d == u \o fill
           G == S \cup {Garbage}
<1>1. Len(have) \in Nat /\ Len(got) \in Nat /\ m \in Nat BY LenProperties
<1>2. u \in Seq(S) /\ Len(u) = Len(have) + Len(got) BY ConcatProperties
<1>3. fill \in Seq(G) /\ Len(fill) = m BY <1>1
<1>4. u \in Seq(G) /\ \A i \in 1..Len(u) : u[i] \in S
  <2>1. \A i \in 1..Len(u) : u[i] \in S BY <1>2, ElementOfSeq
  <2>2. u \in [1..Len(u) -> S] /\ Len(u) \in Nat BY <1>2, LenProperties
  <2>3. u \in [1..Len(u) -> G] BY <2>1, <2>2
  <2> QED BY <2>1, <2>2, <2>3, SeqDef
<1>5. d = OwnBuffer(have, got, length) BY DEF OwnBuffer
<1> HIDE DEF u, fill, G
<1>6. /\ d \in Seq(G) /\ Len(d) = Len(u) + Len(fill)
      /\ \A i \in 1..(Len(u) + Len(fill)) : d[i] = IF i <= Len(u) THEN u[i] ELSE fill[i - Len(u)]
  BY <1>3, <1>4, ConcatProperties
<1>7. Len(d) = length
  <2>1. Len(u) + Len(fill) = length BY <1>1, <1>2, <1>3
  <2> QED BY <1>6, <2>1
<1>8. ASSUME Garbage \in Range(d), ~(Len(have) + Len(got) < length) PROVE FALSE
  <2>1. m = 0 /\ Len(u) = length /\ Len(u) \in Nat BY <1>1, <1>2, <1>8
  <2>2. PICK i \in DOMAIN d : d[i] = Garbage BY <1>8 DEF Range
  <2>3. DOMAIN d = 1..length BY <1>6, <1>7, LenProperties
  <2>4. i \in 1..Len(u) /\ i <= Len(u) /\ i \in 1..(Len(u) + Len(fill)) BY <1>3, <2>1, <2>2, <2>3
  <2>5. d[i] = u[i] BY <1>6, <2>4
  <2>6. u[i] \in S BY <1>4, <2>4
  <2> QED BY <2>2, <2>5, <2>6
<1> QED BY <1>5, <1>7, <1>8

(* A request that fills the buffer is refused, or its body is as long as    *)
(* its Content-Length and within the limit, and only a short second read    *)
(* leaves garbage in it.                                                    *)
THEOREM EveryBodyAccounted ==
  ASSUME NEW S, Garbage \notin S, NEW sent \in Seq(S), Size <= Len(sent), NEW short \in Nat
  PROVE  BodyAccounted(sent, short)
<1> DEFINE b == Buffer(sent, Size, <<>>)
           rest == SubSeq(sent, Size + 1, Len(sent))
           r == Parse(b)
           w == Request(sent, Size, short, <<>>)
<1>1. Len(sent) \in Nat /\ Size \in Nat /\ MaxBody \in Nat BY LenProperties, RequestAssumption
<1>2. b \in Seq(S) /\ Len(b) = Size
  <2>1. <<>> \in Seq(S) /\ Size \in 0..Size BY <1>1
  <2> QED BY <2>1, BufferIs
<1>3. rest \in Seq(S) /\ Len(rest) = Len(sent) - Size
  <2>1. Size + 1 \in 1..(Len(sent) + 1) /\ Len(sent) \in 0..Len(sent) /\ Size + 1 <= Len(sent) + 1
        /\ (Len(sent) - (Size + 1)) + 1 = Len(sent) - Size
    BY <1>1
  <2>2. rest \in Seq(S) /\ Len(rest) = (Len(sent) - (Size + 1)) + 1 BY <2>1, PartIs
  <2> QED BY <2>1, <2>2
<1>4. w = WithBody(r, b, Size, rest, short) BY DEF Request, Buffer
<1>5. r = Refused(400) \/ \E e \in 1..Size : Parsed(r, e)
  <2>1. CASE HeaderEnds(b) = {} BY <2>1 DEF Parse
  <2>2. CASE HeaderEnds(b) # {} 
    <3> HIDE DEF b
    <3> QED BY <1>2, <2>2, ParseIs
  <2> QED BY <2>1, <2>2
<1> SUFFICES Accounted(w, sent, short) BY DEF BodyAccounted
<1> HIDE DEF b, rest, r, w
<1>6. ASSUME NEW code \in {400, 411, 413}, w = Refused(code) PROVE Accounted(w, sent, short)
  <2>1. w.status = code BY <1>6 DEF Refused
  <2> QED BY <2>1 DEF Accounted, StatusCodes
<1>7. CASE r = Refused(400)
  <2>1. r.status # 200 BY <1>7 DEF Refused
  <2>2. w = Refused(400) BY <1>4, <1>7, <2>1 DEF WithBody
  <2> QED BY <1>6, <2>2
<1>8. CASE \E e \in 1..Size : Parsed(r, e)
  <2>1. PICK e \in 1..Size : Parsed(r, e) BY <1>8
  <2> DEFINE have == SubSeq(b, e + 1, Size)
             lengths == Values(r.header, <<"Content-Length">>)
             length == Atol(lengths[1])
             asked == length - Len(have)
             k == Min({short, asked, Len(rest)})
             got == SubSeq(rest, 1, k)
             data == IF asked = 0 THEN have ELSE OwnBuffer(have, got, length)
  <2>2. r.status = 200 /\ r.end = e BY <2>1, ParsedFields
  <2>3. have \in Seq(S) /\ Len(have) = Size - e
    <3>1. e + 1 \in 1..(Len(b) + 1) /\ Size \in 0..Len(b) /\ e + 1 <= Size + 1
          /\ (Size - (e + 1)) + 1 = Size - e
      BY <1>1, <1>2, <2>1
    <3>2. have \in Seq(S) /\ Len(have) = (Size - (e + 1)) + 1 BY <1>2, <3>1, PartIs
    <3> QED BY <3>1, <3>2
  <2>4. length \in Nat BY AtolTyped
  <2>5. w = BodyOfFull(r, have, rest, short)
    <3>1. ~(Size < e) /\ ~(Size < Size) BY <1>1, <2>1
    <3> QED BY <1>4, <2>2, <3>1 DEF WithBody
  <2>6. w = IF r.method # <<"POST">> THEN Refused(413)
            ELSE IF Len(lengths) # 1 THEN Refused(411)
            ELSE IF length < Len(have) THEN Refused(413)
            ELSE IF length > MaxBody THEN Refused(413)
            ELSE WithData(r, data)
    BY <2>5 DEF BodyOfFull
  <2> HIDE DEF have, lengths, length, data
  <2>7. CASE /\ r.method = <<"POST">> /\ Len(lengths) = 1
             /\ ~(length < Len(have)) /\ ~(length > MaxBody)
    <3>1. w = WithData(r, data) BY <2>6, <2>7
    <3>2. /\ w.data = data /\ w.status = 200 /\ w.end = e
          /\ w.method = r.method /\ w.header = r.header
      BY <2>1, <3>1, WithDataFields
    <3>3. lengths # <<>>
      <4>1. Len(<<>>) = 0 OBVIOUS
      <4> QED BY <2>7, <4>1
    <3>4. asked \in Nat /\ Len(have) \in Nat /\ Len(rest) \in Nat
      BY <1>1, <1>3, <2>1, <2>3, <2>4, <2>7
    <3>5. Len(data) = length
          /\ (Garbage \in Range(data) => e + length > Size + short \/ e + length > Len(sent))
      <4>1. CASE asked = 0
        <5>1. data = have /\ length = Len(have) BY <2>3, <2>4, <3>4, <4>1 DEF data
        <5>2. Garbage \notin Range(have)
          <6>1. \A i \in 1..Len(have) : have[i] \in S BY <2>3, ElementOfSeq
          <6>2. DOMAIN have = 1..Len(have) BY <2>3, LenProperties
          <6> QED BY <6>1, <6>2 DEF Range
        <5> QED BY <5>1, <5>2
      <4>2. CASE asked # 0
        <5>1. data = OwnBuffer(have, got, length) BY <4>2 DEF data
        <5>2. k \in Nat /\ k <= short /\ k <= asked /\ k <= Len(rest)
              /\ k \in {short, asked, Len(rest)}
          <6> HIDE DEF asked
          <6> QED BY <3>4, MinOfThree
        <5> HIDE DEF k
        <5>3. got \in Seq(S) /\ Len(got) = k
          <6>1. 1 \in 1..(Len(rest) + 1) /\ k \in 0..Len(rest) /\ 1 <= k + 1 /\ (k - 1) + 1 = k
            BY <3>4, <5>2
          <6>2. got \in Seq(S) /\ Len(got) = (k - 1) + 1 BY <1>3, <6>1, PartIs
          <6> QED BY <6>1, <6>2
        <5> HIDE DEF got
        <5>4. Len(have) + Len(got) <= length BY <2>4, <3>4, <5>2, <5>3
        <5>5. Len(data) = length /\ (Garbage \in Range(data) => Len(have) + Len(got) < length)
          BY <2>3, <2>4, <5>1, <5>3, <5>4, OwnBufferIs
        <5>6. Len(have) + k < length => e + length > Size + short \/ e + length > Len(sent)
          <6> SUFFICES ASSUME Len(have) + k < length
                       PROVE  e + length > Size + short \/ e + length > Len(sent)
            OBVIOUS
          <6>1. k # asked BY <2>4, <3>4
          <6>2. CASE k = short BY <1>1, <2>1, <2>3, <2>4, <6>2
          <6>3. CASE k = Len(rest) BY <1>1, <1>3, <2>1, <2>3, <2>4, <6>3
          <6> QED BY <5>2, <6>1, <6>2, <6>3
        <5> QED BY <5>3, <5>5, <5>6
      <4> QED BY <4>1, <4>2
    <3>6. length \in (Size - e)..MaxBody BY <1>1, <2>1, <2>3, <2>4, <2>7
    <3>7. Values(w.header, <<"Content-Length">>) = lengths BY <3>2 DEF lengths
    <3>8. Atol(lengths[1]) = length BY DEF length
    <3> QED BY <2>7, <3>2, <3>3, <3>5, <3>6, <3>7, <3>8 DEF Accounted
  <2>8. CASE ~(/\ r.method = <<"POST">> /\ Len(lengths) = 1
               /\ ~(length < Len(have)) /\ ~(length > MaxBody))
    <3>1. w = Refused(413) \/ w = Refused(411) BY <2>6, <2>8
    <3> QED BY <1>6, <3>1
  <2> QED BY <2>7, <2>8
<1> QED BY <1>5, <1>7, <1>8
------------------------------------------------------------------------------
(* The pieces of a text, and the components of a path.                      *)

(* A function that is computed from the end of an interval to its           *)
(* beginning, its value at a place from the one at a later place.           *)
ComputedBackward(n, S, stops, next, last, step) ==
  \E g \in [1..n -> S] :
    \A i \in 1..n : g[i] = IF i \in stops THEN last[i] ELSE step[<<g[next[i]], i>>]

(* Such a function exists and is the recursive function of the same steps.  *)
LEMMA BackwardExists ==
  ASSUME NEW n \in Nat, NEW S, NEW stops, NEW next, NEW last, NEW step,
         \A i \in 1..n : i \in stops => last[i] \in S,
         \A i \in 1..n : i \notin stops => next[i] \in (i + 1)..n,
         \A i \in 1..n, v \in S : step[<<v, i>>] \in S
  PROVE  ComputedBackward(n, S, stops, next, last, step)
<1> DEFINE Turn1(g, i) == IF i \in stops THEN last[i] ELSE step[<<g[next[i]], i>>]
           Good(g, m) == \A i \in m..n : g[i] \in S /\ g[i] = Turn1(g, i)
           T == {m \in 1..(n + 1) : \E g : g = [i \in 1..n |-> g[i]] /\ Good(g, m)}
<1>1. n + 1 \in Nat OBVIOUS
<1>2. ASSUME NEW m \in 1..(n + 1), \A k \in (m + 1)..(n + 1) : k \in T PROVE m \in T
  <2>1. CASE m = n + 1
    <3> DEFINE g == [i \in 1..n |-> TRUE]
    <3>1. g = [i \in 1..n |-> g[i]] OBVIOUS
    <3>2. Good(g, m) BY <2>1
    <3> QED BY <3>1, <3>2
  <2>2. CASE m # n + 1
    <3>1. m + 1 \in T /\ m \in 1..n BY <1>2, <2>2
    <3>2. PICK g : g = [i \in 1..n |-> g[i]] /\ Good(g, m + 1) BY <3>1
    <3> DEFINE x == Turn1(g, m)
               h == [i \in 1..n |-> IF i = m THEN x ELSE g[i]]
    <3>3. x \in S
      <4>1. CASE m \in stops BY <3>1, <4>1
      <4>2. CASE m \notin stops
        <5>1. next[m] \in (m + 1)..n BY <3>1, <4>2
        <5>2. g[next[m]] \in S BY <5>1, <3>2
        <5>3. step[<<g[next[m]], m>>] \in S BY <5>2, <3>1
        <5> QED BY <4>2, <5>3
      <4> QED BY <4>1, <4>2
    <3>4. ASSUME NEW i \in m..n PROVE h[i] \in S /\ h[i] = Turn1(h, i)
      <4>1. i \in 1..n /\ (i # m => i \in (m + 1)..n) BY <3>1
      <4>2. h[i] = Turn1(g, i) /\ h[i] \in S
        <5>1. CASE i = m
          <6>1. h[i] = x BY <4>1, <5>1
          <6> QED BY <6>1, <3>3, <5>1
        <5>2. CASE i # m
          <6> HIDE DEF x
          <6>1. h[i] = g[i] BY <4>1, <5>2
          <6> QED BY <6>1, <4>1, <5>2, <3>2
        <5> QED BY <5>1, <5>2
      <4>3. i \notin stops => h[next[i]] = g[next[i]]
        <5> SUFFICES ASSUME i \notin stops PROVE h[next[i]] = g[next[i]] OBVIOUS
        <5>1. next[i] \in (i + 1)..n BY <4>1
        <5>2. next[i] \in 1..n /\ next[i] # m BY <4>1, <5>1
        <5> HIDE DEF x
        <5> QED BY <5>2
      <4> HIDE DEF h
      <4> QED BY <4>2, <4>3
    <3>5. h = [i \in 1..n |-> h[i]] OBVIOUS
    <3> HIDE DEF x, h
    <3>6. Good(h, m) BY <3>4
    <3> QED BY <3>5, <3>6
  <2> QED BY <2>1, <2>2
<1>3. 1 \in T
  <2>1. 1 \in 1..(n + 1) BY <1>1
  <2> HIDE DEF T
  <2> QED BY <1>1, <1>2, <2>1, DownwardInduction
<1>4. PICK g : g = [i \in 1..n |-> g[i]] /\ Good(g, 1) BY <1>3
<1>5. g \in [1..n -> S] BY <1>4
<1> QED BY <1>4, <1>5 DEF ComputedBackward

(* A piece ends before the next separator, or at the end of the text.       *)
LEMMA PieceEndIs ==
  ASSUME NEW S, NEW s \in Seq(S), NEW c, NEW i \in 1..(Len(s) + 1)
  PROVE  /\ PieceEnd(s, i, c) \in i..(Len(s) + 1)
         /\ PieceEnd(s, i, c) = Len(s) + 1 \/ s[PieceEnd(s, i, c)] = c
         /\ \A j \in i..Len(s) : s[j] = c => PieceEnd(s, i, c) <= j
<1> DEFINE J == {j \in i..(Len(s) + 1) : j = Len(s) + 1 \/ s[j] = c}
           z == PieceEnd(s, i, c)
<1>1. Len(s) \in Nat /\ i \in Nat BY LenProperties
<1>2. Len(s) + 1 \in J BY <1>1
<1>3. J \subseteq Nat BY <1>1
<1>4. z = Min(J) BY DEF PieceEnd
<1>5. z \in J /\ \A j \in J : z <= j
  <2> HIDE DEF J, z
  <2>1. J # {} BY <1>2
  <2> QED BY <1>3, <1>4, <2>1, MinIs
<1>6. \A j \in i..Len(s) : s[j] = c => j \in J BY <1>1
<1> HIDE DEF z
<1>7. z \in i..(Len(s) + 1) /\ (z = Len(s) + 1 \/ s[z] = c) BY <1>5
<1>8. \A j \in i..Len(s) : s[j] = c => z <= j
  <2> HIDE DEF J
  <2> QED BY <1>5, <1>6
<1> QED BY <1>7, <1>8 DEF z

(* A piece is a part of the text.                                           *)
LEMMA PieceTyped ==
  ASSUME NEW S, NEW s \in Seq(S), NEW c, NEW i \in 1..(Len(s) + 1)
  PROVE  /\ Piece(s, i, c) \in Seq(S)
         /\ Len(Piece(s, i, c)) = PieceEnd(s, i, c) - i
         /\ \A k \in 1..(PieceEnd(s, i, c) - i) : Piece(s, i, c)[k] = s[(k + i) - 1]
<1> DEFINE z == PieceEnd(s, i, c)
           n == z - 1
<1>1. z \in i..(Len(s) + 1) BY PieceEndIs
<1>2. Len(s) \in Nat /\ i \in Nat BY LenProperties
<1> HIDE DEF z
<1>3. n \in 0..Len(s) /\ i <= n + 1 /\ (n - i) + 1 = z - i BY <1>1, <1>2
<1>4. Piece(s, i, c) = SubSeq(s, i, n) BY DEF Piece, z
<1> HIDE DEF n
<1>5. /\ SubSeq(s, i, n) \in Seq(S)
      /\ Len(SubSeq(s, i, n)) = (n - i) + 1
      /\ SubSeq(s, i, n) = [k \in 1..((n - i) + 1) |-> s[(k + i) - 1]]
  BY <1>3, PartIs
<1> QED BY <1>3, <1>4, <1>5 DEF z

(* Where a piece may begin, from position i on. *)
StartsFrom(s, c, i) == {j \in i..(Len(s) + 1) : j = i \/ s[j - 1] = c}

(* The pieces of a text from place i on, as the recursion computes them.    *)
PiecesFrom(r, s, c, i) ==
  r[i] = <<Piece(s, i, c)>> \o
           IF PieceEnd(s, i, c) > Len(s) THEN <<>> ELSE r[PieceEnd(s, i, c) + 1]

LEMMA SplitSteps ==
  ASSUME NEW S, NEW s \in Seq(S), NEW c
  PROVE  \E r : /\ Split(s, c) = r[1]
                /\ \A i \in 1..(Len(s) + 1) : r[i] \in Seq(Seq(S)) /\ PiecesFrom(r, s, c, i)
<1> DEFINE n == Len(s) + 1
           P(i) == Piece(s, i, c)
           E(i) == PieceEnd(s, i, c)
           V == Seq(Seq(S))
           stops == {i \in 1..n : E(i) > Len(s)}
           next == [i \in 1..n |-> E(i) + 1]
           last == [i \in 1..n |-> <<P(i)>>]
           step == [p \in V \X (1..n) |-> <<P(p[2])>> \o p[1]]
           Turned(g, i) == <<P(i)>> \o IF E(i) > Len(s) THEN <<>> ELSE g[E(i) + 1]
           Is(g) == g = [i \in 1..n |-> Turned(g, i)]
           r == CHOOSE g : Is(g)
<1>1. n \in Nat /\ Len(s) \in Nat /\ 1 \in 1..n BY LenProperties
<1>2. \A i \in 1..n : P(i) \in Seq(S) /\ E(i) \in i..n
  BY PieceTyped, PieceEndIs
<1>3. Split(s, c) = r[1] BY DEF Split
<1> HIDE DEF P, E, r
<1>4. \A i \in 1..n : <<P(i)>> \in V /\ Len(<<P(i)>>) = 1 /\ <<P(i)>>[1] = P(i)
  BY <1>2
<1>5. \A i \in 1..n : last[i] \in V BY <1>4
<1>19. ASSUME NEW i \in 1..n, ~(E(i) > Len(s))
      PROVE  E(i) + 1 \in (i + 1)..n /\ E(i) + 1 \in 1..n /\ (E(i) + 1) - 1 = E(i)
  <2>1. PICK z \in i..n : z = E(i) BY <1>2
  <2>2. z \in Int /\ i \in Int /\ 1 <= i /\ i <= z /\ z <= Len(s) BY <2>1, <1>1, <1>19
  <2>3. z + 1 \in (i + 1)..n /\ z + 1 \in 1..n /\ (z + 1) - 1 = z BY <2>2, <1>1
  <2> QED BY <2>1, <2>3
<1>20. \A i \in 1..n : i \notin stops => next[i] = E(i) + 1 OBVIOUS
<1>6. \A i \in 1..n : i \notin stops => next[i] \in (i + 1)..n
  BY <1>19, <1>20
<1>7. \A i \in 1..n, v \in V : step[<<v, i>>] = <<P(i)>> \o v OBVIOUS
<1> HIDE DEF V
<1>8. \A i \in 1..n, v \in V : <<P(i)>> \o v \in V
  BY <1>4, ConcatProperties DEF V
<1>9. \A i \in 1..n, v \in V : step[<<v, i>>] \in V BY <1>7, <1>8
<1>10. \A i \in 1..n : i \in stops <=> E(i) > Len(s) OBVIOUS
<1>11. \A i \in 1..n : last[i] = <<P(i)>> OBVIOUS
<1>12. PICK g \in [1..n -> V] :
        \A i \in 1..n : g[i] = IF i \in stops THEN last[i] ELSE step[<<g[next[i]], i>>]
  <2>1. \A i \in 1..n : i \in stops => last[i] \in V BY <1>5
  <2>2. n \in Nat BY <1>1
  <2> HIDE DEF n, stops, next, last, step
  <2>3. ComputedBackward(n, V, stops, next, last, step)
    BY <2>1, <2>2, <1>6, <1>9, BackwardExists
  <2> QED BY <2>3 DEF ComputedBackward
<1> HIDE DEF stops, next, last, step
<1>13. ASSUME NEW i \in 1..n PROVE g[i] = Turned(g, i)
  <2>1. CASE i \in stops
    <3>1. g[i] = <<P(i)>> BY <1>11, <1>12, <2>1
    <3>2. <<P(i)>> \o <<>> = <<P(i)>> BY <1>4, ConcatProperties DEF V
    <3> QED BY <3>1, <3>2, <1>10, <2>1
  <2>2. CASE i \notin stops
    <3>1. g[i] = step[<<g[next[i]], i>>] BY <1>12, <2>2
    <3>2. next[i] \in 1..n /\ next[i] = E(i) + 1 BY <1>1, <1>6, <1>20, <2>2
    <3>3. g[next[i]] \in V BY <1>12, <3>2
    <3>4. g[i] = <<P(i)>> \o g[next[i]] BY <3>1, <3>3, <1>7
    <3>5. ~(E(i) > Len(s)) BY <1>10, <2>2
    <3> QED BY <3>2, <3>4, <3>5
  <2> QED BY <2>1, <2>2
<1>14. Is(r)
  <2>1. Is(g) BY <1>12, <1>13
  <2> HIDE DEF Is
  <2> QED BY <2>1 DEF r
<1>15. \A i \in 1..n : r[i] = Turned(r, i) BY <1>14
<1> DEFINE T == {i \in 1..n : r[i] \in V}
<1>16. ASSUME NEW i \in 1..n, \A m \in (i + 1)..n : m \in T PROVE i \in T
  <2>1. CASE E(i) > Len(s)
    <3>1. r[i] = <<P(i)>> \o <<>> BY <1>15, <2>1
    <3>2. r[i] = <<P(i)>> BY <1>4, <3>1, ConcatProperties DEF V
    <3> QED BY <3>2, <1>4
  <2>2. CASE ~(E(i) > Len(s))
    <3>1. E(i) + 1 \in (i + 1)..n BY <1>19, <2>2
    <3>2. r[E(i) + 1] \in V BY <3>1, <1>16
    <3>3. r[i] = <<P(i)>> \o r[E(i) + 1] BY <1>15, <2>2
    <3> QED BY <3>2, <3>3, <1>8
  <2> QED BY <2>1, <2>2
<1>17. \A i \in 1..n : i \in T
  <2> HIDE DEF T, n
  <2> QED BY <1>1, <1>16, DownwardInduction
<1>18. \A i \in 1..n : r[i] \in V /\ PiecesFrom(r, s, c, i)
  BY <1>15, <1>17 DEF PiecesFrom, P, E
<1> QED BY <1>3, <1>18 DEF V

(* The pieces are those from every place where one may begin. *)
LEMMA SplitIs ==
  ASSUME NEW S, NEW s \in Seq(S), NEW c
  PROVE  /\ Split(s, c) \in Seq(Seq(S))
         /\ \A k \in 1..Len(Split(s, c)) :
              \E j \in StartsFrom(s, c, 1) : Split(s, c)[k] = Piece(s, j, c)
         /\ \A j \in StartsFrom(s, c, 1) :
              \E k \in 1..Len(Split(s, c)) : Split(s, c)[k] = Piece(s, j, c)
<1>3. PICK r : /\ Split(s, c) = r[1]
               /\ \A i \in 1..(Len(s) + 1) : r[i] \in Seq(Seq(S)) /\ PiecesFrom(r, s, c, i)
  BY SplitSteps
<1> DEFINE n == Len(s) + 1
           P(i) == Piece(s, i, c)
           E(i) == PieceEnd(s, i, c)
           V == Seq(Seq(S))
           Turned(g, i) == <<P(i)>> \o IF E(i) > Len(s) THEN <<>> ELSE g[E(i) + 1]
<1>1. n \in Nat /\ Len(s) \in Nat /\ 1 \in 1..n BY LenProperties
<1>2. \A i \in 1..n : P(i) \in Seq(S) /\ E(i) \in i..n
  BY PieceTyped, PieceEndIs
<1>15. \A i \in 1..n : r[i] = Turned(r, i) BY <1>3 DEF PiecesFrom
<1> HIDE DEF P, E
<1>4. \A i \in 1..n : <<P(i)>> \in V /\ Len(<<P(i)>>) = 1 /\ <<P(i)>>[1] = P(i)
  BY <1>2
<1>19. ASSUME NEW i \in 1..n, ~(E(i) > Len(s))
      PROVE  E(i) + 1 \in (i + 1)..n /\ E(i) + 1 \in 1..n /\ (E(i) + 1) - 1 = E(i)
  <2>1. PICK z \in i..n : z = E(i) BY <1>2
  <2>2. z \in Int /\ i \in Int /\ 1 <= i /\ i <= z /\ z <= Len(s) BY <2>1, <1>1, <1>19
  <2>3. z + 1 \in (i + 1)..n /\ z + 1 \in 1..n /\ (z + 1) - 1 = z BY <2>2, <1>1
  <2> QED BY <2>1, <2>3
<1> HIDE DEF V
<1> DEFINE First1(i) == <<P(i)>>
           Listed(i) == /\ r[i] \in V
                        /\ \A k \in 1..Len(r[i]) : \E j \in StartsFrom(s, c, i) : r[i][k] = P(j)
                        /\ \A j \in StartsFrom(s, c, i) : \E k \in 1..Len(r[i]) : r[i][k] = P(j)
           T == {i \in 1..n : Listed(i)}
<1>16. ASSUME NEW i \in 1..n, \A m \in (i + 1)..n : m \in T PROVE i \in T
  <2>1. i \in StartsFrom(s, c, i) /\ i \in Nat /\ i <= n BY <1>1 DEF StartsFrom
  <2>2. CASE E(i) > Len(s)
    <3>1. r[i] = <<P(i)>> \o <<>> BY <1>15, <2>2
    <3>2. r[i] = <<P(i)>> BY <1>4, <3>1, ConcatProperties DEF V
    <3>3. ASSUME NEW j \in StartsFrom(s, c, i) PROVE j = i
      <4>1. SUFFICES ASSUME j # i PROVE FALSE OBVIOUS
      <4>2. j \in i..n /\ j - 1 \in i..Len(s) /\ s[j - 1] = c BY <1>1, <2>1, <4>1 DEF StartsFrom
      <4>3. E(i) <= j - 1 BY <4>2, PieceEndIs DEF E
      <4> QED BY <4>2, <4>3, <2>2, <1>1, <1>2
    <3>4. Len(r[i]) = 1 /\ r[i][1] = P(i) /\ r[i] \in V BY <3>2, <1>4
    <3>5. \A k \in 1..Len(r[i]) : k = 1 BY <3>4
    <3>6. \A k \in 1..Len(r[i]) : r[i][k] = P(i) BY <3>4, <3>5
    <3>7. 1 \in 1..Len(r[i]) BY <3>4
    <3>8. Listed(i) BY <3>3, <3>4, <3>6, <3>7, <2>1, Zenon
    <3> QED BY <3>8
  <2>3. CASE ~(E(i) > Len(s))
    <3> DEFINE m == E(i) + 1
    <3>1. m \in (i + 1)..n /\ m \in 1..n /\ m - 1 = E(i) BY <1>19, <2>3
    <3>2. r[i] = <<P(i)>> \o r[m] BY <1>15, <2>3
    <3>3. s[E(i)] = c
      <4>1. E(i) \in i..n BY <1>2
      <4>2. E(i) = Len(s) + 1 \/ s[E(i)] = c BY PieceEndIs DEF E
      <4> QED BY <4>1, <4>2, <2>3, <1>1
    <3> HIDE DEF m, T
    <3>4. m \in T BY <3>1, <1>16
    <3>5. Listed(m) BY <3>4 DEF T
    <3>6. r[m] \in V /\ <<P(i)>> \in V BY <3>5, <1>4
    <3>7. /\ r[i] \in V /\ Len(r[i]) = 1 + Len(r[m]) /\ r[i][1] = P(i)
          /\ \A k \in 1..Len(r[m]) : r[i][k + 1] = r[m][k]
      <4> DEFINE a == <<P(i)>>
      <4>1. a \in Seq(Seq(S)) /\ r[m] \in Seq(Seq(S)) /\ Len(a) = 1 /\ a[1] = P(i)
        BY <3>6, <1>4 DEF V
      <4> HIDE DEF a
      <4>2. /\ a \o r[m] \in Seq(Seq(S)) /\ Len(a \o r[m]) = Len(a) + Len(r[m])
            /\ \A k \in 1..(Len(a) + Len(r[m])) :
                 (a \o r[m])[k] = IF k <= Len(a) THEN a[k] ELSE r[m][k - Len(a)]
        BY <4>1, ConcatProperties
      <4>3. r[i] = a \o r[m] BY <3>2 DEF a
      <4>4. Len(r[m]) \in Nat BY <4>1, LenProperties
      <4>5. \A k \in 1..Len(r[m]) : r[i][k + 1] = r[m][k]
        <5> SUFFICES ASSUME NEW k \in 1..Len(r[m]) PROVE r[i][k + 1] = r[m][k] OBVIOUS
        <5>1. k + 1 \in 1..(1 + Len(r[m])) /\ ~(k + 1 <= 1) /\ (k + 1) - 1 = k BY <4>4
        <5> QED BY <5>1, <4>1, <4>2, <4>3
      <4> QED BY <4>1, <4>2, <4>3, <4>4, <4>5, SMTT(30) DEF V
    <3>8. Len(r[m]) \in Nat BY <3>6, LenProperties DEF V
    <3>9. ASSUME NEW k \in 1..Len(r[i]) PROVE \E j \in StartsFrom(s, c, i) : r[i][k] = P(j)
      <4>1. CASE k = 1 BY <4>1, <3>7, <2>1
      <4>2. CASE k # 1
        <5>1. k - 1 \in 1..Len(r[m]) /\ (k - 1) + 1 = k BY <3>7, <3>8, <4>2
        <5>2. r[i][k] = r[m][k - 1] BY <5>1, <3>7
        <5>3. PICK j \in StartsFrom(s, c, m) : r[m][k - 1] = P(j) BY <5>1, <3>5
        <5>4. j \in StartsFrom(s, c, i)
          <6>1. j \in m..n /\ (j = m \/ s[j - 1] = c) BY DEF StartsFrom
          <6>2. j \in i..n BY <6>1, <3>1
          <6>3. s[j - 1] = c BY <6>1, <3>1, <3>3
          <6> QED BY <6>2, <6>3 DEF StartsFrom
        <5> QED BY <5>2, <5>3, <5>4
      <4> QED BY <4>1, <4>2
    <3>10. ASSUME NEW j \in StartsFrom(s, c, i) PROVE \E k \in 1..Len(r[i]) : r[i][k] = P(j)
      <4>1. CASE j = i
        <5>1. 1 \in 1..Len(r[i]) BY <3>7, <3>8
        <5> QED BY <5>1, <4>1, <3>7
      <4>2. CASE j # i
        <5>1. j \in i..n /\ j - 1 \in i..Len(s) /\ s[j - 1] = c BY <1>1, <2>1, <4>2 DEF StartsFrom
        <5>2. E(i) <= j - 1 BY <5>1, PieceEndIs DEF E
        <5>3. j \in m..n BY <5>1, <5>2, <3>1, <1>1
        <5>4. j \in StartsFrom(s, c, m) BY <5>1, <5>3 DEF StartsFrom
        <5>5. PICK k \in 1..Len(r[m]) : r[m][k] = P(j) BY <5>4, <3>5
        <5>6. k + 1 \in 1..Len(r[i]) BY <3>7, <3>8
        <5>7. r[i][k + 1] = P(j) BY <3>7, <5>5
        <5> QED BY <5>6, <5>7
      <4> QED BY <4>1, <4>2
    <3>11. Listed(i) BY <3>7, <3>9, <3>10
    <3> QED BY <3>11 DEF T
  <2> QED BY <2>2, <2>3
<1>17. 1 \in T
  <2> HIDE DEF T, n
  <2> QED BY <1>1, <1>16, DownwardInduction
<1>18. Listed(1) BY <1>17
<1> QED BY <1>3, <1>18 DEF V, P

(* The characters of a path that the check lists, and one more. *)
AnyChars == PathChars \cup {"%"}

(* Where the dots from position i on end in the C string of a path. *)
LEMMA DotsEnd ==
  ASSUME NEW path \in Seq(AnyChars), NEW i \in 1..Len(path)
  PROVE  LET k == Span(C(path), i, {"."})
         IN  /\ k \in i..(Len(path) + 1) /\ \A j \in i..(k - 1) : path[j] = "."
             /\ k = Len(path) + 1 => C(path)[k] = NUL
             /\ k # Len(path) + 1 => C(path)[k] = path[k] /\ path[k] # "."
<1> DEFINE t == C(path)
           n == Len(path)
           J == {j \in i..Len(t) : t[j] \notin {"."}}
           k == Span(t, i, {"."})
<1>1. n \in Nat /\ i \in Nat BY LenProperties
<1>2. /\ Len(t) = n + 1 /\ t[n + 1] = NUL
      /\ \A j \in 1..n : t[j] = path[j]
  BY AppendProperties DEF C
<1>3. k = IF J # {} THEN Min(J) ELSE 0 BY DEF Span, SelectInSubSeq
<1> HIDE DEF t, n, k
<1>4. NUL # "." BY NulAssumption DEF AnyChars, PathChars
<1>5. n + 1 \in J BY <1>1, <1>2, <1>4 DEF n
<1>6. J \subseteq Nat BY <1>1
<1>7. k \in J /\ \A j \in J : k <= j
  <2> HIDE DEF J
  <2>1. J # {} BY <1>5
  <2> QED BY <1>3, <1>6, <2>1, MinIs
<1>8. k \in i..(n + 1) /\ t[k] # "." BY <1>2, <1>7
<1>9. \A j \in i..(k - 1) : path[j] = "."
  <2> SUFFICES ASSUME NEW j \in i..(k - 1), path[j] # "." PROVE FALSE OBVIOUS
  <2>1. j \in 1..n /\ j < k BY <1>1, <1>8
  <2>2. t[j] = path[j] BY <1>2, <2>1
  <2>3. j \in J BY <1>1, <1>2, <2>1, <2>2
  <2> QED BY <2>1, <2>3, <1>7, <1>8, <1>1
<1>10. k = n + 1 => t[k] = NUL BY <1>2
<1>11. k # n + 1 => t[k] = path[k] /\ path[k] # "."
  <2> SUFFICES ASSUME k # n + 1 PROVE t[k] = path[k] /\ path[k] # "." OBVIOUS
  <2>1. k \in 1..n BY <1>1, <1>8 DEF n
  <2> QED BY <2>1, <1>2, <1>8
<1> QED BY <1>8, <1>9, <1>10, <1>11 DEF t, n, k

(* The piece from a place is of dots alone exactly if the dots there are    *)
(* followed by a separator or the end.                                      *)
LEMMA DotsPiece ==
  ASSUME NEW path \in Seq(AnyChars), NEW i \in 1..(Len(path) + 1)
  PROVE  (Piece(path, i, "/") # <<>> /\ Range(Piece(path, i, "/")) = {"."}) <=>
           /\ i <= Len(path) /\ path[i] = "."
           /\ C(path)[Span(C(path), i, {"."})] \in {"/", NUL}
<1> DEFINE n == Len(path)
           z == PieceEnd(path, i, "/")
           p == Piece(path, i, "/")
           k == Span(C(path), i, {"."})
<1>1. n \in Nat /\ i \in Nat /\ 1 <= i /\ i <= n + 1 BY LenProperties
<1>2. /\ z \in i..(n + 1) /\ (z = n + 1 \/ path[z] = "/")
      /\ \A j \in i..n : path[j] = "/" => z <= j
  BY PieceEndIs
<1>3. /\ p \in Seq(AnyChars) /\ Len(p) = z - i
      /\ \A m \in 1..(z - i) : p[m] = path[(m + i) - 1]
  BY PieceTyped
<1>4. i <= n =>
       /\ k \in i..(n + 1) /\ \A j \in i..(k - 1) : path[j] = "."
       /\ k = n + 1 => C(path)[k] = NUL
       /\ k # n + 1 => C(path)[k] = path[k] /\ path[k] # "."
  BY <1>1, DotsEnd
<1>5. \A j \in 1..n : path[j] \in AnyChars BY ElementOfSeq
<1>6. p # <<>> <=> z > i
  <2> HIDE DEF p, z
  <2>1. z - i \in Nat BY <1>1, <1>2
  <2>2. p = <<>> <=> Len(p) = 0 BY <1>3
  <2> QED BY <1>1, <1>2, <1>3, <2>1, <2>2
<1>7. Range(p) = {p[m] : m \in 1..(z - i)}
  <2> HIDE DEF p, z
  <2>1. DOMAIN p = 1..Len(p) BY <1>3, LenProperties
  <2> QED BY <1>3, <2>1 DEF Range
<1> HIDE DEF n, z, p, k
<1>8. \A j \in i..(z - 1) : (j - i) + 1 \in 1..(z - i) /\ p[(j - i) + 1] = path[j]
  <2> SUFFICES ASSUME NEW j \in i..(z - 1)
               PROVE  (j - i) + 1 \in 1..(z - i) /\ p[(j - i) + 1] = path[j]
    OBVIOUS
  <2>1. (j - i) + 1 \in 1..(z - i) /\ (((j - i) + 1) + i) - 1 = j BY <1>1, <1>2
  <2>2. p[(j - i) + 1] = path[(((j - i) + 1) + i) - 1] BY <1>3, <2>1
  <2> QED BY <2>1, <2>2
<1>9. ASSUME z > i, Range(p) = {"."}
      PROVE  i <= n /\ path[i] = "." /\ C(path)[k] \in {"/", NUL}
  <2>1. \A j \in i..(z - 1) : path[j] = "."
    <3> SUFFICES ASSUME NEW j \in i..(z - 1) PROVE path[j] = "." OBVIOUS
    <3>1. path[j] \in Range(p) BY <1>7, <1>8
    <3> QED BY <3>1, <1>9
  <2>2. i \in i..(z - 1) /\ i <= n BY <1>1, <1>2, <1>9
  <2>3. path[i] = "." BY <2>1, <2>2
  <2>4. k >= z
    <3> SUFFICES ASSUME k < z PROVE FALSE BY <1>1, <1>2, <1>4, <2>2
    <3>1. k \in i..(z - 1) /\ k # n + 1 BY <1>1, <1>2, <1>4, <2>2
    <3> QED BY <3>1, <2>1, <2>2, <1>4
  <2>5. CASE z = n + 1
    <3>1. k = n + 1 BY <2>4, <2>5, <1>1, <1>4, <2>2
    <3> QED BY <3>1, <1>4, <2>2, <2>3
  <2>6. CASE z # n + 1
    <3>1. path[z] = "/" BY <1>2, <2>6
    <3>2. ~(k > z)
      <4> SUFFICES ASSUME k > z PROVE FALSE OBVIOUS
      <4>1. z \in i..(k - 1) BY <1>1, <1>2, <1>4, <2>2
      <4>2. path[z] = "." BY <4>1, <1>4, <2>2
      <4> QED BY <4>2, <3>1
    <3>3. k = z BY <3>2, <2>4, <1>1, <1>2, <1>4, <2>2
    <3> QED BY <3>1, <3>3, <2>6, <1>4, <2>2, <2>3
  <2> QED BY <2>5, <2>6
<1>10. ASSUME i <= n, path[i] = ".", C(path)[k] \in {"/", NUL}
       PROVE  z > i /\ Range(p) = {"."}
  <2>1. k = n + 1 \/ path[k] = "/"
    <3> SUFFICES ASSUME k # n + 1 PROVE path[k] = "/" OBVIOUS
    <3>1. C(path)[k] = path[k] /\ k \in 1..n BY <1>1, <1>4, <1>10
    <3>2. path[k] \in AnyChars BY <3>1, <1>5 DEF n
    <3>3. path[k] # NUL BY <3>2, NulAssumption DEF AnyChars
    <3> QED BY <3>1, <3>3, <1>10
  <2>2. k # i
    <3>1. i # n + 1 BY <1>1, <1>10
    <3> QED BY <1>10, <3>1, <1>4
  <2>3. z = k
    <3>1. ~(z < k)
      <4> SUFFICES ASSUME z < k PROVE FALSE OBVIOUS
      <4>1. z \in i..(k - 1) /\ z # n + 1 BY <1>1, <1>2, <1>4, <1>10
      <4>2. path[z] = "." /\ path[z] = "/" BY <4>1, <1>2, <1>4, <1>10
      <4> QED BY <4>2
    <3>2. ~(z > k)
      <4> SUFFICES ASSUME z > k PROVE FALSE OBVIOUS
      <4>1. k \in i..n /\ k # n + 1 BY <1>1, <1>2, <1>4, <1>10
      <4>2. z <= k BY <4>1, <2>1, <1>2 DEF n
      <4> QED BY <4>1, <4>2, <1>1, <1>2
    <3> QED BY <3>1, <3>2, <1>1, <1>2, <1>4, <1>10
  <2>4. z > i BY <2>2, <2>3, <1>1, <1>2
  <2>5. ASSUME NEW m \in 1..(z - i) PROVE p[m] = "."
    <3>1. (m + i) - 1 \in i..(k - 1) BY <1>1, <1>2, <2>3
    <3> QED BY <3>1, <1>3, <1>4, <1>10
  <2>6. 1 \in 1..(z - i) BY <1>1, <1>2, <2>4
  <2> QED BY <1>7, <2>4, <2>5, <2>6
<1> QED BY <1>6, <1>9, <1>10 DEF n, z, p, k

(* The check of a file's path accepts exactly those paths without another   *)
(* character and without a component of dots alone, so none of those it     *)
(* accepts leads out of the directory.                                      *)
LEMMA PathsStayInside ==
  ASSUME NEW path \in Seq(AnyChars)
  PROVE  PathStaysInside(path)
<1> DEFINE n == Len(path)
           parts == Split(path, "/")
           listed == PathChars
           Dots(j) == Piece(path, j, "/") # <<>> /\ Range(Piece(path, j, "/")) = {"."}
           Refused1(j) == /\ j <= n /\ path[j] = "."
                          /\ C(path)[Span(C(path), j, {"."})] \in {"/", NUL}
           starts == StartsFrom(path, "/", 1)
           clean == "%" \notin Range(path)
           tidy == \A k \in DOMAIN parts : parts[k] # <<>> => Range(parts[k]) # {"."}
<1>1. n \in Nat /\ DOMAIN path = 1..n BY LenProperties
<1>2. \A j \in 1..n : path[j] \in AnyChars BY ElementOfSeq
<1>3. starts = {j \in 1..(n + 1) : j = 1 \/ path[j - 1] = "/"}
  BY DEF StartsFrom
<1>4. \A j \in 1..(n + 1) : Dots(j) <=> Refused1(j) BY DotsPiece
<1>5. (\A i \in DOMAIN path : path[i] \in listed) <=> clean
  <2>1. Range(path) = {path[i] : i \in 1..n} BY <1>1 DEF Range
  <2>2. \A i \in 1..n : path[i] \in listed <=> path[i] # "%" BY <1>2 DEF AnyChars, PathChars
  <2> QED BY <1>1, <2>1, <2>2
<1>6. /\ parts \in Seq(Seq(AnyChars))
      /\ \A k \in 1..Len(parts) : \E j \in starts : parts[k] = Piece(path, j, "/")
      /\ \A j \in starts : \E k \in 1..Len(parts) : parts[k] = Piece(path, j, "/")
  BY SplitIs
<1>7. AllowedPath(path) <=>
       /\ \A i \in DOMAIN path : path[i] \in listed
       /\ \A i \in DOMAIN path : path[i] = "." /\ (i = 1 \/ path[i - 1] = "/") =>
            C(path)[Span(C(path), i, {"."})] \notin {"/", NUL}
  BY DEF AllowedPath
<1>8. (\A i \in DOMAIN path : path[i] = "." /\ (i = 1 \/ path[i - 1] = "/") =>
            C(path)[Span(C(path), i, {"."})] \notin {"/", NUL})
       <=> \A j \in starts : ~Refused1(j)
  <2>1. ASSUME NEW j \in 1..(n + 1), Refused1(j) PROVE j \in 1..n
    BY <1>1, <2>1
  <2>2. \A j \in 1..n : j <= n /\ j \in 1..(n + 1) BY <1>1
  <2> HIDE DEF n
  <2> QED BY <1>1, <1>3, <2>1, <2>2
<1>9. DOMAIN parts = 1..Len(parts) /\ Len(parts) \in Nat BY <1>6, LenProperties
<1> HIDE DEF parts, starts
<1>10. tidy <=> \A j \in starts : ~Dots(j)
  <2>1. ASSUME tidy, NEW j \in starts PROVE ~Dots(j)
    <3>1. PICK k \in 1..Len(parts) : parts[k] = Piece(path, j, "/") BY <1>6
    <3> QED BY <3>1, <2>1, <1>9
  <2>2. ASSUME \A j \in starts : ~Dots(j), NEW k \in DOMAIN parts, parts[k] # <<>>
        PROVE  Range(parts[k]) # {"."}
    <3>1. PICK j \in starts : parts[k] = Piece(path, j, "/") BY <1>6, <1>9
    <3> QED BY <3>1, <2>2
  <2> QED BY <2>1, <2>2
<1>11. \A j \in starts : Dots(j) <=> Refused1(j) BY <1>3, <1>4
<1> HIDE DEF Dots, Refused1, listed
<1>12. AllowedPath(path) <=> clean /\ tidy BY <1>5, <1>7, <1>8, <1>10, <1>11
<1> DEFINE up(k) == Cardinality({i \in 1..k : parts[i] = <<".", ".">>})
           down(k) == Cardinality({i \in 1..k : parts[i] \notin {<<>>, <<".">>, <<".", ".">>}})
<1>13. ASSUME tidy, NEW k \in DOMAIN parts PROVE up(k) <= down(k)
  <2>1. k \in Nat /\ 1..k \subseteq DOMAIN parts BY <1>9
  <2>2. ASSUME NEW i \in 1..k, parts[i] = <<".", ".">> PROVE FALSE
    <3>1. Range(<<".", ".">>) = {"."}
      <4>1. DOMAIN <<".", ".">> = 1..2 OBVIOUS
      <4>2. \A x \in 1..2 : <<".", ".">>[x] = "." OBVIOUS
      <4> QED BY <4>1, <4>2 DEF Range
    <3>2. <<".", ".">> # <<>> OBVIOUS
    <3> QED BY <3>1, <3>2, <2>1, <2>2, <1>13
  <2>3. {i \in 1..k : parts[i] = <<".", ".">>} = {} BY <2>2
  <2>4. up(k) = 0 BY <2>3, FS_EmptySet
  <2> DEFINE D == {i \in 1..k : parts[i] \notin {<<>>, <<".">>, <<".", ".">>}}
  <2>5. D \subseteq 1..k OBVIOUS
  <2> HIDE DEF D
  <2>6. IsFiniteSet(1..k) BY <2>1, FS_Interval
  <2>7. Cardinality(D) \in Nat BY <2>5, <2>6, FS_Subset, FS_CardinalityType
  <2>8. down(k) \in Nat BY <2>7 DEF D
  <2> QED BY <2>4, <2>8
<1>14. PathStaysInside(path) <=>
        /\ AllowedPath(path) => \A k \in DOMAIN parts : up(k) <= down(k)
        /\ AllowedPath(path) <=> clean /\ tidy
  BY DEF PathStaysInside, parts
<1> QED BY <1>12, <1>13, <1>14
------------------------------------------------------------------------------
(* The MIME table: turn by turn of the loop over its file, and line by line *)
(* of the reference.                                                        *)

(* strspn() stops at the first place without one of the characters.         *)
LEMMA SpanIs ==
  ASSUME NEW S, NEW s \in Seq(S), NEW B, NEW i \in 1..Len(s), NEW e \in i..Len(s), s[e] \notin B
  PROVE  /\ Span(s, i, B) \in i..e /\ s[Span(s, i, B)] \notin B
         /\ \A j \in i..(Span(s, i, B) - 1) : s[j] \in B
<1> DEFINE J == {j \in i..Len(s) : s[j] \notin B}
           k == Span(s, i, B)
<1>1. Len(s) \in Nat /\ i \in Nat BY LenProperties
<1>2. k = IF J # {} THEN Min(J) ELSE 0 BY DEF Span, SelectInSubSeq
<1>3. e \in J /\ J \subseteq Nat BY <1>1
<1>4. k \in J /\ \A j \in J : k <= j
  <2> HIDE DEF J, k
  <2>1. J # {} BY <1>3
  <2> QED BY <1>2, <1>3, <2>1, MinIs
<1> HIDE DEF k
<1>5. k \in i..e /\ s[k] \notin B BY <1>1, <1>3, <1>4
<1>6. ASSUME NEW j \in i..(k - 1) PROVE s[j] \in B
  <2>1. j \in i..Len(s) /\ ~(k <= j) BY <1>1, <1>5
  <2> QED BY <2>1, <1>4
<1> QED BY <1>5, <1>6 DEF k

LEMMA SpanFrom ==
  ASSUME NEW S, NEW s \in Seq(S), NEW B, NEW i \in 1..Len(s), NEW k \in i..Len(s), s[k] \notin B,
         \A j \in i..(k - 1) : s[j] \in B
  PROVE  Span(s, i, B) = k
<1> DEFINE z == Span(s, i, B)
<1>1. z \in i..k /\ s[z] \notin B BY SpanIs
<1> HIDE DEF z
<1>2. z \in i..(k - 1) => s[z] \in B OBVIOUS
<1>3. z = k BY <1>1, <1>2
<1> QED BY <1>3 DEF z

(* strcspn() stops at the first place with one of them, or at the end.      *)
LEMMA CSpanIs ==
  ASSUME NEW S, NEW s \in Seq(S), NEW B, NEW i \in 1..Len(s), NEW e \in i..Len(s),
         s[e] \in B \cup {NUL}
  PROVE  /\ CSpan(s, i, B) \in i..e /\ s[CSpan(s, i, B)] \in B \cup {NUL}
         /\ \A j \in i..(CSpan(s, i, B) - 1) : s[j] \notin B /\ s[j] # NUL
<1> DEFINE D == B \cup {NUL}
           J == {j \in i..Len(s) : s[j] \in D}
           k == CSpan(s, i, B)
<1>1. Len(s) \in Nat /\ i \in Nat BY LenProperties
<1>2. k = IF J # {} THEN Min(J) ELSE 0 BY DEF CSpan, SelectInSubSeq
<1>3. e \in J /\ J \subseteq Nat BY <1>1
<1>4. k \in J /\ \A j \in J : k <= j
  <2> HIDE DEF J, k
  <2>1. J # {} BY <1>3
  <2> QED BY <1>2, <1>3, <2>1, MinIs
<1> HIDE DEF k
<1>5. k \in i..e /\ s[k] \in D BY <1>1, <1>3, <1>4
<1>6. ASSUME NEW j \in i..(k - 1) PROVE s[j] \notin D
  <2>1. j \in i..Len(s) /\ ~(k <= j) BY <1>1, <1>5
  <2> QED BY <2>1, <1>4
<1> QED BY <1>5, <1>6 DEF k

LEMMA CSpanFrom ==
  ASSUME NEW S, NEW s \in Seq(S), NEW B, NEW i \in 1..Len(s), NEW k \in i..Len(s),
         s[k] \in B \cup {NUL}, \A j \in i..(k - 1) : s[j] \notin B /\ s[j] # NUL
  PROVE  CSpan(s, i, B) = k
<1> DEFINE z == CSpan(s, i, B)
<1>1. z \in i..k /\ s[z] \in B \cup {NUL} BY CSpanIs
<1> HIDE DEF z
<1>2. z \in i..(k - 1) => s[z] \notin B /\ s[z] # NUL OBVIOUS
<1>3. z = k BY <1>1, <1>2
<1> QED BY <1>3 DEF z

(* The last place of a part that has another character than a blank.        *)
LastInk(s, m, n) == SelectLastInSubSeq(s, m, n, LAMBDA x : x \notin Blank)

LEMMA LastInkIs ==
  ASSUME NEW S, NEW s \in Seq(S), NEW m \in Nat, NEW n \in Nat, NEW e \in m..n, s[e] \notin Blank
  PROVE  /\ LastInk(s, m, n) \in e..n /\ s[LastInk(s, m, n)] \notin Blank
         /\ \A j \in (LastInk(s, m, n) + 1)..n : s[j] \in Blank
<1> DEFINE J == {j \in m..n : s[j] \notin Blank}
           k == LastInk(s, m, n)
<1>2. k = IF J # {} THEN Max(J) ELSE 0 BY DEF LastInk, SelectLastInSubSeq
<1>3. e \in J /\ J \subseteq m..n OBVIOUS
<1>4. \E x \in J : \A y \in J : y <= x
  <2> DEFINE T == {n - x : x \in J}
  <2>1. T \subseteq Nat /\ T # {} BY <1>3
  <2> HIDE DEF T
  <2>2. PICK d \in T : \A f \in T : d <= f BY <2>1, LeastNatural
  <2>3. PICK x \in J : d = n - x BY <2>2 DEF T
  <2>4. ASSUME NEW y \in J PROVE y <= x
    <3>1. n - y \in T BY DEF T
    <3>2. n - x <= n - y BY <2>2, <2>3, <3>1
    <3>3. x \in Nat /\ y \in Nat BY <1>3
    <3> QED BY <3>2, <3>3
  <2> QED BY <2>4
<1>5. k \in J /\ \A j \in J : j <= k
  <2> HIDE DEF J, k
  <2>1. J # {} BY <1>3
  <2>2. k = Max(J) BY <2>1, <1>2
  <2>3. Max(J) = CHOOSE x \in J : \A y \in J : x >= y BY DEF Max
  <2>4. \E x \in J : \A y \in J : x >= y
    <3>1. PICK x \in J : \A y \in J : y <= x BY <1>4
    <3>2. \A y \in J : x >= y BY <1>3, <3>1
    <3> QED BY <3>2
  <2>5. Max(J) \in J /\ \A y \in J : Max(J) >= y BY <2>3, <2>4
  <2> QED BY <1>3, <2>2, <2>5
<1> HIDE DEF k
<1>6. k \in e..n /\ s[k] \notin Blank BY <1>3, <1>5
<1>7. ASSUME NEW j \in (k + 1)..n PROVE s[j] \in Blank
  <2>1. j \in m..n /\ ~(j <= k) BY <1>6
  <2> QED BY <2>1, <1>5
<1> QED BY <1>6, <1>7 DEF k

(* A part of a part.                                                        *)
LEMMA PartOfPart ==
  ASSUME NEW S, NEW s \in Seq(S), NEW m \in 1..(Len(s) + 1), NEW n \in 0..Len(s), m <= n + 1,
         NEW a \in m..(n + 1), NEW z \in (m - 1)..n, a <= z + 1
  PROVE  SubSeq(SubSeq(s, m, n), (a - m) + 1, (z - m) + 1) = SubSeq(s, a, z)
<1> DEFINE p == SubSeq(s, m, n)
           x == (a - m) + 1
           y == (z - m) + 1
<1>1. Len(s) \in Nat BY LenProperties
<1>2. /\ p \in Seq(S) /\ Len(p) = (n - m) + 1 /\ p = [i \in 1..((n - m) + 1) |-> s[(i + m) - 1]]
  BY PartIs
<1> HIDE DEF p
<1>3. /\ x \in 1..(Len(p) + 1) /\ y \in 0..Len(p) /\ x <= y + 1 /\ (y - x) + 1 = (z - a) + 1
      /\ a \in 1..(Len(s) + 1) /\ z \in 0..Len(s)
  BY <1>1, <1>2
<1>4. \A i \in 1..((z - a) + 1) :
        /\ (i + x) - 1 \in 1..((n - m) + 1)
        /\ (((i + x) - 1) + m) - 1 = (i + a) - 1
  BY <1>1
<1> HIDE DEF x, y
<1>5. SubSeq(p, x, y) = [i \in 1..((y - x) + 1) |-> p[(i + x) - 1]] BY <1>2, <1>3, PartIs
<1>6. SubSeq(s, a, z) = [i \in 1..((z - a) + 1) |-> s[(i + a) - 1]] BY <1>3, PartIs
<1>7. \A i \in 1..((z - a) + 1) : p[(i + x) - 1] = s[(i + a) - 1] BY <1>2, <1>4
<1>8. SubSeq(p, x, y) = SubSeq(s, a, z) BY <1>3, <1>5, <1>6, <1>7
<1> QED BY <1>8 DEF p, x, y

(* What Trim() leaves of a part of a text: from its first to its last ink.  *)
LEMMA TrimIs ==
  ASSUME NEW S, NEW s \in Seq(S), NEW m \in 1..(Len(s) + 1), NEW n \in 0..Len(s), m <= n + 1,
         NEW a \in m..n, NEW z \in a..n, s[a] \notin Blank, s[z] \notin Blank,
         \A j \in m..(a - 1) : s[j] \in Blank, \A j \in (z + 1)..n : s[j] \in Blank
  PROVE  Trim(SubSeq(s, m, n)) = SubSeq(s, a, z)
<1> DEFINE p == SubSeq(s, m, n)
           ink == {i \in DOMAIN p : p[i] \notin Blank}
           x == (a - m) + 1
           y == (z - m) + 1
<1>1. Len(s) \in Nat BY LenProperties
<1>2. /\ p \in Seq(S) /\ Len(p) = (n - m) + 1 /\ p = [i \in 1..((n - m) + 1) |-> s[(i + m) - 1]]
  BY PartIs
<1>3. DOMAIN p = 1..((n - m) + 1) BY <1>2
<1>4. Trim(p) = IF ink = {} THEN <<>>
                ELSE SubSeq(p, CHOOSE i \in ink : \A j \in ink : i <= j,
                               CHOOSE i \in ink : \A j \in ink : j <= i)
  BY DEF Trim
<1> HIDE DEF p
<1>5. x \in ink /\ y \in ink
  <2>1. x \in 1..((n - m) + 1) /\ (x + m) - 1 = a BY <1>1
  <2>2. y \in 1..((n - m) + 1) /\ (y + m) - 1 = z BY <1>1
  <2>3. p[x] = s[a] /\ p[y] = s[z] BY <1>2, <2>1, <2>2
  <2> QED BY <1>3, <2>1, <2>2, <2>3
<1>6. \A j \in ink : x <= j /\ j <= y /\ j \in Int
  <2> SUFFICES ASSUME NEW j \in ink PROVE x <= j /\ j <= y /\ j \in Int OBVIOUS
  <2>1. j \in 1..((n - m) + 1) /\ s[(j + m) - 1] \notin Blank BY <1>2, <1>3
  <2>2. (j + m) - 1 \notin m..(a - 1) BY <2>1
  <2>3. (j + m) - 1 \notin (z + 1)..n BY <2>1
  <2> QED BY <1>1, <2>1, <2>2, <2>3
<1>7. x \in Int /\ y \in Int BY <1>1
<1> HIDE DEF ink, x, y
<1>8. (CHOOSE i \in ink : \A j \in ink : i <= j) = x
  <2>1. \A i \in ink : (\A j \in ink : i <= j) => i = x BY <1>5, <1>6, <1>7
  <2>2. x \in ink /\ \A j \in ink : x <= j BY <1>5, <1>6
  <2> QED BY <2>1, <2>2
<1>9. (CHOOSE i \in ink : \A j \in ink : j <= i) = y
  <2>1. \A i \in ink : (\A j \in ink : j <= i) => i = y BY <1>5, <1>6, <1>7
  <2>2. y \in ink /\ \A j \in ink : j <= y BY <1>5, <1>6
  <2> QED BY <2>1, <2>2
<1>10. Trim(p) = SubSeq(p, x, y) BY <1>4, <1>5, <1>8, <1>9
<1>11. a \in m..(n + 1) /\ z \in (m - 1)..n /\ a <= z + 1 BY <1>1
<1>12. SubSeq(p, x, y) = SubSeq(s, a, z) BY <1>11, PartOfPart DEF p, x, y
<1> QED BY <1>10, <1>12 DEF p

LEMMA TrimNone ==
  ASSUME NEW S, NEW s \in Seq(S), NEW m \in 1..(Len(s) + 1), NEW n \in 0..Len(s), m <= n + 1,
         \A j \in m..n : s[j] \in Blank
  PROVE  Trim(SubSeq(s, m, n)) = <<>>
<1> DEFINE p == SubSeq(s, m, n)
           ink == {i \in DOMAIN p : p[i] \notin Blank}
<1>1. Len(s) \in Nat BY LenProperties
<1>2. /\ p \in Seq(S) /\ Len(p) = (n - m) + 1 /\ p = [i \in 1..((n - m) + 1) |-> s[(i + m) - 1]]
  BY PartIs
<1>4. Trim(p) = IF ink = {} THEN <<>>
                ELSE SubSeq(p, CHOOSE i \in ink : \A j \in ink : i <= j,
                               CHOOSE i \in ink : \A j \in ink : j <= i)
  BY DEF Trim
<1> HIDE DEF p
<1>5. ASSUME NEW i \in ink PROVE FALSE
  <2>1. i \in 1..((n - m) + 1) /\ s[(i + m) - 1] \notin Blank BY <1>2
  <2>2. (i + m) - 1 \in m..n BY <1>1, <2>1
  <2> QED BY <2>1, <2>2
<1>6. ink = {} BY <1>5
<1> QED BY <1>4, <1>6 DEF p

(* The places that a turn of the loop over the MIME table takes from i on:  *)
(* of the key, its end, the value, its end.                                 *)
White == Blank \cup EndOfLine
InkAt(s, i) == Span(s, i, White)
KeyEnd(s, i) == CSpan(s, InkAt(s, i), White)
ValueAt(s, i) == Span(s, KeyEnd(s, i) + 1, Blank)
ValueEnd(s, i) == 1 + LastInk(s, ValueAt(s, i), CSpan(s, ValueAt(s, i), EndOfLine) - 1)

MimeEntry(s, i) ==
  <<SubSeq(s, InkAt(s, i), KeyEnd(s, i) - 1), SubSeq(s, ValueAt(s, i), ValueEnd(s, i) - 1)>>

MimeTurn(r, s, i) ==
  LET c == CSpan(s, InkAt(s, i) + 1, {LF}) - 1
  IN  IF s[InkAt(s, i)] = NUL THEN <<>>
      ELSE IF s[InkAt(s, i)] = "#" THEN IF c = InkAt(s, i) THEN <<"loops">> ELSE r[c]
      ELSE IF s[KeyEnd(s, i)] \in EndOfLine \cup {NUL} THEN <<"error">>
      ELSE IF s[ValueAt(s, i)] \in EndOfLine \cup {NUL} THEN <<"error">>
      ELSE IF s[ValueEnd(s, i)] = NUL THEN <<>>
      ELSE <<MimeEntry(s, i)>> \o r[ValueEnd(s, i) + 1]

LEMMA MimesAre ==
  ASSUME NEW t
  PROVE  MimesOf(t) = (CHOOSE r : r = [i \in 1..Len(C(t)) |-> MimeTurn(r, C(t), i)])[1]
BY DEF MimesOf, MimeTurn, MimeEntry, InkAt, KeyEnd, ValueAt, ValueEnd, LastInk, White

(* A table without comments whose last line is complete.                    *)
MimeText(S, t) ==
  /\ t \in Seq(S) /\ NUL \notin S
  /\ t # <<>> /\ Last(t) = LF /\ Range(t) \cap {"#", CR} = {}

LEMMA MimeLettersApart ==
  /\ NUL \notin White /\ NUL # "#" /\ LF \notin Blank /\ LF # CR /\ CR \notin Blank
  /\ "#" \notin White /\ EndOfLine = {CR, LF} /\ White = Blank \cup {CR, LF}
BY LetterAssumption, SeparatorAssumption DEF White, Blank, EndOfLine, CR, LF, SP

LEMMA MimeTextIs ==
  ASSUME NEW S, NEW t, MimeText(S, t)
  PROVE  /\ Len(t) \in Nat /\ 1 <= Len(t) /\ t[Len(t)] = LF
         /\ \A j \in 1..Len(t) : t[j] # NUL /\ t[j] # "#" /\ t[j] # CR
         /\ C(t) \in Seq(S \cup {NUL}) /\ Len(C(t)) = Len(t) + 1 /\ C(t)[Len(t) + 1] = NUL
         /\ \A j \in 1..Len(t) : C(t)[j] = t[j]
<1>1. t \in Seq(S) /\ NUL \notin S /\ t # <<>> /\ Last(t) = LF /\ Range(t) \cap {"#", CR} = {}
  BY DEF MimeText
<1>2. Len(t) \in Nat /\ DOMAIN t = 1..Len(t) BY <1>1, LenProperties
<1>3. 1 <= Len(t) /\ t[Len(t)] = LF BY <1>1, <1>2 DEF Last
<1>4. \A j \in 1..Len(t) : t[j] # NUL BY <1>1, ElementOfSeq
<1>5. \A j \in 1..Len(t) : t[j] # "#" /\ t[j] # CR BY <1>1, <1>2 DEF Range
<1>6. t \in Seq(S \cup {NUL})
  <2>1. S \subseteq S \cup {NUL} OBVIOUS
  <2>2. \A j \in 1..Len(t) : t[j] \in S \cup {NUL} BY <1>1, ElementOfSeq
  <2> QED BY <1>1, <2>2, SeqOfElements
<1>7. /\ C(t) \in Seq(S \cup {NUL}) /\ Len(C(t)) = Len(t) + 1 /\ C(t)[Len(t) + 1] = NUL
      /\ \A j \in 1..Len(t) : C(t)[j] = t[j]
  <2>1. NUL \in S \cup {NUL} OBVIOUS
  <2> QED BY <1>6, <2>1, AppendProperties DEF C
<1> QED BY <1>2, <1>3, <1>4, <1>5, <1>7

(* Those places in such a text.                                             *)
InkIs(t, i) ==
  /\ InkAt(C(t), i) \in i..(Len(t) + 1)
  /\ \A j \in i..(InkAt(C(t), i) - 1) : t[j] \in White
  /\ InkAt(C(t), i) = Len(t) + 1 <=> C(t)[InkAt(C(t), i)] = NUL
  /\ InkAt(C(t), i) # Len(t) + 1 => /\ InkAt(C(t), i) \in i..(Len(t) - 1)
                                   /\ t[InkAt(C(t), i)] \notin White

KeyIs(t, i) ==
  /\ KeyEnd(C(t), i) \in (InkAt(C(t), i) + 1)..Len(t)
  /\ t[KeyEnd(C(t), i)] \in White
  /\ \A j \in InkAt(C(t), i)..(KeyEnd(C(t), i) - 1) : t[j] \notin White

ValueStarts(t, i) ==
  /\ KeyEnd(C(t), i) \in 1..(Len(t) - 1)
  /\ ValueAt(C(t), i) \in (KeyEnd(C(t), i) + 1)..Len(t)
  /\ t[ValueAt(C(t), i)] \notin Blank
  /\ \A j \in KeyEnd(C(t), i)..(ValueAt(C(t), i) - 1) : t[j] \in Blank

ValueEnds(t, i, z) ==
  /\ ValueAt(C(t), i) \in 1..(Len(t) - 1)
  /\ ValueEnd(C(t), i) \in (ValueAt(C(t), i) + 1)..z /\ z <= Len(t) /\ t[z] = LF
  /\ t[ValueEnd(C(t), i) - 1] \notin Blank
  /\ \A j \in ValueAt(C(t), i)..(z - 1) : t[j] # LF
  /\ \A j \in ValueEnd(C(t), i)..(z - 1) : t[j] \in Blank

LEMMA MimePlaces ==
  ASSUME NEW S, NEW t, MimeText(S, t), NEW i \in 1..(Len(t) + 1)
  PROVE  /\ InkIs(t, i)
         /\ InkAt(C(t), i) # Len(t) + 1 =>
              /\ KeyIs(t, i)
              /\ t[KeyEnd(C(t), i)] # LF =>
                   /\ ValueStarts(t, i)
                   /\ t[ValueAt(C(t), i)] # LF => \E z \in 1..Len(t) : ValueEnds(t, i, z)
<1> DEFINE s == C(t)
           N == Len(t)
           a == InkAt(s, i)
           b == KeyEnd(s, i)
           v == ValueAt(s, i)
           e == ValueEnd(s, i)
           Z == S \cup {NUL}
<1>1. /\ N \in Nat /\ 1 <= N /\ t[N] = LF
      /\ \A j \in 1..N : t[j] # NUL /\ t[j] # "#" /\ t[j] # CR
      /\ s \in Seq(Z) /\ Len(s) = N + 1 /\ s[N + 1] = NUL
      /\ \A j \in 1..N : s[j] = t[j]
  BY MimeTextIs
<1>2. a = Span(s, i, White) /\ b = CSpan(s, a, White) /\ v = Span(s, b + 1, Blank)
      /\ e = 1 + LastInk(s, v, CSpan(s, v, EndOfLine) - 1)
  BY DEF InkAt, KeyEnd, ValueAt, ValueEnd
<1> HIDE DEF s, N, a, b, v, e, Z
<1>3. /\ NUL \notin White /\ NUL # "#" /\ LF \notin Blank /\ LF # CR /\ CR \notin Blank
      /\ EndOfLine = {CR, LF} /\ White = Blank \cup {CR, LF}
  BY MimeLettersApart
<1>4. a \in i..(N + 1) /\ s[a] \notin White /\ \A j \in i..(a - 1) : s[j] \in White
  <2>1. i \in 1..Len(s) /\ N + 1 \in i..Len(s) /\ s[N + 1] \notin White BY <1>1, <1>3 DEF N
  <2> QED BY <1>1, <1>2, <2>1, SpanIs
<1>5. i \in Nat /\ 1 <= i BY DEF N
<1>6. \A j \in i..(a - 1) : t[j] \in White
  <2> SUFFICES ASSUME NEW j \in i..(a - 1) PROVE t[j] \in White OBVIOUS
  <2>1. j \in 1..N BY <1>1, <1>4, <1>5
  <2> QED BY <1>1, <1>4, <2>1
<1>7. a # N + 1 => a \in i..(N - 1) /\ t[a] \notin White /\ s[a] = t[a] /\ s[a] # NUL
  <2> SUFFICES ASSUME a # N + 1
               PROVE  a \in i..(N - 1) /\ t[a] \notin White /\ s[a] = t[a] /\ s[a] # NUL
    OBVIOUS
  <2>1. a \in 1..N BY <1>1, <1>4, <1>5
  <2>2. s[a] = t[a] /\ t[a] # NUL BY <1>1, <2>1
  <2>3. a # N BY <1>1, <1>3, <1>4, <2>2
  <2> QED BY <1>1, <1>4, <1>5, <2>1, <2>2, <2>3
<1>8. InkIs(t, i) BY <1>1, <1>4, <1>6, <1>7 DEF InkIs, s, N, a
<1>9. ASSUME a # N + 1
      PROVE  /\ b \in (a + 1)..N /\ t[b] \in White
             /\ \A j \in a..(b - 1) : t[j] \notin White
  <2>1. a \in 1..Len(s) /\ N \in a..Len(s) /\ s[N] \in White \cup {NUL}
    BY <1>1, <1>3, <1>5, <1>7, <1>9
  <2>2. b \in a..N /\ s[b] \in White \cup {NUL} /\ \A j \in a..(b - 1) : s[j] \notin White /\ s[j] # NUL
    BY <1>1, <1>2, <2>1, CSpanIs
  <2>3. b \in 1..N /\ s[b] = t[b] /\ t[b] # NUL BY <1>1, <1>5, <2>1, <2>2
  <2>4. b # a BY <1>7, <1>9, <2>2, <2>3
  <2>5. ASSUME NEW j \in a..(b - 1) PROVE t[j] \notin White
    <3>1. j \in 1..N BY <2>1, <2>2, <1>1
    <3> QED BY <1>1, <2>2, <3>1
  <2> QED BY <2>1, <2>2, <2>3, <2>4, <2>5
<1>10. ASSUME a # N + 1, t[b] # LF
       PROVE  /\ b \in 1..(N - 1) /\ v \in (b + 1)..N /\ t[v] \notin Blank
              /\ \A j \in b..(v - 1) : t[j] \in Blank
  <2>1. b \in 1..(N - 1) /\ t[b] \in Blank
    <3>1. b \in 1..N BY <1>1, <1>4, <1>5, <1>9, <1>10
    <3>2. b # N /\ t[b] # CR BY <3>1, <1>1, <1>10
    <3>3. t[b] \in White BY <1>9, <1>10
    <3> QED BY <3>1, <3>2, <3>3, <1>1, <1>3, <1>10
  <2>2. b + 1 \in 1..Len(s) /\ N \in (b + 1)..Len(s) /\ s[N] \notin Blank BY <1>1, <1>3, <2>1
  <2>3. v \in (b + 1)..N /\ s[v] \notin Blank /\ \A j \in (b + 1)..(v - 1) : s[j] \in Blank
    BY <1>1, <1>2, <2>2, SpanIs
  <2>4. v \in 1..N /\ t[v] \notin Blank BY <1>1, <2>1, <2>3
  <2>5. ASSUME NEW j \in b..(v - 1) PROVE t[j] \in Blank
    <3>1. j \in 1..N /\ (j # b => j \in (b + 1)..(v - 1)) BY <1>1, <2>1, <2>3
    <3> QED BY <1>1, <2>1, <2>3, <3>1
  <2> QED BY <2>1, <2>3, <2>4, <2>5
<1>11. ASSUME a # N + 1, t[b] # LF, t[v] # LF PROVE \E z \in 1..N : ValueEnds(t, i, z)
  <2> DEFINE z == CSpan(s, v, EndOfLine)
  <2>1. v \in 1..(N - 1) /\ t[v] \notin Blank
    <3>1. v \in 1..N /\ t[v] \notin Blank BY <1>1, <1>10, <1>11
    <3> QED BY <3>1, <1>1, <1>11
  <2>2. v \in 1..Len(s) /\ N \in v..Len(s) /\ s[N] \in EndOfLine \cup {NUL} BY <1>1, <1>3, <2>1
  <2>3. z \in v..N /\ s[z] \in EndOfLine \cup {NUL}
        /\ \A j \in v..(z - 1) : s[j] \notin EndOfLine /\ s[j] # NUL
    BY <1>1, <2>2, CSpanIs
  <2> HIDE DEF z
  <2>4. z \in 1..N /\ t[z] = LF BY <1>1, <1>3, <2>1, <2>3
  <2>5. \A j \in v..(z - 1) : t[j] # LF
    <3> SUFFICES ASSUME NEW j \in v..(z - 1) PROVE t[j] # LF OBVIOUS
    <3>1. j \in 1..N BY <1>1, <2>1, <2>3
    <3> QED BY <1>1, <1>3, <2>3, <3>1
  <2>6. v # z BY <2>4, <1>11
  <2>7. v \in Nat /\ z - 1 \in Nat /\ v \in v..(z - 1) /\ s[v] \notin Blank
    BY <1>1, <2>1, <2>3, <2>6
  <2> DEFINE k == LastInk(s, v, z - 1)
  <2>8. k \in v..(z - 1) /\ s[k] \notin Blank /\ \A j \in (k + 1)..(z - 1) : s[j] \in Blank
    BY <1>1, <2>7, LastInkIs
  <2> HIDE DEF k
  <2>9. e = k + 1 /\ e - 1 = k BY <1>2, <2>1, <2>8 DEF k, z
  <2>10. e \in (v + 1)..z /\ z <= N /\ t[e - 1] \notin Blank
    <3>1. k \in 1..N BY <1>1, <2>1, <2>3, <2>8
    <3>2. t[k] \notin Blank BY <3>1, <1>1, <2>8
    <3>3. t[e - 1] \notin Blank BY <3>2, <2>9
    <3>4. k + 1 \in (v + 1)..z /\ z <= N BY <2>1, <2>3, <2>8, <1>1
    <3> QED BY <3>3, <3>4, <2>9
  <2>11. \A j \in e..(z - 1) : t[j] \in Blank
    <3> SUFFICES ASSUME NEW j \in e..(z - 1) PROVE t[j] \in Blank OBVIOUS
    <3>1. j \in 1..N /\ j \in (k + 1)..(z - 1) BY <1>1, <2>1, <2>3, <2>8, <2>9
    <3> QED BY <1>1, <2>8, <3>1
  <2>12. ValueEnds(t, i, z) BY <2>1, <2>4, <2>5, <2>10, <2>11 DEF ValueEnds, s, v, e, N
  <2> QED BY <2>4, <2>12
<1>12. a # N + 1 => KeyIs(t, i) BY <1>9 DEF KeyIs, a, b, s, N
<1>13. a # N + 1 /\ t[b] # LF => ValueStarts(t, i) BY <1>10 DEF ValueStarts, b, v, s, N
<1> QED BY <1>8, <1>11, <1>12, <1>13 DEF a, b, v, s, N

(* Only the place of the key counts, so a turn may begin at any white       *)
(* character before it.                                                     *)
LEMMA SameTurn ==
  ASSUME NEW S, NEW t, MimeText(S, t), NEW i \in 1..(Len(t) + 1), NEW k \in i..(Len(t) + 1),
         \A j \in i..(k - 1) : t[j] \in White, NEW r
  PROVE  MimeTurn(r, C(t), i) = MimeTurn(r, C(t), k)
<1> DEFINE s == C(t)
           N == Len(t)
           a == Span(s, k, White)
<1>1. N \in Nat /\ s \in Seq(S \cup {NUL}) /\ Len(s) = N + 1 /\ s[N + 1] = NUL
      /\ \A j \in 1..N : s[j] = t[j]
  BY MimeTextIs
<1>2. NUL \notin White BY MimeLettersApart
<1> HIDE DEF s, N, a
<1>3. k \in 1..Len(s) /\ N + 1 \in k..Len(s) /\ s[N + 1] \notin White /\ i \in 1..Len(s)
  BY <1>1, <1>2 DEF N
<1>4. a \in k..(N + 1) /\ s[a] \notin White /\ \A j \in k..(a - 1) : s[j] \in White
  BY <1>1, <1>3, SpanIs DEF a
<1>5. ASSUME NEW j \in i..(a - 1) PROVE s[j] \in White
  <2>1. CASE j < k
    <3>1. j \in i..(k - 1) /\ j \in 1..N BY <2>1, <1>1, <1>3, <1>4
    <3> QED BY <3>1, <1>1
  <2>2. CASE ~(j < k)
    <3>1. j \in k..(a - 1) BY <2>2, <1>1, <1>3, <1>4
    <3> QED BY <3>1, <1>4
  <2> QED BY <2>1, <2>2
<1>6. a \in i..Len(s) BY <1>1, <1>3, <1>4
<1>7. Span(s, i, White) = a BY <1>1, <1>3, <1>4, <1>5, <1>6, SpanFrom
<1>8. InkAt(s, i) = InkAt(s, k) BY <1>7 DEF InkAt, a
<1>9. KeyEnd(s, i) = KeyEnd(s, k) BY <1>8 DEF KeyEnd
<1>10. ValueAt(s, i) = ValueAt(s, k) BY <1>9 DEF ValueAt
<1>11. ValueEnd(s, i) = ValueEnd(s, k) BY <1>10 DEF ValueEnd
<1>12. MimeEntry(s, i) = MimeEntry(s, k) BY <1>8, <1>9, <1>10, <1>11 DEF MimeEntry
<1>13. MimeTurn(r, s, i) = MimeTurn(r, s, k)
  BY <1>8, <1>9, <1>10, <1>11, <1>12 DEF MimeTurn
<1> QED BY <1>13 DEF s

(* A turn in such a text. *)
LEMMA MimeTurnIs ==
  ASSUME NEW S, NEW t, MimeText(S, t), NEW i \in 1..(Len(t) + 1), NEW r
  PROVE  LET a == InkAt(C(t), i)
             b == KeyEnd(C(t), i)
             v == ValueAt(C(t), i)
             e == ValueEnd(C(t), i)
         IN  /\ a = Len(t) + 1 => MimeTurn(r, C(t), i) = <<>>
             /\ a # Len(t) + 1 /\ t[b] = LF => MimeTurn(r, C(t), i) = <<"error">>
             /\ a # Len(t) + 1 /\ t[b] # LF /\ t[v] = LF => MimeTurn(r, C(t), i) = <<"error">>
             /\ a # Len(t) + 1 /\ t[b] # LF /\ t[v] # LF =>
                  /\ MimeTurn(r, C(t), i) = <<MimeEntry(C(t), i)>> \o r[e + 1]
                  /\ e + 1 \in (i + 1)..(Len(t) + 1)
                  /\ MimeEntry(C(t), i) = <<SubSeq(t, a, b - 1), SubSeq(t, v, e - 1)>>
                  /\ MimeEntry(C(t), i) \in Seq(S) \X Seq(S)
<1> DEFINE s == C(t)
           N == Len(t)
           a == InkAt(s, i)
           b == KeyEnd(s, i)
           v == ValueAt(s, i)
           e == ValueEnd(s, i)
<1>1. /\ N \in Nat /\ 1 <= N /\ t[N] = LF
      /\ \A j \in 1..N : t[j] # NUL /\ t[j] # "#" /\ t[j] # CR
      /\ s \in Seq(S \cup {NUL}) /\ Len(s) = N + 1 /\ s[N + 1] = NUL
      /\ \A j \in 1..N : s[j] = t[j]
  BY MimeTextIs
<1>2. /\ NUL \notin White /\ NUL # "#" /\ LF \notin Blank /\ LF # CR /\ CR \notin Blank
      /\ EndOfLine = {CR, LF} /\ White = Blank \cup {CR, LF}
  BY MimeLettersApart
<1>3. /\ InkIs(t, i)
      /\ a # N + 1 => /\ KeyIs(t, i)
                      /\ t[b] # LF => /\ ValueStarts(t, i)
                                      /\ t[v] # LF => \E z \in 1..N : ValueEnds(t, i, z)
  BY MimePlaces
<1>4. t \in Seq(S) BY DEF MimeText
<1> HIDE DEF s, N, a, b, v, e
<1>5. i \in Nat /\ 1 <= i BY DEF N
<1>6. /\ a \in i..(N + 1) /\ (a = N + 1 <=> s[a] = NUL)
      /\ a # N + 1 => a \in i..(N - 1) /\ t[a] \notin White
  BY <1>3 DEF InkIs, s, N, a
<1>7. CASE a = N + 1
  <2>1. MimeTurn(r, s, i) = <<>> BY <1>6, <1>7 DEF MimeTurn, a
  <2> QED BY <1>7, <2>1 DEF a, s, N
<1>8. CASE a # N + 1
  <2>1. a \in 1..N /\ s[a] # NUL /\ s[a] = t[a] /\ t[a] # "#"
    BY <1>1, <1>5, <1>6, <1>8
  <2>2. b \in (a + 1)..N /\ b \in 1..N /\ s[b] = t[b] /\ t[b] # NUL /\ t[b] # CR
    <3>1. b \in (a + 1)..N BY <1>3, <1>8 DEF KeyIs, a, b, s, N
    <3>2. b \in 1..N BY <3>1, <2>1, <1>1
    <3> QED BY <3>1, <3>2, <1>1
  <2>3. CASE t[b] = LF
    <3>1. s[b] \in EndOfLine \cup {NUL} BY <2>2, <2>3, <1>2
    <3>2. MimeTurn(r, s, i) = <<"error">> BY <2>1, <3>1 DEF MimeTurn, a, b
    <3> QED BY <1>8, <2>3, <3>2 DEF a, b, s, N
  <2>4. CASE t[b] # LF
    <3>1. s[b] \notin EndOfLine \cup {NUL} BY <2>2, <2>4, <1>2
    <3>2. v \in (b + 1)..N /\ t[v] \notin Blank
      BY <1>3, <1>8, <2>4 DEF ValueStarts, b, v, s, N
    <3>3. v \in 1..N BY <3>2, <2>2, <1>1
    <3>4. s[v] = t[v] /\ t[v] # NUL /\ t[v] # CR BY <3>3, <1>1
    <3>5. CASE t[v] = LF
      <4>1. s[v] \in EndOfLine \cup {NUL} BY <3>4, <3>5, <1>2
      <4>2. MimeTurn(r, s, i) = <<"error">> BY <2>1, <3>1, <4>1 DEF MimeTurn, a, b, v
      <4> QED BY <1>8, <2>4, <3>5, <4>2 DEF a, b, v, s, N
    <3>6. CASE t[v] # LF
      <4>1. s[v] \notin EndOfLine \cup {NUL} BY <3>4, <3>6, <1>2
      <4>2. PICK z \in 1..N : ValueEnds(t, i, z) BY <1>3, <1>8, <2>4, <3>6
      <4>3. e \in (v + 1)..z /\ z <= N BY <4>2 DEF ValueEnds, e, v, s, N
      <4>4. e \in 1..N /\ e + 1 \in (i + 1)..(N + 1)
        <5>1. z \in Int /\ v \in Int /\ b \in Int /\ a \in Int /\ e \in Int
          BY <2>1, <2>2, <3>3, <4>2, <4>3
        <5>2. i <= a /\ a < b /\ b < v /\ v < e /\ e <= N BY <1>1, <1>5, <1>6, <2>2, <3>2, <4>3, <5>1
        <5> QED BY <5>1, <5>2, <1>1, <1>5
      <4>5. s[e] # NUL BY <4>4, <1>1
      <4>6. MimeTurn(r, s, i) = <<MimeEntry(s, i)>> \o r[e + 1]
        BY <2>1, <3>1, <4>1, <4>5 DEF MimeTurn, a, b, v, e
      <4>7. ASSUME NEW x \in 1..N, NEW y \in 1..N, x <= y
            PROVE  SubSeq(s, x, y - 1) = SubSeq(t, x, y - 1) /\ SubSeq(t, x, y - 1) \in Seq(S)
        <5> DEFINE w == y - 1
        <5>1. /\ x \in 1..(N + 1) /\ w \in 0..N /\ x <= w + 1
              /\ x \in 1..(Len(s) + 1) /\ w \in 0..Len(s)
          BY <4>7, <1>1
        <5> HIDE DEF w
        <5>2. SubSeq(t, x, w) \in Seq(S) /\ SubSeq(t, x, w) = [k \in 1..((w - x) + 1) |-> t[(k + x) - 1]]
          BY <1>4, <5>1, PartIs DEF N
        <5>3. SubSeq(s, x, w) = [k \in 1..((w - x) + 1) |-> s[(k + x) - 1]]
          BY <1>1, <5>1, PartIs
        <5>4. \A k \in 1..((w - x) + 1) : (k + x) - 1 \in 1..N BY <5>1, <1>1
        <5>5. \A k \in 1..((w - x) + 1) : s[(k + x) - 1] = t[(k + x) - 1] BY <5>4, <1>1
        <5>6. SubSeq(s, x, w) = SubSeq(t, x, w) BY <5>2, <5>3, <5>5
        <5> QED BY <5>2, <5>6 DEF w
      <4>8. a <= b /\ v <= e BY <2>1, <2>2, <3>3, <4>2, <4>3
      <4>9. MimeEntry(s, i) = <<SubSeq(t, a, b - 1), SubSeq(t, v, e - 1)>>
            /\ MimeEntry(s, i) \in Seq(S) \X Seq(S)
        <5>1. SubSeq(s, a, b - 1) = SubSeq(t, a, b - 1) /\ SubSeq(t, a, b - 1) \in Seq(S)
          BY <4>7, <4>8, <2>1, <2>2
        <5>2. SubSeq(s, v, e - 1) = SubSeq(t, v, e - 1) /\ SubSeq(t, v, e - 1) \in Seq(S)
          BY <4>7, <4>8, <3>3, <4>4
        <5>3. MimeEntry(s, i) = <<SubSeq(s, a, b - 1), SubSeq(s, v, e - 1)>>
          BY DEF MimeEntry, a, b, v, e
        <5> DEFINE x == SubSeq(t, a, b - 1)
                   y == SubSeq(t, v, e - 1)
        <5>4. MimeEntry(s, i) = <<x, y>> BY <5>1, <5>2, <5>3
        <5>5. x \in Seq(S) /\ y \in Seq(S) BY <5>1, <5>2
        <5> HIDE DEF x, y
        <5>6. MimeEntry(s, i) \in Seq(S) \X Seq(S) BY <5>4, <5>5
        <5> QED BY <5>4, <5>6 DEF x, y
      <4> QED BY <1>8, <2>4, <3>6, <4>4, <4>6, <4>9 DEF a, b, v, e, s, N
    <3> QED BY <3>5, <3>6
  <2> QED BY <2>3, <2>4
<1> QED BY <1>7, <1>8

(* A turn of the reference: the line from place i on.                       *)
LineAt(t, i) == Trim(Piece(t, i, LF))
KeyLength(line) == CSpan(C(line), 1, Blank) - 1
LineValue(line) == Trim(SubSeq(line, KeyLength(line) + 1, Len(line)))

TableTurn(q, t, i) ==
  IF i > Len(t) THEN <<>>
  ELSE IF LineAt(t, i) = <<>> THEN q[PieceEnd(t, i, LF) + 1]
  ELSE IF LineValue(LineAt(t, i)) = <<>> THEN <<"error">>
  ELSE <<<<SubSeq(LineAt(t, i), 1, KeyLength(LineAt(t, i))), LineValue(LineAt(t, i))>>>>
         \o q[PieceEnd(t, i, LF) + 1]

LEMMA TableIs ==
  ASSUME NEW S, NEW t, MimeText(S, t),
         NEW q, q = (CHOOSE f : f = [i \in 1..(Len(t) + 1) |-> TableTurn(f, t, i)]),
         MimesOf(t) = q[1]
  PROVE  MimesOfLines(t)
BY DEF MimesOfLines, TableTurn, LineAt, KeyLength, LineValue

(* A line from a to y whose key ends before b.                              *)
KeyEndsAt(t, a, y, b) ==
  /\ a \in 1..Len(t) /\ y \in a..Len(t) /\ b \in (a + 1)..(y + 1)
  /\ \A j \in a..y : t[j] # NUL
  /\ \A j \in a..(b - 1) : t[j] \notin Blank
  /\ b = y + 1 \/ t[b] \in Blank

LineOfKey(t, a, y, b, line) ==
  /\ KeyLength(line) = b - a /\ SubSeq(line, 1, b - a) = SubSeq(t, a, b - 1)
  /\ LineValue(line) = Trim(SubSeq(t, b, y)) /\ line # <<>>

LEMMA KeyOfLine ==
  ASSUME NEW S, NEW t \in Seq(S), NEW a, NEW y, NEW b, KeyEndsAt(t, a, y, b)
  PROVE  LineOfKey(t, a, y, b, SubSeq(t, a, y))
<1>0. /\ a \in 1..Len(t) /\ y \in a..Len(t) /\ b \in (a + 1)..(y + 1)
      /\ \A j \in a..y : t[j] # NUL
      /\ \A j \in a..(b - 1) : t[j] \notin Blank
      /\ b = y + 1 \/ t[b] \in Blank
  BY DEF KeyEndsAt
<1> DEFINE line == SubSeq(t, a, y)
           u == C(line)
           l == (y - a) + 1
           k == (b - a) + 1
<1>1. Len(t) \in Nat BY LenProperties
<1>2. /\ line \in Seq(S) /\ Len(line) = l /\ line = [i \in 1..l |-> t[(i + a) - 1]]
  <2>1. a \in 1..(Len(t) + 1) /\ y \in 0..Len(t) /\ a <= y + 1 BY <1>0, <1>1
  <2> QED BY <2>1, PartIs
<1>3. l \in Nat /\ 1 <= l /\ k \in 1..(l + 1) BY <1>0, <1>1
<1> HIDE DEF line
<1>4. /\ line \in Seq(S \cup {NUL})
      /\ u \in Seq(S \cup {NUL}) /\ Len(u) = l + 1 /\ u[l + 1] = NUL
      /\ \A j \in 1..l : u[j] = line[j]
  <2>1. \A j \in 1..Len(line) : line[j] \in S \cup {NUL} BY <1>2, ElementOfSeq
  <2>2. line \in Seq(S \cup {NUL}) BY <1>2, <2>1, SeqOfElements
  <2>3. NUL \in S \cup {NUL} OBVIOUS
  <2>4. /\ u \in Seq(S \cup {NUL}) /\ Len(u) = Len(line) + 1 /\ u[Len(line) + 1] = NUL
        /\ \A j \in 1..Len(line) : u[j] = line[j]
    BY <2>2, <2>3, AppendProperties DEF C
  <2> HIDE DEF l, u
  <2> QED BY <1>2, <2>2, <2>4
<1> HIDE DEF u
<1>5. \A j \in 1..l : (j + a) - 1 \in a..y /\ u[j] = t[(j + a) - 1] BY <1>0, <1>1, <1>2, <1>4
<1>6. CSpan(u, 1, Blank) = k
  <2>1. 1 \in 1..Len(u) /\ k \in 1..Len(u) BY <1>3, <1>4
  <2>2. ASSUME NEW j \in 1..(k - 1) PROVE u[j] \notin Blank /\ u[j] # NUL
    <3>1. j \in 1..l /\ (j + a) - 1 \in a..(b - 1) BY <1>0, <1>1
    <3> QED BY <1>0, <1>5, <3>1
  <2>3. u[k] \in Blank \cup {NUL}
    <3>1. CASE b = y + 1
      <4>1. k = l + 1 BY <3>1, <1>0, <1>1
      <4> QED BY <4>1, <1>4
    <3>2. CASE b # y + 1
      <4>1. k \in 1..l /\ (k + a) - 1 = b BY <3>2, <1>0, <1>1
      <4> QED BY <4>1, <1>0, <1>5, <3>2
    <3> QED BY <3>1, <3>2
  <2> HIDE DEF k, l
  <2> QED BY <1>4, <2>1, <2>2, <2>3, CSpanFrom
<1>7. KeyLength(line) = b - a /\ KeyLength(line) + 1 = k BY <1>0, <1>6, <1>1 DEF KeyLength, u
<1>8. SubSeq(line, 1, b - a) = SubSeq(t, a, b - 1)
  <2>1. /\ a \in 1..(Len(t) + 1) /\ y \in 0..Len(t) /\ a <= y + 1
        /\ a \in a..(y + 1) /\ b - 1 \in (a - 1)..y /\ a <= (b - 1) + 1
        /\ (a - a) + 1 = 1 /\ ((b - 1) - a) + 1 = b - a
    BY <1>0, <1>1
  <2>2. SubSeq(SubSeq(t, a, y), (a - a) + 1, ((b - 1) - a) + 1) = SubSeq(t, a, b - 1)
    BY <1>0, <2>1, PartOfPart
  <2> QED BY <2>1, <2>2 DEF line
<1>9. SubSeq(line, k, l) = SubSeq(t, b, y)
  <2>1. /\ a \in 1..(Len(t) + 1) /\ y \in 0..Len(t) /\ a <= y + 1
        /\ b \in a..(y + 1) /\ y \in (a - 1)..y /\ b <= y + 1
    BY <1>0, <1>1
  <2> QED BY <1>0, <2>1, PartOfPart DEF line
<1>10. LineValue(line) = Trim(SubSeq(t, b, y)) BY <1>2, <1>7, <1>9 DEF LineValue
<1>11. line # <<>>
  <2>1. Len(<<>>) = 0 OBVIOUS
  <2> QED BY <2>1, <1>2, <1>3
<1> QED BY <1>7, <1>8, <1>10, <1>11 DEF line, LineOfKey

(* The line from place i on, by the places that the loop takes.             *)
LEMMA TableTurnIs ==
  ASSUME NEW S, NEW t, MimeText(S, t), NEW i \in 1..Len(t), NEW q
  PROVE  LET a == InkAt(C(t), i)
             b == KeyEnd(C(t), i)
             v == ValueAt(C(t), i)
             e == ValueEnd(C(t), i)
             p == PieceEnd(t, i, LF)
         IN  /\ p \in i..Len(t)
             /\ a > p => TableTurn(q, t, i) = q[p + 1] /\ \A j \in i..p : t[j] \in White
             /\ ~(a > p) =>
                  /\ a # Len(t) + 1
                  /\ t[b] = LF => TableTurn(q, t, i) = <<"error">>
                  /\ t[b] # LF /\ t[v] = LF => TableTurn(q, t, i) = <<"error">>
                  /\ t[b] # LF /\ t[v] # LF =>
                       /\ TableTurn(q, t, i)
                            = <<<<SubSeq(t, a, b - 1), SubSeq(t, v, e - 1)>>>> \o q[p + 1]
                       /\ e \in 1..p /\ \A j \in e..p : t[j] \in White
<1> DEFINE s == C(t)
           N == Len(t)
           a == InkAt(s, i)
           b == KeyEnd(s, i)
           v == ValueAt(s, i)
           e == ValueEnd(s, i)
           p == PieceEnd(t, i, LF)
           line == LineAt(t, i)
<1>1. /\ N \in Nat /\ 1 <= N /\ t[N] = LF
      /\ \A j \in 1..N : t[j] # NUL /\ t[j] # "#" /\ t[j] # CR
  BY MimeTextIs
<1>2. LF \notin Blank /\ White = Blank \cup {CR, LF} BY MimeLettersApart
<1>3. /\ InkIs(t, i)
      /\ a # N + 1 => /\ KeyIs(t, i)
                      /\ t[b] # LF => /\ ValueStarts(t, i)
                                      /\ t[v] # LF => \E z \in 1..N : ValueEnds(t, i, z)
  <2>1. i \in 1..(N + 1) BY <1>1
  <2> QED BY <2>1, MimePlaces
<1>4. t \in Seq(S) BY DEF MimeText
<1>5. p \in i..N /\ t[p] = LF /\ \A j \in i..(p - 1) : t[j] # LF
  <2>1. i \in 1..(N + 1) /\ N \in i..N BY <1>1
  <2>2. /\ p \in i..(N + 1) /\ (p = N + 1 \/ t[p] = LF)
        /\ \A j \in i..N : t[j] = LF => p <= j
    BY <1>4, <2>1, PieceEndIs
  <2> HIDE DEF N, p
  <2>3. p <= N BY <1>1, <2>1, <2>2
  <2>4. p \in i..N /\ t[p] = LF BY <1>1, <2>1, <2>2, <2>3
  <2>5. \A j \in i..(p - 1) : j \in i..N /\ ~(p <= j) BY <1>1, <2>1, <2>4
  <2> QED BY <2>2, <2>4, <2>5
<1>6. Piece(t, i, LF) = SubSeq(t, i, p - 1) BY DEF Piece
<1> HIDE DEF s, N, a, b, v, e, p
<1>7. i \in Nat /\ 1 <= i /\ i <= N BY DEF N
<1>8. /\ i \in 1..(Len(t) + 1) /\ p - 1 \in 0..Len(t) /\ i <= (p - 1) + 1
      /\ p \in 1..N
  BY <1>1, <1>5, <1>7 DEF N
<1>9. /\ a \in i..(N + 1) /\ \A j \in i..(a - 1) : t[j] \in White
      /\ a # N + 1 => a \in i..(N - 1) /\ t[a] \notin White
  BY <1>3 DEF InkIs, s, N, a
<1>10. \A j \in i..(p - 1) : t[j] \in White => t[j] \in Blank
  <2> SUFFICES ASSUME NEW j \in i..(p - 1), t[j] \in White PROVE t[j] \in Blank OBVIOUS
  <2>1. j \in 1..N BY <1>1, <1>5, <1>7
  <2> QED BY <2>1, <1>1, <1>2, <1>5
<1>11. TableTurn(q, t, i) =
         IF line = <<>> THEN q[p + 1]
         ELSE IF LineValue(line) = <<>> THEN <<"error">>
         ELSE <<<<SubSeq(line, 1, KeyLength(line)), LineValue(line)>>>> \o q[p + 1]
  <2>1. ~(i > Len(t)) BY <1>1, <1>7 DEF N
  <2> QED BY <2>1 DEF TableTurn, p
<1>12. line = Trim(SubSeq(t, i, p - 1)) BY <1>6 DEF LineAt
<1> HIDE DEF line
<1>13. CASE a > p
  <2>1. \A j \in i..p : t[j] \in White
    <3> SUFFICES ASSUME NEW j \in i..p PROVE t[j] \in White OBVIOUS
    <3>1. j \in i..(a - 1) BY <1>5, <1>7, <1>9, <1>13, <1>1
    <3> QED BY <3>1, <1>9
  <2>2. \A j \in i..(p - 1) : t[j] \in Blank
    <3>1. \A j \in i..(p - 1) : j \in i..p BY <1>1, <1>5, <1>7
    <3> QED BY <3>1, <2>1, <1>10
  <2> DEFINE n == p - 1
  <2>3. n \in 0..Len(t) /\ i <= n + 1 /\ \A j \in i..n : t[j] \in Blank BY <1>8, <2>2
  <2> HIDE DEF n
  <2>4. Trim(SubSeq(t, i, n)) = <<>> BY <1>4, <1>8, <2>3, TrimNone
  <2>5. line = <<>> BY <1>12, <2>4 DEF n
  <2>6. TableTurn(q, t, i) = q[p + 1] BY <1>11, <2>5
  <2> QED BY <1>5, <1>13, <2>1, <2>6 DEF a, s, p, N
<1>14. CASE ~(a > p)
  <2>1. a # N + 1 /\ a \in i..(p - 1) /\ t[a] \notin White /\ a \in 1..N
    <3>1. a # N + 1 BY <1>1, <1>5, <1>7, <1>9, <1>14
    <3>2. t[a] \notin White BY <3>1, <1>9
    <3>3. a # p BY <3>2, <1>2, <1>5
    <3> QED BY <3>1, <3>2, <3>3, <1>1, <1>5, <1>7, <1>9, <1>14
  <2>2. b \in (a + 1)..N /\ t[b] \in White /\ \A j \in a..(b - 1) : t[j] \notin White
    BY <1>3, <2>1 DEF KeyIs, a, b, s, N
  <2>3. b \in (a + 1)..p
    <3>1. p \in a..(b - 1) => t[p] \notin White BY <2>2
    <3> QED BY <3>1, <1>1, <1>2, <1>5, <1>7, <2>1, <2>2
  (* The line is from a to y. *)
  <2>4. ASSUME NEW y \in (b - 1)..(p - 1), t[y] \notin Blank, \A j \in (y + 1)..(p - 1) : t[j] \in Blank,
               b = y + 1 \/ t[b] \in Blank
        PROVE  /\ line # <<>>
               /\ LineValue(line) = Trim(SubSeq(t, b, y))
               /\ SubSeq(line, 1, KeyLength(line)) = SubSeq(t, a, b - 1)
    <3> DEFINE n == p - 1
    <3>1. /\ n \in 0..Len(t) /\ i <= n + 1 /\ a \in i..n /\ y \in a..n /\ y \in 1..N
          /\ b \in (a + 1)..(y + 1) /\ a \in 1..Len(t) /\ y \in a..Len(t)
      BY <1>1, <1>7, <1>8, <2>1, <2>3 DEF N
    <3>2. \A j \in i..(a - 1) : t[j] \in Blank
      <4>1. \A j \in i..(a - 1) : j \in i..(p - 1) BY <1>1, <1>5, <1>7, <2>1
      <4> QED BY <4>1, <1>9, <1>10
    <3>3. t[a] \notin Blank BY <2>1, <1>2
    <3>4. \A j \in (y + 1)..n : t[j] \in Blank BY <2>4
    <3> HIDE DEF n
    <3>5. Trim(SubSeq(t, i, n)) = SubSeq(t, a, y)
      <4>1. i \in 1..(Len(t) + 1) /\ n \in 0..Len(t) /\ i <= n + 1 /\ a \in i..n /\ y \in a..n
        BY <1>8, <3>1
      <4>2. t[y] \notin Blank BY <2>4
      <4> QED BY <1>4, <4>1, <4>2, <3>2, <3>3, <3>4, TrimIs
    <3>6. line = SubSeq(t, a, y) BY <1>12, <3>5 DEF n
    <3>7. \A j \in a..y : t[j] # NUL
      <4>1. \A j \in a..y : j \in 1..N BY <1>1, <2>1, <3>1
      <4> QED BY <4>1, <1>1
    <3>8. \A j \in a..(b - 1) : t[j] \notin Blank BY <2>2, <1>2
    <3> DEFINE w == SubSeq(t, a, y)
    <3>9. KeyEndsAt(t, a, y, b) BY <2>4, <3>1, <3>7, <3>8 DEF KeyEndsAt
    <3>10. LineOfKey(t, a, y, b, w) BY <1>4, <3>9, KeyOfLine
    <3>11. /\ KeyLength(w) = b - a /\ SubSeq(w, 1, b - a) = SubSeq(t, a, b - 1)
           /\ LineValue(w) = Trim(SubSeq(t, b, y)) /\ w # <<>>
      BY <3>10 DEF LineOfKey
    <3> QED BY <3>6, <3>11
  <2>5. ASSUME \A j \in b..(p - 1) : t[j] \in Blank PROVE TableTurn(q, t, i) = <<"error">>
    <3> DEFINE y == b - 1
    <3>1. y \in (b - 1)..(p - 1) /\ y + 1 = b /\ y \in a..(b - 1) BY <1>1, <1>5, <1>7, <2>1, <2>3
    <3>2. t[y] \notin Blank BY <2>2, <3>1, <1>2
    <3>3. \A j \in (y + 1)..(p - 1) : t[j] \in Blank BY <2>5, <3>1
    <3> HIDE DEF y
    <3>4. line # <<>> /\ LineValue(line) = Trim(SubSeq(t, b, y))
      BY <2>4, <3>1, <3>2, <3>3
    <3>5. Trim(SubSeq(t, b, y)) = <<>>
      <4>1. b \in 1..(Len(t) + 1) /\ y \in 0..Len(t) /\ b <= y + 1
        BY <1>1, <1>8, <2>1, <2>3, <3>1 DEF N
      <4>2. \A j \in b..y : t[j] \in Blank
        <5>1. \A j \in b..y : FALSE BY <3>1, <2>1, <2>3
        <5> QED BY <5>1
      <4> QED BY <1>4, <4>1, <4>2, TrimNone
    <3> QED BY <1>11, <3>4, <3>5
  <2>6. CASE t[b] = LF
    <3>1. b = p
      <4>1. b \in i..(p - 1) => t[b] # LF BY <1>5
      <4> QED BY <4>1, <2>6, <2>1, <2>3, <1>1, <1>5, <1>7
    <3>2. \A j \in b..(p - 1) : t[j] \in Blank
      <4>1. \A j \in b..(p - 1) : FALSE BY <3>1, <1>8
      <4> QED BY <4>1
    <3>3. TableTurn(q, t, i) = <<"error">> BY <2>5, <3>2
    <3> QED BY <1>5, <1>14, <2>1, <2>6, <3>3 DEF a, b, s, p, N
  <2>7. CASE t[b] # LF
    <3>1. v \in (b + 1)..N /\ t[v] \notin Blank /\ \A j \in b..(v - 1) : t[j] \in Blank
      BY <1>3, <2>1, <2>7 DEF ValueStarts, b, v, s, N
    <3>2. v \in (b + 1)..p /\ v \in 1..N
      <4>1. p \in b..(v - 1) => t[p] \in Blank BY <3>1
      <4> QED BY <4>1, <3>1, <1>1, <1>2, <1>5, <1>7, <2>1, <2>3
    <3>3. CASE t[v] = LF
      <4>1. v = p
        <5>1. v \in i..(p - 1) => t[v] # LF BY <1>5
        <5> QED BY <5>1, <3>2, <3>3, <2>1, <2>3, <1>1, <1>5, <1>7
      <4>2. TableTurn(q, t, i) = <<"error">> BY <2>5, <3>1, <4>1
      <4> QED BY <1>5, <1>14, <2>1, <2>7, <3>3, <4>2 DEF a, b, v, s, p, N
    <3>4. CASE t[v] # LF
      <4>1. PICK z \in 1..N : ValueEnds(t, i, z) BY <1>3, <2>1, <2>7, <3>4
      <4>2. /\ e \in (v + 1)..z /\ z <= N /\ t[z] = LF /\ t[e - 1] \notin Blank
            /\ \A j \in v..(z - 1) : t[j] # LF
            /\ \A j \in e..(z - 1) : t[j] \in Blank
        BY <4>1 DEF ValueEnds, e, v, s, N
      <4>3. z = p
        <5>1. z \in i..(p - 1) => t[z] # LF BY <1>5
        <5>2. p \in v..(z - 1) => t[p] # LF BY <4>2
        <5>3. v \in i..p BY <3>2, <2>1, <2>3, <1>1, <1>5, <1>7
        <5>4. ~(z < p) BY <5>1, <5>3, <4>1, <4>2, <3>2, <1>1, <1>5, <1>7
        <5>5. ~(p < z) BY <5>2, <5>3, <4>1, <4>2, <3>2, <1>1, <1>5, <1>7
        <5> QED BY <5>4, <5>5, <4>1, <1>8
      <4> DEFINE y == e - 1
      <4>4. y \in (b - 1)..(p - 1) /\ y \in v..(p - 1) /\ y + 1 = e /\ e \in 1..p
        <5>1. e \in (v + 1)..p BY <4>2, <4>3
        <5> QED BY <5>1, <3>2, <2>1, <2>3, <1>8, <1>1
      <4>5. t[y] \notin Blank /\ \A j \in (y + 1)..(p - 1) : t[j] \in Blank
        BY <4>2, <4>3, <4>4
      <4>6. t[b] \in Blank
        <5>1. b \in b..(v - 1) BY <3>2, <2>1, <2>3, <1>1
        <5> QED BY <5>1, <3>1
      <4> HIDE DEF y
      <4>7. /\ line # <<>> /\ LineValue(line) = Trim(SubSeq(t, b, y))
            /\ SubSeq(line, 1, KeyLength(line)) = SubSeq(t, a, b - 1)
        BY <2>4, <4>4, <4>5, <4>6
      <4>8. Trim(SubSeq(t, b, y)) = SubSeq(t, v, y)
        <5>1. /\ b \in 1..(Len(t) + 1) /\ y \in 0..Len(t) /\ b <= y + 1
              /\ v \in b..y /\ y \in v..y
          BY <1>1, <1>8, <2>1, <2>3, <3>2, <4>4 DEF N
        <5>2. \A j \in (y + 1)..y : t[j] \in Blank
          <6>1. \A j \in (y + 1)..y : FALSE BY <5>1
          <6> QED BY <6>1
        <5> QED BY <1>4, <3>1, <4>5, <5>1, <5>2, TrimIs
      <4>9. SubSeq(t, v, y) # <<>>
        <5>1. v \in 1..(Len(t) + 1) /\ y \in 0..Len(t) /\ v <= y + 1 /\ (y - v) + 1 # 0
          BY <1>1, <1>8, <3>2, <4>4 DEF N
        <5>2. Len(SubSeq(t, v, y)) = (y - v) + 1 BY <1>4, <5>1, PartIs
        <5>3. Len(<<>>) = 0 OBVIOUS
        <5> QED BY <5>1, <5>2, <5>3
      <4>10. TableTurn(q, t, i) = <<<<SubSeq(t, a, b - 1), SubSeq(t, v, y)>>>> \o q[p + 1]
        BY <1>11, <4>7, <4>8, <4>9
      <4>11. \A j \in e..p : t[j] \in White
        <5> SUFFICES ASSUME NEW j \in e..p PROVE t[j] \in White OBVIOUS
        <5>1. j = p \/ j \in e..(p - 1) BY <4>4, <1>8
        <5> QED BY <5>1, <1>2, <1>5, <4>2, <4>3
      <4> QED BY <1>5, <1>14, <2>1, <2>7, <3>4, <4>4, <4>10, <4>11 DEF a, b, v, e, s, p, N, y
    <3> QED BY <3>3, <3>4
  <2> QED BY <2>6, <2>7
<1> QED BY <1>13, <1>14

(* The rows of a table. *)
MimeRows(S) == Seq((Seq(S) \X Seq(S)) \cup {"error"})

LEMMA RowsFollow ==
  ASSUME NEW S, NEW x \in Seq(S) \X Seq(S), NEW v \in MimeRows(S)
  PROVE  <<x>> \o v \in MimeRows(S)
<1> DEFINE W == (Seq(S) \X Seq(S)) \cup {"error"}
<1>1. x \in W OBVIOUS
<1> HIDE DEF W
<1>2. <<x>> \in Seq(W) BY <1>1
<1>3. \A y \in Seq(W) : <<x>> \o y \in Seq(W) BY <1>2, ConcatProperties
<1> QED BY <1>3 DEF MimeRows, W

(* A function whose values are some rows, or come from a later place, with  *)
(* or without one more row.                                                 *)
RowsBackward(S, n, ends, wrong, passed, next, row) ==
  \E g : /\ g = [i \in 1..n |-> g[i]]
         /\ \A i \in 1..n : g[i] = IF i \in ends THEN <<>>
                                   ELSE IF i \in wrong THEN <<"error">>
                                   ELSE IF i \in passed THEN g[next[i]]
                                   ELSE <<row[i]>> \o g[next[i]]

LEMMA RowsExist ==
  ASSUME NEW S, NEW n \in Nat, NEW ends, NEW wrong, NEW passed, NEW next, NEW row,
         \A i \in 1..n : i \notin ends /\ i \notin wrong => next[i] \in (i + 1)..n,
         \A i \in 1..n : i \notin ends /\ i \notin wrong /\ i \notin passed
                           => row[i] \in Seq(S) \X Seq(S)
  PROVE  RowsBackward(S, n, ends, wrong, passed, next, row)
<1> DEFINE V == MimeRows(S)
           stops == ends \cup wrong
           last == [i \in 1..n |-> IF i \in ends THEN <<>> ELSE <<"error">>]
           plain == stops \cup passed
           step == [p \in V \X (1..n) |-> IF p[2] \in plain THEN p[1] ELSE <<row[p[2]]>> \o p[1]]
<1>1. <<>> \in V /\ <<"error">> \in V BY DEF MimeRows
<1>2. \A i \in 1..n : i \notin plain => row[i] \in Seq(S) \X Seq(S) OBVIOUS
<1> HIDE DEF V
<1>3. \A i \in 1..n : last[i] = IF i \in ends THEN <<>> ELSE <<"error">> OBVIOUS
<1>4. \A i \in 1..n, v \in V : step[<<v, i>>] = IF i \in plain THEN v ELSE <<row[i]>> \o v
  OBVIOUS
<1>5. \A i \in 1..n : i \in stops => last[i] \in V BY <1>1, <1>3
<1>6. \A i \in 1..n : i \notin stops => next[i] \in (i + 1)..n OBVIOUS
<1>7. \A i \in 1..n, v \in V : step[<<v, i>>] \in V
  <2> SUFFICES ASSUME NEW i \in 1..n, NEW v \in V PROVE step[<<v, i>>] \in V OBVIOUS
  <2>1. CASE i \in plain BY <1>4, <2>1
  <2>2. CASE i \notin plain
    <3>1. <<row[i]>> \o v \in V BY <1>2, <2>2, RowsFollow DEF V
    <3> QED BY <1>4, <2>2, <3>1
  <2> QED BY <2>1, <2>2
<1>8. \A i \in 1..n : /\ i \in stops <=> i \in ends \/ i \in wrong
                      /\ i \in plain <=> i \in stops \/ i \in passed
  OBVIOUS
<1> HIDE DEF stops, last, plain, step
<1>9. ComputedBackward(n, V, stops, next, last, step) BY <1>5, <1>6, <1>7, BackwardExists
<1>10. PICK g \in [1..n -> V] :
         \A i \in 1..n : g[i] = IF i \in stops THEN last[i] ELSE step[<<g[next[i]], i>>]
  BY <1>9 DEF ComputedBackward
<1>11. g = [i \in 1..n |-> g[i]] OBVIOUS
<1>12. ASSUME NEW i \in 1..n
       PROVE  g[i] = IF i \in ends THEN <<>> ELSE IF i \in wrong THEN <<"error">>
                     ELSE IF i \in passed THEN g[next[i]] ELSE <<row[i]>> \o g[next[i]]
  <2>1. CASE i \in stops BY <1>3, <1>8, <1>10, <2>1
  <2>2. CASE i \notin stops
    <3>1. next[i] \in 1..n
      <4>1. next[i] \in (i + 1)..n BY <1>6, <2>2
      <4> QED BY <4>1
    <3>2. g[next[i]] \in V BY <3>1, <1>10
    <3>3. g[i] = step[<<g[next[i]], i>>] BY <1>10, <2>2
    <3>4. g[i] = IF i \in plain THEN g[next[i]] ELSE <<row[i]>> \o g[next[i]]
      BY <1>4, <3>2, <3>3
    <3> QED BY <1>8, <2>2, <3>4
  <2> QED BY <2>1, <2>2
<1> QED BY <1>11, <1>12 DEF RowsBackward

(* The loop over such a table, as its turns compute it.                     *)
LEMMA MimesSteps ==
  ASSUME NEW S, NEW t, MimeText(S, t)
  PROVE  \E r : MimesOf(t) = r[1] /\ \A i \in 1..(Len(t) + 1) : r[i] = MimeTurn(r, C(t), i)
<1> DEFINE n == Len(t) + 1
           Over(i) == InkAt(C(t), i) = Len(t) + 1
           Wrong(i) == \/ t[KeyEnd(C(t), i)] = LF
                       \/ t[KeyEnd(C(t), i)] # LF /\ t[ValueAt(C(t), i)] = LF
           E(i) == MimeEntry(C(t), i)
           Next1(i) == ValueEnd(C(t), i) + 1
           Turned(g, i) == MimeTurn(g, C(t), i)
           ends == {i \in 1..n : Over(i)}
           wrong == {i \in 1..n : Wrong(i)}
           next == [i \in 1..n |-> Next1(i)]
           row == [i \in 1..n |-> E(i)]
           Is(g) == g = [i \in 1..n |-> Turned(g, i)]
           r == CHOOSE g : Is(g)
<1>1. n \in Nat /\ 1 \in 1..n /\ Len(C(t)) = n
  <2>1. Len(t) \in Nat /\ Len(C(t)) = Len(t) + 1 BY MimeTextIs
  <2> QED BY <2>1
<1>2. MimesOf(t) = r[1] BY <1>1, MimesAre
<1>3. ASSUME NEW g, NEW i \in 1..n
      PROVE  /\ Over(i) => Turned(g, i) = <<>>
             /\ ~Over(i) /\ Wrong(i) => Turned(g, i) = <<"error">>
             /\ ~Over(i) /\ ~Wrong(i) => /\ Turned(g, i) = <<E(i)>> \o g[Next1(i)]
                                         /\ Next1(i) \in (i + 1)..n
                                         /\ E(i) \in Seq(S) \X Seq(S)
  BY MimeTurnIs
<1> HIDE DEF Over, Wrong, E, Next1, Turned, n, r
<1>4. \A i \in 1..n : /\ i \in ends <=> Over(i)
                      /\ i \in wrong <=> Wrong(i)
                      /\ next[i] = Next1(i) /\ row[i] = E(i)
  OBVIOUS
<1>5. \A i \in 1..n : i \notin ends /\ i \notin wrong =>
        next[i] \in (i + 1)..n /\ row[i] \in Seq(S) \X Seq(S)
  BY <1>3, <1>4
<1> HIDE DEF ends, wrong, next, row
<1>6. RowsBackward(S, n, ends, wrong, {}, next, row)
  <2>1. \A i \in 1..n : i \notin ends /\ i \notin wrong => next[i] \in (i + 1)..n BY <1>5
  <2>2. \A i \in 1..n : i \notin ends /\ i \notin wrong /\ i \notin {} => row[i] \in Seq(S) \X Seq(S)
    BY <1>5
  <2> QED BY <1>1, <2>1, <2>2, RowsExist
<1>7. PICK g : /\ g = [i \in 1..n |-> g[i]]
               /\ \A i \in 1..n : g[i] = IF i \in ends THEN <<>>
                                         ELSE IF i \in wrong THEN <<"error">>
                                         ELSE IF i \in {} THEN g[next[i]]
                                         ELSE <<row[i]>> \o g[next[i]]
  BY <1>6 DEF RowsBackward
<1>8. \A i \in 1..n : g[i] = Turned(g, i)
  <2> SUFFICES ASSUME NEW i \in 1..n PROVE g[i] = Turned(g, i) OBVIOUS
  <2>1. CASE Over(i) BY <1>3, <1>4, <1>7, <2>1
  <2>2. CASE ~Over(i) /\ Wrong(i) BY <1>3, <1>4, <1>7, <2>2
  <2>3. CASE ~Over(i) /\ ~Wrong(i)
    <3>1. g[i] = <<E(i)>> \o g[Next1(i)] BY <1>4, <1>7, <2>3
    <3>2. Turned(g, i) = <<E(i)>> \o g[Next1(i)] BY <1>3, <2>3
    <3> QED BY <3>1, <3>2
  <2> QED BY <2>1, <2>2, <2>3
<1>9. Is(r)
  <2>1. Is(g) BY <1>7, <1>8
  <2> HIDE DEF Is
  <2> QED BY <2>1 DEF r
<1>10. \A i \in 1..n : r[i] = Turned(r, i) BY <1>9
<1> QED BY <1>2, <1>10 DEF n, Turned

(* The reference likewise. *)
LEMMA TableSteps ==
  ASSUME NEW S, NEW t, MimeText(S, t)
  PROVE  \E q : /\ q = (CHOOSE f : f = [i \in 1..(Len(t) + 1) |-> TableTurn(f, t, i)])
                /\ \A i \in 1..(Len(t) + 1) : q[i] = TableTurn(q, t, i)
<1> DEFINE n == Len(t) + 1
           Over(i) == i = n
           Passed(i) == InkAt(C(t), i) > PieceEnd(t, i, LF)
           Wrong(i) == /\ ~Passed(i)
                       /\ \/ t[KeyEnd(C(t), i)] = LF
                          \/ t[KeyEnd(C(t), i)] # LF /\ t[ValueAt(C(t), i)] = LF
           E(i) == <<SubSeq(t, InkAt(C(t), i), KeyEnd(C(t), i) - 1),
                     SubSeq(t, ValueAt(C(t), i), ValueEnd(C(t), i) - 1)>>
           Next1(i) == PieceEnd(t, i, LF) + 1
           Turned(g, i) == TableTurn(g, t, i)
           ends == {i \in 1..n : Over(i)}
           wrong == {i \in 1..n : Wrong(i)}
           passed == {i \in 1..n : Passed(i)}
           next == [i \in 1..n |-> Next1(i)]
           row == [i \in 1..n |-> E(i)]
           Is(g) == g = [i \in 1..n |-> Turned(g, i)]
           q == CHOOSE g : Is(g)
<1>1. n \in Nat /\ Len(t) \in Nat BY MimeTextIs
<1>2. ASSUME NEW g PROVE Turned(g, n) = <<>>
  <2>1. n > Len(t) BY <1>1
  <2> QED BY <2>1 DEF TableTurn
<1>3. ASSUME NEW g, NEW i \in 1..n, ~Over(i)
      PROVE  /\ Wrong(i) => Turned(g, i) = <<"error">>
             /\ ~Wrong(i) /\ Passed(i) => Turned(g, i) = g[Next1(i)]
             /\ ~Wrong(i) /\ ~Passed(i) => /\ Turned(g, i) = <<E(i)>> \o g[Next1(i)]
                                           /\ E(i) \in Seq(S) \X Seq(S)
             /\ Next1(i) \in (i + 1)..n
  <2>1. i \in 1..Len(t) BY <1>1, <1>3
  <2>2. /\ PieceEnd(t, i, LF) \in i..Len(t)
        /\ Passed(i) => Turned(g, i) = g[Next1(i)]
        /\ Wrong(i) => Turned(g, i) = <<"error">>
        /\ ~Wrong(i) /\ ~Passed(i) => Turned(g, i) = <<E(i)>> \o g[Next1(i)]
    BY <2>1, TableTurnIs
  <2>3. Next1(i) \in (i + 1)..n
    <3>1. PICK z \in i..Len(t) : z = PieceEnd(t, i, LF) BY <2>2
    <3>2. z + 1 \in (i + 1)..n BY <1>1, <2>1
    <3> QED BY <3>1, <3>2
  <2>4. ~Wrong(i) /\ ~Passed(i) => E(i) \in Seq(S) \X Seq(S)
    <3> SUFFICES ASSUME ~Wrong(i), ~Passed(i) PROVE E(i) \in Seq(S) \X Seq(S) OBVIOUS
    <3>1. InkAt(C(t), i) # n BY <2>1, <2>4, TableTurnIs
    <3>2. MimeEntry(C(t), i) = E(i) /\ MimeEntry(C(t), i) \in Seq(S) \X Seq(S)
      BY <1>3, <3>1, MimeTurnIs
    <3> QED BY <3>2
  <2> QED BY <2>2, <2>3, <2>4
<1> HIDE DEF Wrong, Passed, E, Next1, Turned, n, q
<1>4. \A i \in 1..n : /\ i \in ends <=> Over(i)
                      /\ i \in wrong <=> Wrong(i)
                      /\ i \in passed <=> Passed(i)
                      /\ next[i] = Next1(i) /\ row[i] = E(i)
  OBVIOUS
<1> HIDE DEF Over
<1>5. \A i \in 1..n : i \notin ends /\ i \notin wrong =>
        next[i] \in (i + 1)..n /\ (i \notin passed => row[i] \in Seq(S) \X Seq(S))
  BY <1>3, <1>4
<1> HIDE DEF ends, wrong, passed, next, row
<1>6. RowsBackward(S, n, ends, wrong, passed, next, row)
  <2>1. \A i \in 1..n : i \notin ends /\ i \notin wrong => next[i] \in (i + 1)..n BY <1>5
  <2>2. \A i \in 1..n : i \notin ends /\ i \notin wrong /\ i \notin passed => row[i] \in Seq(S) \X Seq(S)
    BY <1>5
  <2> QED BY <1>1, <2>1, <2>2, RowsExist
<1>7. PICK g : /\ g = [i \in 1..n |-> g[i]]
               /\ \A i \in 1..n : g[i] = IF i \in ends THEN <<>>
                                         ELSE IF i \in wrong THEN <<"error">>
                                         ELSE IF i \in passed THEN g[next[i]]
                                         ELSE <<row[i]>> \o g[next[i]]
  BY <1>6 DEF RowsBackward
<1>8. \A i \in 1..n : g[i] = Turned(g, i)
  <2> SUFFICES ASSUME NEW i \in 1..n PROVE g[i] = Turned(g, i) OBVIOUS
  <2>1. CASE Over(i)
    <3>1. g[i] = <<>> BY <1>4, <1>7, <2>1
    <3>2. i = n BY <2>1 DEF Over
    <3> QED BY <1>2, <3>1, <3>2
  <2>2. CASE ~Over(i) /\ Wrong(i) BY <1>3, <1>4, <1>7, <2>2
  <2>3. CASE ~Over(i) /\ ~Wrong(i) /\ Passed(i)
    <3>1. g[i] = g[Next1(i)] BY <1>4, <1>7, <2>3
    <3>2. Turned(g, i) = g[Next1(i)] BY <1>3, <2>3
    <3> QED BY <3>1, <3>2
  <2>4. CASE ~Over(i) /\ ~Wrong(i) /\ ~Passed(i)
    <3>1. g[i] = <<E(i)>> \o g[Next1(i)] BY <1>4, <1>7, <2>4
    <3>2. Turned(g, i) = <<E(i)>> \o g[Next1(i)] BY <1>3, <2>4
    <3> QED BY <3>1, <3>2
  <2> QED BY <2>1, <2>2, <2>3, <2>4
<1>9. Is(q)
  <2>1. Is(g) BY <1>7, <1>8
  <2> HIDE DEF Is
  <2> QED BY <2>1 DEF q
<1>10. \A i \in 1..n : q[i] = Turned(q, i) BY <1>9
<1> QED BY <1>10 DEF n, Turned, q

(* The MIME table has the lines of its file, for every file.                *)
THEOREM MimesAreLines ==
  ASSUME NEW S, NUL \notin S, NEW t \in Seq(S)
  PROVE  MimesOfLines(t)
<1>1. CASE ~MimeText(S, t)
  <2>1. ~(t # <<>> /\ Last(t) = LF /\ Range(t) \cap {"#", CR} = {}) BY <1>1 DEF MimeText
  <2> QED BY <2>1 DEF MimesOfLines
<1>2. CASE MimeText(S, t)
  <2> DEFINE n == Len(t) + 1
  <2>1. PICK r : MimesOf(t) = r[1] /\ \A i \in 1..n : r[i] = MimeTurn(r, C(t), i)
    BY <1>2, MimesSteps
  <2>2. PICK q : /\ q = (CHOOSE f : f = [i \in 1..(Len(t) + 1) |-> TableTurn(f, t, i)])
                 /\ \A i \in 1..n : q[i] = TableTurn(q, t, i)
    BY <1>2, TableSteps
  <2> DEFINE T == {i \in 1..n : r[i] = q[i]}
  <2>3. n \in Nat /\ Len(t) \in Nat /\ 1 \in 1..n BY <1>2, MimeTextIs
  <2> HIDE DEF n
  <2>4. ASSUME NEW i \in 1..n, NEW k \in i..n, \A j \in i..(k - 1) : t[j] \in White
        PROVE  r[i] = r[k]
    <3>1. i \in 1..(Len(t) + 1) /\ k \in i..(Len(t) + 1) /\ k \in 1..n BY <2>3 DEF n
    <3>2. MimeTurn(r, C(t), i) = MimeTurn(r, C(t), k) BY <1>2, <2>4, <3>1, SameTurn
    <3> QED BY <2>1, <3>1, <3>2
  <2>5. ASSUME NEW i \in 1..n, \A m \in (i + 1)..n : m \in T PROVE i \in T
    <3> DEFINE a == InkAt(C(t), i)
               b == KeyEnd(C(t), i)
               v == ValueAt(C(t), i)
               e == ValueEnd(C(t), i)
               p == PieceEnd(t, i, LF)
               row == <<SubSeq(t, a, b - 1), SubSeq(t, v, e - 1)>>
    <3>1. r[i] = MimeTurn(r, C(t), i) /\ q[i] = TableTurn(q, t, i) BY <2>1, <2>2
    <3>2. CASE i = n
      <4>1. q[i] = <<>>
        <5>1. i > Len(t) BY <3>2, <2>3 DEF n
        <5> QED BY <3>1, <5>1 DEF TableTurn
      <4>2. a = n
        <5>1. InkIs(t, i) BY <1>2, <3>2, MimePlaces DEF n
        <5>2. a \in n..n BY <5>1, <3>2 DEF InkIs, n
        <5> QED BY <5>2, <2>3
      <4>3. r[i] = <<>> BY <1>2, <3>1, <4>2, MimeTurnIs DEF n
      <4> QED BY <4>1, <4>3
    <3>3. CASE i # n
      <4>1. i \in 1..Len(t) BY <2>3, <3>3 DEF n
      <4>2. /\ p \in i..Len(t)
            /\ a > p => TableTurn(q, t, i) = q[p + 1] /\ \A j \in i..p : t[j] \in White
            /\ ~(a > p) =>
                 /\ a # Len(t) + 1
                 /\ t[b] = LF => TableTurn(q, t, i) = <<"error">>
                 /\ t[b] # LF /\ t[v] = LF => TableTurn(q, t, i) = <<"error">>
                 /\ t[b] # LF /\ t[v] # LF =>
                      /\ TableTurn(q, t, i) = <<row>> \o q[p + 1]
                      /\ e \in 1..p /\ \A j \in e..p : t[j] \in White
        BY <1>2, <4>1, TableTurnIs
      <4>3. /\ a # Len(t) + 1 /\ t[b] = LF => r[i] = <<"error">>
            /\ a # Len(t) + 1 /\ t[b] # LF /\ t[v] = LF => r[i] = <<"error">>
            /\ a # Len(t) + 1 /\ t[b] # LF /\ t[v] # LF => r[i] = <<row>> \o r[e + 1]
        BY <1>2, <3>1, MimeTurnIs DEF n
      <4> HIDE DEF a, b, v, e, p, row
      <4>4. p + 1 \in (i + 1)..n /\ p + 1 \in 1..n /\ (p + 1) - 1 = p
        <5>1. PICK z \in i..Len(t) : z = p BY <4>2
        <5>2. z + 1 \in (i + 1)..n /\ z + 1 \in 1..n /\ (z + 1) - 1 = z BY <2>3, <4>1 DEF n
        <5> QED BY <5>1, <5>2
      <4>5. r[p + 1] = q[p + 1] BY <2>5, <4>4
      <4>6. CASE a > p
        <5>1. p + 1 \in i..n BY <4>4
        <5>2. r[i] = r[p + 1] BY <2>4, <4>2, <4>4, <4>6, <5>1
        <5> QED BY <3>1, <4>2, <4>5, <4>6, <5>2
      <4>7. CASE ~(a > p) /\ (t[b] = LF \/ t[v] = LF) BY <3>1, <4>2, <4>3, <4>7
      <4>8. CASE ~(a > p) /\ t[b] # LF /\ t[v] # LF
        <5>1. e \in 1..p /\ \A j \in e..p : t[j] \in White BY <4>2, <4>8
        <5>2. r[e + 1] = r[p + 1]
          <6>1. PICK z \in 1..Len(t) : z = p BY <4>2, <4>1
          <6>2. e \in Int /\ 1 <= e /\ e <= z BY <5>1, <6>1
          <6>3. e + 1 \in 1..n /\ z + 1 \in (e + 1)..n /\ (z + 1) - 1 = z BY <2>3, <6>2 DEF n
          <6>4. \A j \in (e + 1)..z : t[j] \in White
            <7>1. \A j \in (e + 1)..z : j \in e..z BY <6>2
            <7> QED BY <5>1, <6>1, <7>1
          <6> QED BY <2>4, <6>1, <6>3, <6>4
        <5>3. r[i] = <<row>> \o r[e + 1] BY <4>2, <4>3, <4>8
        <5>4. q[i] = <<row>> \o q[p + 1] BY <3>1, <4>2, <4>8
        <5> QED BY <4>5, <5>2, <5>3, <5>4
      <4> QED BY <4>6, <4>7, <4>8
    <3> QED BY <3>2, <3>3
  <2>6. 1 \in T
    <3> HIDE DEF T
    <3> QED BY <2>3, <2>5, DownwardInduction
  <2>7. MimesOf(t) = q[1] BY <2>1, <2>6
  <2> QED BY <1>2, <2>2, <2>7, TableIs
<1> QED BY <1>1, <1>2
==============================================================================
