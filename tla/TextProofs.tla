------------------------------ MODULE TextProofs ------------------------------
(* What requests and forms are read as, for any length: the lines and the  *)
(* body of a request that was written well, form_data, post_form_data();    *)
(* and that the inputs which MCText picks satisfy what those theorems, and  *)
(* the ones of AlgorithmProofs and WsCodecProofs, ask for.                  *)
EXTENDS MCText, AlgorithmProofs
------------------------------------------------------------------------------
(* A request as its client writes it: where its lines are (Cuts), what      *)
(* becomes of the text of each, and that http::request reads it so.         *)

(* A line ends at the next LF.                                              *)
LEMMA LineEndIs ==
  ASSUME NEW S, NEW h \in Seq(S), NEW i \in 1..Len(h), NEW e \in i..Len(h), h[e] = LF,
         \A j \in i..(e - 1) : h[j] # LF
  PROVE  LineEnd(h, i) = e
<1> DEFINE J == {j \in i..Len(h) : h[j] = LF}
<1>1. Len(h) \in Nat /\ i \in Nat /\ e \in Nat BY LenProperties
<1>2. J \subseteq Nat /\ e \in J BY <1>1
<1>3. ASSUME NEW j \in J PROVE e <= j
  <2>1. j \in i..Len(h) /\ h[j] = LF OBVIOUS
  <2>2. j < e => j \in i..(e - 1) BY <1>1, <2>1
  <2> QED BY <1>1, <2>1, <2>2
<1> HIDE DEF J
<1>4. Min(J) = e BY <1>2, <1>3, MinFrom
<1> QED BY <1>4 DEF LineEnd, J

(* Cuts of a text that ends in LF: numbers of letters before its lines'     *)
(* ends, each line with an LF at its end only.                              *)
CutsLines(h, K, E) ==
  /\ E \in [0..K -> Nat] /\ E[0] = 0 /\ E[K] = Len(h)
  /\ \A n \in 1..K : /\ E[n - 1] < E[n] /\ h[E[n]] = LF
                     /\ \A i \in (E[n - 1] + 1)..(E[n] - 1) : h[i] # LF

LEMMA CutsRise ==
  ASSUME NEW h, NEW K \in Nat, NEW E, CutsLines(h, K, E), NEW m \in 0..K
  PROVE  \A n \in m..K : E[m] <= E[n]
<1> DEFINE T == {n \in m..K : E[m] <= E[n]}
<1>1. \A n \in 0..K : E[n] \in Nat BY DEF CutsLines
<1>2. m \in T BY <1>1
<1>3. ASSUME NEW n \in (m + 1)..K, n - 1 \in T PROVE n \in T
  <2>1. n \in 1..K /\ n - 1 \in 0..K /\ n \in 0..K /\ n \in m..K BY <1>3
  <2>2. E[n - 1] < E[n] BY <2>1 DEF CutsLines
  <2>3. E[m] <= E[n - 1] BY <1>3
  <2>4. E[m] <= E[n] BY <1>1, <2>1, <2>2, <2>3
  <2> QED BY <2>1, <2>4
<1> HIDE DEF T
<1>4. m \in Int /\ K \in Int OBVIOUS
<1>5. \A n \in m..K : n \in T BY <1>2, <1>3, <1>4, UpwardInduction
<1> QED BY <1>5 DEF T

(* Every letter is in one of the lines.                                     *)
LEMMA CutsCover ==
  ASSUME NEW h, NEW K \in Nat, NEW E, CutsLines(h, K, E), NEW i \in 1..Len(h)
  PROVE  \E n \in 1..K : i \in (E[n - 1] + 1)..E[n]
<1> DEFINE Bad == {n \in 0..K : i <= E[n]}
<1>1. \A n \in 0..K : E[n] \in Nat BY DEF CutsLines
<1>2. Bad \subseteq Nat OBVIOUS
<1>3. K \in Bad BY DEF CutsLines
<1>4. PICK n \in Bad : \A m \in Bad : n <= m BY <1>2, <1>3, LeastNatural
<1>5. n \in 0..K /\ i <= E[n] /\ i \in Int BY <1>4
<1>6. n # 0
  <2> SUFFICES ASSUME n = 0 PROVE FALSE OBVIOUS
  <2>1. E[n] = 0 /\ 1 <= i BY DEF CutsLines
  <2> QED BY <2>1, <1>5
<1>7. n \in 1..K /\ n - 1 \in 0..K BY <1>5, <1>6
<1>8. n - 1 \notin Bad BY <1>4, <1>7
<1>9. ~(i <= E[n - 1]) BY <1>7, <1>8
<1>10. E[n - 1] \in Nat /\ E[n] \in Nat BY <1>1, <1>5, <1>7
<1>11. i \in (E[n - 1] + 1)..E[n] BY <1>5, <1>9, <1>10
<1> QED BY <1>7, <1>11

(* The lines of a text are those between its cuts.                          *)
CutLine(h, E, n) == Nulled(SubSeq(h, E[n - 1] + 1, E[n]))

LEMMA CutLineTyped ==
  ASSUME NEW S, NEW h \in Seq(S), NEW i \in 1..Len(h), NEW e \in i..Len(h)
  PROVE  Nulled(SubSeq(h, i, e)) \in Seq(S \cup {NUL})
<1> DEFINE g == SubSeq(h, i, e)
<1>1. Len(h) \in Nat /\ i \in Nat /\ e \in Nat BY LenProperties
<1>2. i \in 1..(Len(h) + 1) /\ e \in 0..Len(h) /\ i <= e + 1 BY <1>1
<1>3. g \in Seq(S) BY <1>2, PartIs
<1> HIDE DEF g
<1>4. DOMAIN g = 1..Len(g) /\ Len(g) \in Nat /\ \A k \in 1..Len(g) : g[k] \in S
  BY <1>3, LenProperties, ElementOfSeq
<1>5. Nulled(g) \in [1..Len(g) -> S \cup {NUL}] BY <1>4 DEF Nulled
<1>6. Nulled(g) \in Seq(S \cup {NUL}) BY <1>4, <1>5, FunctionIsSeq
<1> QED BY <1>6 DEF g

LEMMA LinesAre ==
  ASSUME NEW S, NEW h \in Seq(S), NEW K \in Nat \ {0}, NEW E, CutsLines(h, K, E)
  PROVE  Lines(h) = [n \in 1..(K - 1) |-> CutLine(h, E, n)]
<1> DEFINE N == Len(h)
           V == Seq(Seq(S \cup {NUL}))
           End(i) == LineEnd(h, i)
           P(i) == Nulled(SubSeq(h, i, LineEnd(h, i)))
           stops == {i \in 1..N : End(i) = N}
           next == [i \in 1..N |-> End(i) + 1]
           last == [i \in 1..N |-> <<>>]
           step == [p \in V \X (1..N) |-> <<P(p[2])>> \o p[1]]
           Turned(g, i) == IF End(i) = N THEN <<>> ELSE <<P(i)>> \o g[End(i) + 1]
           Is(g) == g = [i \in 1..N |-> Turned(g, i)]
           r == CHOOSE g : Is(g)
<1>1. N \in Nat /\ K \in Nat /\ 0 \in 0..K BY LenProperties
<1>2. \A n \in 0..K : E[n] \in Nat /\ E[n] <= N
  <2>1. \A n \in 0..K : E[n] \in Nat BY DEF CutsLines
  <2> SUFFICES ASSUME NEW n \in 0..K PROVE E[n] <= N BY <2>1
  <2>2. K \in n..K BY <1>1
  <2>3. E[n] <= E[K] BY <2>2, CutsRise
  <2> QED BY <2>3 DEF CutsLines
<1>3. ASSUME NEW n \in 1..K, NEW i \in (E[n - 1] + 1)..E[n]
      PROVE  i \in 1..N /\ End(i) = E[n] /\ E[n] \in i..N
  <2>1. n - 1 \in 0..K /\ n \in 0..K BY <1>1
  <2>2. E[n - 1] \in Nat /\ E[n] \in Nat /\ E[n] <= N BY <1>2, <2>1
  <2>3. i \in 1..N /\ E[n] \in i..N BY <2>2, <1>1
  <2>4. h[E[n]] = LF /\ \A j \in (E[n - 1] + 1)..(E[n] - 1) : h[j] # LF BY DEF CutsLines
  <2>5. \A j \in i..(E[n] - 1) : h[j] # LF BY <2>2, <2>4
  <2>6. LineEnd(h, i) = E[n] BY <2>3, <2>4, <2>5, LineEndIs
  <2> QED BY <2>3, <2>6
<1>4. ASSUME NEW i \in 1..N PROVE End(i) \in i..N
  <2>1. PICK n \in 1..K : i \in (E[n - 1] + 1)..E[n] BY <1>1, CutsCover
  <2>2. End(i) = E[n] /\ E[n] \in i..N BY <1>3, <2>1
  <2> QED BY <2>2
<1>5. \A i \in 1..N : P(i) \in Seq(S \cup {NUL})
  BY <1>4, CutLineTyped
<1>6. Lines(h) = r[1] BY DEF Lines
<1> HIDE DEF P, End, r
<1>7. \A i \in 1..N : <<P(i)>> \in V /\ Len(<<P(i)>>) = 1 /\ <<P(i)>>[1] = P(i)
  BY <1>5
<1>8. <<>> \in V OBVIOUS
<1>9. \A i \in 1..N : last[i] = <<>> OBVIOUS
<1>10. \A i \in 1..N : i \in stops => last[i] \in V BY <1>8, <1>9
<1>11. \A i \in 1..N : i \in stops <=> End(i) = N OBVIOUS
<1>12. \A i \in 1..N : next[i] = End(i) + 1 OBVIOUS
<1>13. ASSUME NEW i \in 1..N, End(i) # N PROVE End(i) + 1 \in (i + 1)..N /\ End(i) + 1 \in 1..N
  <2>1. PICK z \in i..N : z = End(i) BY <1>4
  <2>2. z \in Int /\ i \in Int /\ 1 <= i /\ i <= z /\ z <= N /\ z # N BY <2>1, <1>1, <1>13
  <2>3. z + 1 \in (i + 1)..N /\ z + 1 \in 1..N BY <2>2, <1>1
  <2> QED BY <2>1, <2>3
<1>14. \A i \in 1..N : i \notin stops => next[i] \in (i + 1)..N
  BY <1>11, <1>12, <1>13
<1>15. \A i \in 1..N, v \in V : step[<<v, i>>] = <<P(i)>> \o v OBVIOUS
<1> HIDE DEF V
<1>16. \A i \in 1..N, v \in V : <<P(i)>> \o v \in V
  BY <1>7, ConcatProperties DEF V
<1>17. \A i \in 1..N, v \in V : step[<<v, i>>] \in V BY <1>15, <1>16
<1>18. PICK g \in [1..N -> V] :
        \A i \in 1..N : g[i] = IF i \in stops THEN last[i] ELSE step[<<g[next[i]], i>>]
  <2> HIDE DEF N, stops, next, last, step
  <2>1. ComputedBackward(N, V, stops, next, last, step)
    BY <1>1, <1>10, <1>14, <1>17, BackwardExists
  <2> QED BY <2>1 DEF ComputedBackward
<1> HIDE DEF stops, next, last, step
<1>19. ASSUME NEW i \in 1..N PROVE g[i] = Turned(g, i)
  <2>1. CASE i \in stops BY <1>9, <1>11, <1>18, <2>1
  <2>2. CASE i \notin stops
    <3>1. g[i] = step[<<g[next[i]], i>>] BY <1>18, <2>2
    <3>2. End(i) # N /\ next[i] = End(i) + 1 BY <1>11, <1>12, <2>2
    <3>3. next[i] \in 1..N BY <1>13, <3>2
    <3>4. g[next[i]] \in V BY <1>18, <3>3
    <3>5. g[i] = <<P(i)>> \o g[next[i]] BY <3>1, <3>4, <1>15
    <3> QED BY <3>2, <3>5
  <2> QED BY <2>1, <2>2
<1>20. Is(r)
  <2>1. Is(g) BY <1>18, <1>19
  <2> HIDE DEF Is
  <2> QED BY <2>1 DEF r
<1>21. \A i \in 1..N : r[i] = Turned(r, i) BY <1>20
<1>22. ASSUME NEW n \in 1..K
       PROVE  /\ E[n - 1] + 1 \in 1..N /\ End(E[n - 1] + 1) = E[n]
              /\ P(E[n - 1] + 1) = CutLine(h, E, n)
              /\ n < K => E[n] # N
  <2>1. n - 1 \in 0..K /\ n \in 0..K BY <1>1
  <2>2. E[n - 1] < E[n] /\ E[n - 1] \in Nat /\ E[n] \in Nat BY <1>2, <2>1 DEF CutsLines
  <2>3. E[n - 1] + 1 \in (E[n - 1] + 1)..E[n] BY <2>2
  <2>4. E[n - 1] + 1 \in 1..N /\ End(E[n - 1] + 1) = E[n] BY <2>3, <1>3
  <2>5. P(E[n - 1] + 1) = CutLine(h, E, n) BY <2>4 DEF P, End, CutLine
  <2>6. ASSUME n < K PROVE E[n] # N
    <3>1. n + 1 \in 1..K /\ n + 1 \in 0..K /\ (n + 1) - 1 = n BY <1>1, <2>6
    <3>2. E[n] < E[n + 1] BY <3>1 DEF CutsLines
    <3>3. E[n + 1] <= N /\ E[n + 1] \in Nat BY <1>2, <3>1
    <3> QED BY <2>2, <3>2, <3>3, <1>1
  <2> QED BY <2>4, <2>5, <2>6
<1> DEFINE c(n) == CutLine(h, E, n)
           Tail1(k) == [m \in 1..(K - k) |-> c((k - 1) + m)]
           T == {k \in 1..K : r[E[k - 1] + 1] = Tail1(k)}
<1>23. \A n \in 1..K : c(n) \in Seq(S \cup {NUL}) BY <1>5, <1>22
<1> HIDE DEF c
<1>24. ASSUME NEW k \in 1..K, \A m \in (k + 1)..K : m \in T PROVE k \in T
  <2>1. /\ E[k - 1] + 1 \in 1..N /\ End(E[k - 1] + 1) = E[k]
        /\ P(E[k - 1] + 1) = c(k)
    BY <1>22 DEF c
  <2>2. CASE k = K
    <3>1. E[k] = N BY <2>2 DEF CutsLines
    <3>2. r[E[k - 1] + 1] = <<>> BY <1>21, <2>1, <3>1
    <3>3. Tail1(k) = <<>>
      <4>1. K - k = 0 BY <2>2, <1>1
      <4>2. 1..(K - k) = {} BY <4>1
      <4> QED BY <4>2
    <3> QED BY <3>2, <3>3
  <2>3. CASE k # K
    <3>1. k < K /\ k + 1 \in (k + 1)..K /\ (k + 1) - 1 = k BY <1>1, <2>3
    <3>2. E[k] # N BY <1>22, <3>1
    <3>3. r[E[k - 1] + 1] = <<c(k)>> \o r[E[k] + 1] BY <1>21, <2>1, <3>2
    <3> HIDE DEF T
    <3>4. k + 1 \in T BY <1>24, <3>1
    <3>5. r[E[k] + 1] = Tail1(k + 1) BY <3>4, <3>1 DEF T
    <3> DEFINE W == Seq(S \cup {NUL})
               a == <<c(k)>>
               b == Tail1(k + 1)
    <3>6. K - (k + 1) \in Nat /\ K - k = 1 + (K - (k + 1)) BY <3>1, <1>1
    <3>7. b \in [1..(K - (k + 1)) -> W]
      <4>1. \A m \in 1..(K - (k + 1)) : ((k + 1) - 1) + m \in 1..K BY <3>6, <1>1
      <4> QED BY <4>1, <1>23
    <3>8. \A m \in 1..(K - (k + 1)) : b[m] = c(k + m) BY <3>1
    <3>9. a \in Seq(W) /\ Len(a) = 1 /\ a[1] = c(k)
      <4>1. c(k) \in W BY <1>23
      <4> HIDE DEF W
      <4> QED BY <4>1
    <3> HIDE DEF W, a, b
    <3>10. b \in Seq(W) /\ Len(b) = K - (k + 1) BY <3>6, <3>7, FunctionIsSeq, SMTT(30)
    <3>11. /\ a \o b \in Seq(W) /\ Len(a \o b) = 1 + (K - (k + 1))
           /\ \A m \in 1..(1 + (K - (k + 1))) :
                (a \o b)[m] = IF m <= 1 THEN a[m] ELSE b[m - 1]
      <4>1. /\ a \o b \in Seq(W) /\ Len(a \o b) = Len(a) + Len(b)
            /\ \A m \in 1..(Len(a) + Len(b)) :
                 (a \o b)[m] = IF m <= Len(a) THEN a[m] ELSE b[m - Len(a)]
        BY <3>9, <3>10, ConcatProperties
      <4> QED BY <4>1, <3>9, <3>10
    <3>12. Len(a \o b) = K - k BY <3>11, <3>6
    <3>13. ASSUME NEW m \in 1..(K - k) PROVE (a \o b)[m] = c((k - 1) + m)
      <4>1. m \in 1..(1 + (K - (k + 1))) BY <3>6
      <4>2. CASE m = 1
        <5>1. (k - 1) + m = k /\ m <= 1 BY <4>2, <1>1
        <5> QED BY <5>1, <4>1, <4>2, <3>9, <3>11
      <4>3. CASE m # 1
        <5>1. ~(m <= 1) /\ m - 1 \in 1..(K - (k + 1)) /\ k + (m - 1) = (k - 1) + m
          BY <4>3, <4>1, <3>6, <1>1
        <5>2. (a \o b)[m] = b[m - 1] BY <3>11, <4>1, <5>1
        <5>3. b[m - 1] = c(k + (m - 1)) BY <3>8, <5>1
        <5> QED BY <5>1, <5>2, <5>3
      <4> QED BY <4>2, <4>3
    <3>14. a \o b = [m \in 1..(K - k) |-> (a \o b)[m]]
      <4> DEFINE ab == a \o b
      <4>1. ab \in Seq(W) /\ Len(ab) = K - k BY <3>11, <3>12
      <4> HIDE DEF ab
      <4>2. ab \in [1..Len(ab) -> W] BY <4>1, SeqIsFunction
      <4>3. ab = [m \in 1..(K - k) |-> ab[m]] BY <4>1, <4>2
      <4> QED BY <4>3 DEF ab
    <3>15. a \o b = Tail1(k) BY <3>13, <3>14
    <3>16. r[E[k - 1] + 1] = a \o b BY <3>3, <3>5 DEF a, b
    <3> QED BY <3>15, <3>16 DEF T
  <2> QED BY <2>2, <2>3
<1>25. 1 \in T
  <2>1. 1 \in 1..K BY <1>1
  <2> HIDE DEF T
  <2> QED BY <1>1, <1>24, <2>1, DownwardInduction
<1>26. r[E[1 - 1] + 1] = Tail1(1) BY <1>25
<1>27. E[1 - 1] + 1 = 1 BY DEF CutsLines
<1>28. Tail1(1) = [n \in 1..(K - 1) |-> c(n)]
  <2>1. \A m \in 1..(K - 1) : (1 - 1) + m = m OBVIOUS
  <2> QED BY <2>1
<1> QED BY <1>6, <1>26, <1>27, <1>28 DEF c

(* Lines of a header: the last one is empty and no other is, no character   *)
(* is invalid, and CR stands only before LF.                                *)
HeaderLines(h, K, E) ==
  /\ CutsLines(h, K, E)
  /\ \A i \in 1..Len(h) : h[i] \notin Invalid /\ (h[i] = CR => i + 1 <= Len(h) /\ h[i + 1] = LF)
  /\ \A n \in 1..(K - 1) : \E i \in (E[n - 1] + 1)..(E[n] - 1) : h[i] # CR
  /\ \A i \in (E[K - 1] + 1)..(E[K] - 1) : h[i] = CR

LEMMA HeaderScanned ==
  ASSUME NEW S, NEW h \in Seq(S), NEW K \in Nat, 2 <= K, NEW E, HeaderLines(h, K, E)
  PROVE  /\ Scannable(h) /\ HeaderEnds(h) = {Len(h)}
         /\ Parse(h) = ParseLines([n \in 1..(K - 1) |-> CutLine(h, E, n)], Len(h))
<1> DEFINE N == Len(h)
<1>1. N \in Nat /\ DOMAIN h = 1..N BY LenProperties
<1>2. CutsLines(h, K, E) BY DEF HeaderLines
<1>3. \A n \in 0..K : E[n] \in Nat BY <1>2 DEF CutsLines
<1>4. CR # LF BY DEF CR, LF
<1>5. Scannable(h)
  <2>1. ASSUME NEW i \in 1..N, NEW j \in 1..N, i < j, h[i] = CR, h[j] = CR
        PROVE  \E k \in i..j : h[k] = LF
    <3>1. h[i + 1] = LF BY <2>1 DEF HeaderLines
    <3>2. i + 1 \in i..j BY <2>1
    <3> QED BY <3>1, <3>2
  <2> QED BY <1>1, <2>1 DEF Scannable, HeaderLines
<1>6. ASSUME NEW i \in HeaderEnds(h) PROVE i = N
  <2>1. i \in 1..N /\ h[i] = LF /\ \E j \in 1..(i - 1) :
          h[j] = LF /\ \A k \in (j + 1)..(i - 1) : h[k] = CR
    BY <1>1 DEF HeaderEnds
  <2>2. PICK j \in 1..(i - 1) : h[j] = LF /\ \A k \in (j + 1)..(i - 1) : h[k] = CR BY <2>1
  <2>3. PICK n \in 1..K : i \in (E[n - 1] + 1)..E[n] BY <1>2, <2>1, CutsCover
  <2>4. n - 1 \in 0..K /\ n \in 0..K OBVIOUS
  <2>5. E[n - 1] \in Nat /\ E[n] \in Nat BY <1>3, <2>4
  <2>6. \A k \in (E[n - 1] + 1)..(E[n] - 1) : h[k] # LF BY <1>2 DEF CutsLines
  <2>7. i = E[n]
    <3>1. i # E[n] => i \in (E[n - 1] + 1)..(E[n] - 1) BY <2>3, <2>5
    <3> QED BY <3>1, <2>1, <2>6
  <2>8. CASE n = K BY <2>7, <2>8, <1>2 DEF CutsLines
  <2>9. CASE n # K
    <3>1. n \in 1..(K - 1) BY <2>9
    <3>2. PICK k \in (E[n - 1] + 1)..(E[n] - 1) : h[k] # CR BY <3>1 DEF HeaderLines
    <3>3. ~(k \in (j + 1)..(i - 1)) BY <2>2, <3>2
    <3>4. k <= j /\ j <= E[n] - 1 BY <3>2, <3>3, <2>7, <2>5, <2>1
    <3>5. j \in (E[n - 1] + 1)..(E[n] - 1) BY <3>2, <3>4, <2>5
    <3> QED BY <3>5, <2>2, <2>6
  <2> QED BY <2>8, <2>9
<1>7. N \in HeaderEnds(h)
  <2>1. K \in 1..K /\ K - 1 \in 1..K /\ K - 1 \in 0..K /\ (K - 1) - 1 \in 0..K OBVIOUS
  <2>2. E[K] = N /\ E[K - 1] < E[K] /\ h[E[K]] = LF /\ h[E[K - 1]] = LF
    BY <1>2, <2>1 DEF CutsLines
  <2>3. E[(K - 1) - 1] < E[K - 1] BY <1>2, <2>1 DEF CutsLines
  <2>4. E[K - 1] \in Nat /\ E[(K - 1) - 1] \in Nat BY <1>3, <2>1
  <2>5. E[K - 1] \in 1..(N - 1) /\ N \in 1..N BY <2>2, <2>3, <2>4, <1>1
  <2>6. \A k \in (E[K - 1] + 1)..(N - 1) : h[k] = CR BY <2>2 DEF HeaderLines
  <2> DEFINE e == E[K - 1]
  <2>7. e \in 1..(N - 1) /\ h[e] = LF /\ \A k \in (e + 1)..(N - 1) : h[k] = CR
    BY <2>2, <2>5, <2>6
  <2> HIDE DEF e
  <2> QED BY <2>2, <2>5, <2>7, <1>1 DEF HeaderEnds
<1>8. HeaderEnds(h) = {N} BY <1>6, <1>7
<1>9. Min(HeaderEnds(h)) = N
  <2>1. HeaderEnds(h) \subseteq Nat /\ \A m \in HeaderEnds(h) : N <= m BY <1>1, <1>8
  <2> HIDE DEF N
  <2> QED BY <1>7, <2>1, MinFrom
<1>10. SubSeq(h, 1, N) = h
  <2>1. 1 \in 1..(N + 1) /\ N \in 0..N /\ 1 <= N + 1 /\ (N - 1) + 1 = N BY <1>1
  <2>2. SubSeq(h, 1, N) = [i \in 1..((N - 1) + 1) |-> h[(i + 1) - 1]] BY <2>1, PartIs
  <2>3. \A i \in 1..N : (i + 1) - 1 = i OBVIOUS
  <2>4. SubSeq(h, 1, N) = [i \in 1..N |-> h[i]] BY <2>1, <2>2, <2>3
  <2>5. h \in [1..N -> S] BY SeqIsFunction
  <2> QED BY <2>4, <2>5
<1>11. Parse(h) = ParseHeader(h)
  <2>1. HeaderEnds(h) # {} BY <1>8
  <2> QED BY <2>1, <1>9, <1>10 DEF Parse
<1>12. ParseHeader(h) = ParseLines(Lines(h), N) BY <1>5 DEF ParseHeader
<1>13. Lines(h) = [n \in 1..(K - 1) |-> CutLine(h, E, n)]
  <2>1. K \in Nat \ {0} OBVIOUS
  <2> QED BY <1>2, <2>1, LinesAre
<1> QED BY <1>5, <1>8, <1>11, <1>12, <1>13

(* An element above all others is the greatest.                             *)
LEMMA MaxFrom ==
  ASSUME NEW T, T \subseteq Int, NEW n \in T, \A m \in T : m <= n
  PROVE  Max(T) = n
<1>1. \E x \in T : \A y \in T : x >= y
  <2>1. \A y \in T : n >= y OBVIOUS
  <2> QED BY <2>1
<1>2. Max(T) \in T /\ \A y \in T : Max(T) >= y BY <1>1 DEF Max
<1>3. Max(T) >= n /\ Max(T) <= n /\ Max(T) \in Int /\ n \in Int BY <1>2
<1> QED BY <1>3

(* A C string ends before the next NUL.                                     *)
LEMMA CStringIs ==
  ASSUME NEW S, NEW s \in Seq(S), NEW i \in 1..Len(s), NEW n \in i..Len(s), s[n] = NUL,
         \A j \in i..(n - 1) : s[j] # NUL
  PROVE  CString(s, i) = SubSeq(s, i, n - 1)
<1> DEFINE J == {j \in i..Len(s) : s[j] = NUL}
           k == SelectInSubSeq(s, i, Len(s), LAMBDA c : c = NUL)
<1>1. Len(s) \in Nat /\ i \in Nat /\ n \in Nat /\ n # 0 BY LenProperties
<1>2. J \subseteq Nat /\ n \in J BY <1>1
<1>3. ASSUME NEW j \in J PROVE n <= j
  <2>1. j \in i..Len(s) /\ s[j] = NUL OBVIOUS
  <2>2. j < n => j \in i..(n - 1) BY <1>1, <2>1
  <2> QED BY <1>1, <2>1, <2>2
<1>4. k = IF J # {} THEN Min(J) ELSE 0 BY DEF SelectInSubSeq
<1>5. CString(s, i) = SubSeq(s, i, IF k = 0 THEN Len(s) ELSE k - 1) BY DEF CString
<1> HIDE DEF J, k
<1>6. Min(J) = n BY <1>2, <1>3, MinFrom
<1>7. k = n /\ k # 0 BY <1>1, <1>2, <1>4, <1>6
<1> QED BY <1>5, <1>7

(* The first place of a letter in a C string.                               *)
LEMMA FindIs ==
  ASSUME NEW S, NEW s \in Seq(S), NEW c, NEW n \in 1..Len(s), s[n] = NUL,
         \A j \in 1..(n - 1) : s[j] # NUL,
         NEW m \in 1..(n - 1), s[m] = c, \A j \in 1..(m - 1) : s[j] # c
  PROVE  FindIn(s, c) = m
<1> DEFINE g == CString(s, 1)
           J == {i \in 1..Len(g) : g[i] = c}
<1>1. Len(s) \in Nat /\ n \in Nat /\ m \in Nat /\ 1 \in 1..Len(s) BY LenProperties
<1>2. g = SubSeq(s, 1, n - 1) BY <1>1, CStringIs
<1>3. FindIn(s, c) = IF J # {} THEN Min(J) ELSE 0 BY DEF FindIn, SelectInSeq
<1>4. Len(g) = n - 1 /\ \A j \in 1..(n - 1) : g[j] = s[j]
  <2>1. 1 \in 1..(Len(s) + 1) /\ n - 1 \in 0..Len(s) /\ 1 <= (n - 1) + 1
        /\ ((n - 1) - 1) + 1 = n - 1
    BY <1>1
  <2>2. Len(g) = ((n - 1) - 1) + 1
        /\ g = [i \in 1..(((n - 1) - 1) + 1) |-> s[(i + 1) - 1]]
    BY <1>2, <2>1, PartIs, SMTT(30)
  <2> HIDE DEF g
  <2>3. g = [i \in 1..(n - 1) |-> s[(i + 1) - 1]] BY <2>1, <2>2
  <2>4. \A j \in 1..(n - 1) : (j + 1) - 1 = j OBVIOUS
  <2> QED BY <2>1, <2>2, <2>3, <2>4
<1> HIDE DEF g
<1>5. J \subseteq Nat /\ m \in J BY <1>1, <1>4
<1>6. ASSUME NEW j \in J PROVE m <= j
  <2>1. j \in 1..(n - 1) /\ s[j] = c BY <1>4
  <2>2. j < m => j \in 1..(m - 1) BY <1>1, <2>1
  <2> QED BY <1>1, <2>1, <2>2
<1> HIDE DEF J
<1>7. Min(J) = m BY <1>5, <1>6, MinFrom
<1> QED BY <1>3, <1>5, <1>7

(* A text that stands at a place of another is that part of it.             *)
LEMMA TextAt ==
  ASSUME NEW S, NEW s \in Seq(S), NEW T, NEW w \in Seq(T), NEW i \in Nat, NEW e,
         e = i + Len(w), e <= Len(s), \A j \in 1..Len(w) : s[i + j] = w[j]
  PROVE  SubSeq(s, i + 1, e) = w
<1> DEFINE n == Len(w)
           g == SubSeq(s, i + 1, e)
<1>1. Len(s) \in Nat /\ n \in Nat /\ e \in Nat BY LenProperties
<1>2. i + 1 \in 1..(Len(s) + 1) /\ e \in 0..Len(s) /\ i + 1 <= e + 1
      /\ (e - (i + 1)) + 1 = n
  BY <1>1
<1>3. g = [j \in 1..((e - (i + 1)) + 1) |-> s[(j + (i + 1)) - 1]] BY <1>2, PartIs
<1> HIDE DEF g
<1>4. g = [j \in 1..n |-> s[(j + (i + 1)) - 1]] BY <1>2, <1>3
<1>5. \A j \in 1..n : (j + (i + 1)) - 1 = i + j OBVIOUS
<1>6. g = [j \in 1..n |-> w[j]] BY <1>4, <1>5
<1>7. w \in [1..n -> T] BY SeqIsFunction
<1>8. w = [j \in 1..n |-> w[j]] BY <1>7
<1> QED BY <1>6, <1>8 DEF g

(* A text and then a NUL, from place k of s on.                             *)
EndsText(S, s, T, k, w) ==
  /\ s \in Seq(S) /\ w \in Seq(T) /\ NUL \notin T
  /\ k \in 1..Len(s) /\ k + Len(w) <= Len(s) /\ s[k + Len(w)] = NUL
  /\ \A j \in 1..Len(w) : s[(k - 1) + j] = w[j]

LEMMA TextRead ==
  ASSUME NEW S, NEW s, NEW T, NEW k, NEW w, EndsText(S, s, T, k, w)
  PROVE  CString(s, k) = w
<1> DEFINE n == k + Len(w)
<1>1. /\ s \in Seq(S) /\ w \in Seq(T) /\ Len(s) \in Nat /\ Len(w) \in Nat /\ k \in Nat
      /\ k \in 1..Len(s) /\ n \in k..Len(s) /\ s[n] = NUL
  BY LenProperties DEF EndsText
<1>2. \A j \in k..(n - 1) : s[j] # NUL
  <2> SUFFICES ASSUME NEW j \in k..(n - 1) PROVE s[j] # NUL OBVIOUS
  <2>1. (j - k) + 1 \in 1..Len(w) /\ (k - 1) + ((j - k) + 1) = j BY <1>1
  <2>2. s[(k - 1) + ((j - k) + 1)] = w[(j - k) + 1] BY <2>1 DEF EndsText
  <2>3. w[(j - k) + 1] \in T BY <1>1, <2>1, ElementOfSeq
  <2> QED BY <2>1, <2>2, <2>3 DEF EndsText
<1>3. CString(s, k) = SubSeq(s, k, n - 1) BY <1>1, <1>2, CStringIs
<1>4. k - 1 \in Nat /\ n - 1 = (k - 1) + Len(w) /\ n - 1 <= Len(s) /\ (k - 1) + 1 = k
  BY <1>1
<1>5. \A j \in 1..Len(w) : s[(k - 1) + j] = w[j] BY DEF EndsText
<1> HIDE DEF n
<1>6. SubSeq(s, (k - 1) + 1, n - 1) = w BY <1>1, <1>4, <1>5, TextAt
<1> QED BY <1>3, <1>4, <1>6

(* The first c of the C string s, which ends at n, is at m.                 *)
Found(S, s, c, n, m) ==
  /\ s \in Seq(S) /\ n \in 1..Len(s) /\ s[n] = NUL /\ m \in 1..(n - 1) /\ s[m] = c
  /\ \A j \in 1..(n - 1) : s[j] # NUL
  /\ \A j \in 1..(m - 1) : s[j] # c

LEMMA LetterFound ==
  ASSUME NEW S, NEW s, NEW c, NEW n, NEW m, Found(S, s, c, n, m)
  PROVE  FindIn(s, c) = m
BY FindIs DEF Found

LEMMA HeadKept ==
  ASSUME NEW S, NEW s \in Seq(S), Len(s) # 0, NEW x \in S
  PROVE  Head(s \o <<x>>) = s[1]
<1> DEFINE w == <<x>>
<1>1. w \in Seq(S) /\ Len(w) = 1 /\ Len(s) \in Nat BY LenProperties
<1> HIDE DEF w
<1>2. /\ s \o w \in Seq(S) /\ Len(s \o w) = Len(s) + Len(w)
      /\ \A i \in 1..(Len(s) + Len(w)) :
           (s \o w)[i] = IF i <= Len(s) THEN s[i] ELSE w[i - Len(s)]
  BY <1>1, ConcatProperties
<1>3. 1 \in 1..(Len(s) + Len(w)) /\ 1 <= Len(s) BY <1>1
<1>4. (s \o w)[1] = s[1] /\ s \o w # <<>> BY <1>1, <1>2, <1>3
<1>5. Head(s \o w) = (s \o w)[1] BY <1>2, <1>4
<1> QED BY <1>4, <1>5 DEF w

(* The request line of any method, path and protocol.                       *)
RequestLineOf(S, t, M, method, path, protocol, a, b, c) ==
  /\ t \in Seq(S) /\ method \in Seq(M) /\ path \in Seq(M) /\ protocol \in Seq(M)
  /\ a = Len(method) /\ b = Len(path) /\ c = Len(protocol) /\ b # 0 /\ path[1] = "/"
  /\ ((a + b) + c) + 2 < Len(t) /\ NUL \notin M
  /\ \A j \in 1..a : t[j] = method[j] /\ method[j] # SP
  /\ t[a + 1] = SP
  /\ \A j \in 1..b : t[(a + 1) + j] = path[j]
  /\ t[(a + b) + 2] = SP
  /\ \A j \in 1..c : t[((a + b) + 2) + j] = protocol[j] /\ protocol[j] # SP
  /\ \A j \in (((a + b) + c) + 3)..Len(t) : t[j] = NUL

LEMMA RequestLineRead ==
  ASSUME NEW S, NUL \in S, NEW M, NEW t, NEW method, NEW path, NEW protocol, NEW a, NEW b, NEW c,
         RequestLineOf(S, t, M, method, path, protocol, a, b, c)
  PROVE  RequestLine(t) = Line(method, path, protocol)
<1>a. /\ t \in Seq(S) /\ method \in Seq(M) /\ path \in Seq(M) /\ protocol \in Seq(M)
      /\ a \in Nat /\ b \in Nat /\ c \in Nat
  BY LenProperties DEF RequestLineOf
<1> SUFFICES
      ASSUME a = Len(method), b = Len(path), c = Len(protocol), b # 0, path[1] = "/",
             ((a + b) + c) + 2 < Len(t),
             NUL \notin M,
             \A j \in 1..a : t[j] = method[j] /\ method[j] # SP,
             t[a + 1] = SP,
             \A j \in 1..b : t[(a + 1) + j] = path[j],
             t[(a + b) + 2] = SP,
             \A j \in 1..c : t[((a + b) + 2) + j] = protocol[j] /\ protocol[j] # SP,
             \A j \in (((a + b) + c) + 3)..Len(t) : t[j] = NUL
      PROVE  RequestLine(t) = Line(method, path, protocol)
  BY DEF RequestLineOf
<1> USE <1>a
<1> DEFINE N == Len(t)
           m == a + 1
           p == (a + b) + 2
           n == ((a + b) + c) + 3
           u == [t EXCEPT ![m] = NUL]
           v == [u EXCEPT ![p] = NUL]
<1>1. /\ N \in Nat /\ m \in 1..N /\ p \in 1..N /\ n \in 1..N /\ m < p /\ p < n
      /\ N \in Nat
  BY LenProperties
<1>2. NUL # SP BY LetterAssumption
<1>3. /\ \A j \in 1..a : method[j] # NUL
      /\ \A j \in 1..b : path[j] # NUL
      /\ \A j \in 1..c : protocol[j] # NUL
  BY ElementOfSeq
<1>4. \A j \in 1..(n - 1) : t[j] # NUL
  <2> SUFFICES ASSUME NEW j \in 1..(n - 1) PROVE t[j] # NUL OBVIOUS
  <2>1. CASE j \in 1..a BY <2>1, <1>3
  <2>2. CASE j = m BY <2>2, <1>2
  <2>3. CASE j \in (m + 1)..(p - 1)
    <3>1. j - m \in 1..b /\ (a + 1) + (j - m) = j BY <2>3
    <3>2. t[(a + 1) + (j - m)] = path[j - m] BY <3>1
    <3> QED BY <3>1, <3>2, <1>3
  <2>4. CASE j = p BY <2>4, <1>2
  <2>5. CASE j \in (p + 1)..(n - 1)
    <3>1. j - p \in 1..c /\ ((a + b) + 2) + (j - p) = j BY <2>5
    <3>2. t[((a + b) + 2) + (j - p)] = protocol[j - p] BY <3>1
    <3> QED BY <3>1, <3>2, <1>3
  <2>6. \/ j \in 1..a \/ j = m \/ j \in (m + 1)..(p - 1) \/ j = p \/ j \in (p + 1)..(n - 1)
    OBVIOUS
  <2> QED BY <2>1, <2>2, <2>3, <2>4, <2>5, <2>6
<1>5. t[n] = NUL /\ t[m] = SP /\ t[p] = SP /\ \A j \in n..N : t[j] = NUL BY <1>1
<1>6. FindIn(t, SP) = m
  <2>1. m \in 1..(n - 1) BY <1>1
  <2>2. \A j \in 1..(m - 1) : t[j] # SP
    <3> SUFFICES ASSUME NEW j \in 1..(m - 1) PROVE t[j] # SP OBVIOUS
    <3>1. j \in 1..a OBVIOUS
    <3> QED BY <3>1
  <2>3. n \in 1..Len(t) BY <1>1
  <2>4. Found(S, t, SP, n, m)
    <3> HIDE DEF m, n, N
    <3> QED BY <1>4, <1>5, <2>1, <2>2, <2>3 DEF Found
  <2> HIDE DEF m, n
  <2> QED BY <2>4, LetterFound
<1>7. /\ u \in Seq(S) /\ Len(u) = N /\ u[m] = NUL
      /\ \A j \in 1..N : j # m => u[j] = t[j]
  <2> HIDE DEF m, n, N, p
  <2> QED BY <1>1 DEF N
<1>8. /\ v \in Seq(S) /\ Len(v) = N /\ v[p] = NUL
      /\ \A j \in 1..N : j # p => v[j] = u[j]
  <2> HIDE DEF m, n, N, p, u
  <2> QED BY <1>1, <1>7
<1> HIDE DEF u, v
<1>9. RequestLine(t) = PathAndProtocol(u, m)
  <2>1. m # 0 OBVIOUS
  <2> QED BY <1>6, <2>1 DEF RequestLine, u
<1>10. CString(u, 1) = method
  <2>1. 1 \in 1..Len(u) /\ m <= Len(u) /\ 1 + Len(method) = m BY <1>1, <1>7
  <2>2. \A j \in 1..Len(method) : u[(1 - 1) + j] = method[j]
    <3> SUFFICES ASSUME NEW j \in 1..a PROVE u[(1 - 1) + j] = method[j] OBVIOUS
    <3>1. (1 - 1) + j = j /\ j \in 1..N /\ j # m BY <1>1
    <3> QED BY <3>1, <1>7
  <2>3. EndsText(S, u, M, 1, method)
    <3> HIDE DEF m, n, N, p
    <3> QED BY <1>7, <2>1, <2>2 DEF EndsText
  <2> QED BY <2>3, TextRead
<1>11. CString(v, m + 1) = path
  <2>1. m + 1 \in 1..Len(v) /\ p <= Len(v) /\ (m + 1) + Len(path) = p BY <1>1, <1>8
  <2>2. \A j \in 1..Len(path) : v[((m + 1) - 1) + j] = path[j]
    <3> SUFFICES ASSUME NEW j \in 1..b PROVE v[((m + 1) - 1) + j] = path[j] OBVIOUS
    <3>1. m + j \in 1..N /\ m + j # m /\ m + j # p /\ m + j = (a + 1) + j
          /\ ((m + 1) - 1) + j = m + j
      BY <1>1
    <3> QED BY <3>1, <1>7, <1>8
  <2>3. EndsText(S, v, M, m + 1, path)
    <3> HIDE DEF m, n, N, p
    <3> QED BY <1>8, <2>1, <2>2 DEF EndsText
  <2> HIDE DEF m
  <2> QED BY <2>3, TextRead
<1>12. CString(u, p + 1) = protocol
  <2>1. p + 1 \in 1..Len(u) /\ n <= Len(u) /\ (p + 1) + Len(protocol) = n /\ u[n] = NUL
    <3>1. n \in 1..N /\ n # m BY <1>1
    <3>2. u[n] = NUL BY <3>1, <1>5, <1>7
    <3> QED BY <3>2, <1>1, <1>7
  <2>2. \A j \in 1..Len(protocol) : u[((p + 1) - 1) + j] = protocol[j]
    <3> SUFFICES ASSUME NEW j \in 1..c PROVE u[((p + 1) - 1) + j] = protocol[j] OBVIOUS
    <3>1. p + j \in 1..N /\ p + j # m /\ p + j = ((a + b) + 2) + j
          /\ ((p + 1) - 1) + j = p + j
      BY <1>1
    <3> QED BY <3>1, <1>7
  <2>3. EndsText(S, u, M, p + 1, protocol)
    <3> HIDE DEF m, n, N, p
    <3> QED BY <1>7, <2>1, <2>2 DEF EndsText
  <2> HIDE DEF p
  <2> QED BY <2>3, TextRead
<1> DEFINE Z == {i \in 1..Len(u) : u[i] # NUL}
           z == SelectLastInSeq(u, LAMBDA x : x # NUL)
           Q == {i \in 1..z : u[i] \in {SP, NUL}}
           q == SelectLastInSubSeq(u, 1, z, LAMBDA x : x \in {SP, NUL})
<1>13. z = n - 1
  <2>1. n - 1 \in 1..N /\ n - 1 # m BY <1>1
  <2>2. n - 1 \in Z BY <2>1, <1>4, <1>7
  <2>3. \A i \in Z : i <= n - 1
    <3> SUFFICES ASSUME NEW i \in Z, n <= i PROVE FALSE BY <1>1, <1>7
    <3>1. i \in n..N /\ i # m /\ i \in 1..N BY <1>1, <1>7
    <3> QED BY <3>1, <1>5, <1>7
  <2>4. z = IF Z # {} THEN Max(Z) ELSE 0 BY DEF SelectLastInSeq
  <2>5. Z \subseteq Int BY <1>1, <1>7
  <2> HIDE DEF Z, z, n
  <2>6. Max(Z) = n - 1 BY <2>2, <2>3, <2>5, MaxFrom
  <2> QED BY <2>2, <2>4, <2>6
<1>14. q = p
  <2>1. p \in 1..(n - 1) /\ p # m /\ p \in 1..N BY <1>1
  <2> HIDE DEF z
  <2>2. p \in Q BY <2>1, <1>5, <1>7, <1>13
  <2>3. \A i \in Q : i <= p
    <3> SUFFICES ASSUME NEW i \in Q, p < i PROVE FALSE BY <1>1, <1>13
    <3>1. i \in (p + 1)..(n - 1) /\ u[i] \in {SP, NUL} BY <1>1, <1>13
    <3>2. i \in 1..N /\ i # m /\ i - p \in 1..c /\ ((a + b) + 2) + (i - p) = i BY <1>1, <3>1
    <3>3. u[i] = t[i] /\ t[i] = protocol[i - p] BY <1>7, <3>2, ZenonT(30)
    <3>4. protocol[i - p] # SP /\ protocol[i - p] # NUL BY <1>3, <3>2
    <3> QED BY <3>1, <3>3, <3>4
  <2>4. q = IF Q # {} THEN Max(Q) ELSE 0 BY DEF SelectLastInSubSeq
  <2>5. Q \subseteq Int BY <1>1, <1>13
  <2> HIDE DEF Q, q, p
  <2>6. Max(Q) = p BY <2>2, <2>3, <2>5, MaxFrom
  <2> QED BY <2>2, <2>4, <2>6
<1>15. u[p] # NUL /\ p # 0
  <2>1. p \in 1..N /\ p # m /\ p # 0 BY <1>1
  <2> QED BY <2>1, <1>2, <1>5, <1>7
<1>16. Head(path \o <<NUL>>) = "/"
  <2> DEFINE W == M \cup {NUL}
  <2>1. path \in Seq(W) /\ NUL \in W /\ Len(path) # 0
    <3>1. path \in [1..b -> W] BY SeqIsFunction
    <3> HIDE DEF W
    <3>2. path \in Seq(W) BY <3>1, FunctionIsSeq
    <3> QED BY <3>2 DEF W
  <2> HIDE DEF W
  <2>2. Head(path \o <<NUL>>) = path[1] BY <2>1, HeadKept
  <2> QED BY <2>2
<1> DEFINE result == PathAndProtocol(u, m)
           path2 == CString([u EXCEPT ![q] = NUL], m + 1)
<1>17. result = IF q = 0 THEN Refused(400)
                ELSE IF u[q] = NUL \/ Head(path2 \o <<NUL>>) # "/" THEN Refused(400)
                ELSE Line(CString(u, 1), path2, CString(u, q + 1))
  BY DEF PathAndProtocol, Line
<1> HIDE DEF q, result
<1>18. path2 = path BY <1>11, <1>14 DEF v
<1> HIDE DEF path2
<1>19. result = Line(CString(u, 1), path, CString(u, p + 1))
  BY <1>14, <1>15, <1>16, <1>17, <1>18
<1>20. result = Line(method, path, protocol)
  BY <1>10, <1>12, <1>19
<1> QED BY <1>9, <1>20 DEF result

(* A field of any name, value and number of blanks before it.               *)
FieldLineOf(S, t, M, name, value, a, b, c) ==
  /\ t \in Seq(S) /\ name \in Seq(M) /\ value \in Seq(M)
  /\ a = Len(name) /\ b \in Nat /\ c = Len(value)
  /\ ((a + b) + c) + 1 < Len(t) /\ NUL \notin M
  /\ \A j \in 1..a : t[j] = name[j] /\ name[j] # ":"
  /\ t[a + 1] = ":"
  /\ \A j \in 1..b : t[(a + 1) + j] = SP
  /\ \A j \in 1..c : t[((a + b) + 1) + j] = value[j]
  /\ c # 0 => value[1] # SP
  /\ t[((a + b) + c) + 2] = NUL

LEMMA FieldRead ==
  ASSUME NEW S, NEW M, NEW t, NEW name, NEW value, NEW a, NEW b, NEW c,
         FieldLineOf(S, t, M, name, value, a, b, c)
  PROVE  HasColon(t) /\ Field(t) = <<name, value>>
<1>a. /\ t \in Seq(S) /\ name \in Seq(M) /\ value \in Seq(M)
      /\ a \in Nat /\ b \in Nat /\ c \in Nat
  BY LenProperties DEF FieldLineOf
<1> SUFFICES
      ASSUME a = Len(name), c = Len(value),
             ((a + b) + c) + 1 < Len(t),
             NUL \notin M,
             \A j \in 1..a : t[j] = name[j] /\ name[j] # ":",
             t[a + 1] = ":",
             \A j \in 1..b : t[(a + 1) + j] = SP,
             \A j \in 1..c : t[((a + b) + 1) + j] = value[j],
             c # 0 => value[1] # SP,
             t[((a + b) + c) + 2] = NUL
      PROVE  HasColon(t) /\ Field(t) = <<name, value>>
  BY DEF FieldLineOf
<1> USE <1>a
<1> DEFINE N == Len(t)
           m == a + 1
           p == (a + b) + 2
           n == ((a + b) + c) + 2
<1>1. /\ N \in Nat /\ m \in 1..N /\ p \in 1..N /\ n \in 1..N /\ m < p /\ p <= n
      /\ m \in 1..(n - 1)
  BY LenProperties
<1>2. NUL # SP /\ NUL # ":" BY LetterAssumption
<1>3. /\ \A j \in 1..a : name[j] # NUL
      /\ \A j \in 1..c : value[j] # NUL
  BY ElementOfSeq
<1>4. \A j \in (m + 1)..(p - 1) : t[j] = SP
  <2> SUFFICES ASSUME NEW j \in (m + 1)..(p - 1) PROVE t[j] = SP OBVIOUS
  <2>1. j - m \in 1..b /\ (a + 1) + (j - m) = j OBVIOUS
  <2>2. t[(a + 1) + (j - m)] = SP BY <2>1
  <2> QED BY <2>1, <2>2
<1>5. \A j \in p..(n - 1) : (j - p) + 1 \in 1..c /\ t[j] = value[(j - p) + 1]
  <2> SUFFICES ASSUME NEW j \in p..(n - 1) PROVE (j - p) + 1 \in 1..c /\ t[j] = value[(j - p) + 1]
    OBVIOUS
  <2>1. (j - p) + 1 \in 1..c /\ ((a + b) + 1) + ((j - p) + 1) = j OBVIOUS
  <2>2. t[((a + b) + 1) + ((j - p) + 1)] = value[(j - p) + 1] BY <2>1
  <2> QED BY <2>1, <2>2
<1>6. \A j \in 1..(n - 1) : t[j] # NUL
  <2> SUFFICES ASSUME NEW j \in 1..(n - 1) PROVE t[j] # NUL OBVIOUS
  <2>1. CASE j \in 1..a BY <2>1, <1>3
  <2>2. CASE j = m BY <2>2, <1>2
  <2>3. CASE j \in (m + 1)..(p - 1) BY <2>3, <1>2, <1>4
  <2>4. CASE j \in p..(n - 1) BY <2>4, <1>3, <1>5
  <2> QED BY <2>1, <2>2, <2>3, <2>4
<1>7. t[n] = NUL /\ t[m] = ":" /\ \A j \in 1..(m - 1) : t[j] # ":"
  <2>1. \A j \in 1..(m - 1) : j \in 1..a OBVIOUS
  <2> QED BY <2>1
<1>8. FindIn(t, ":") = m
  <2>1. Found(S, t, ":", n, m)
    <3>1. n \in 1..Len(t) BY <1>1
    <3> HIDE DEF m, n, N
    <3> QED BY <1>1, <1>6, <1>7, <3>1 DEF Found
  <2> HIDE DEF m, n
  <2> QED BY <2>1, LetterFound
<1>9. SubSeq(t, 1, m - 1) = name
  <2>1. 0 \in Nat /\ a = 0 + Len(name) /\ a <= Len(t) BY <1>1
  <2>2. \A j \in 1..Len(name) : t[0 + j] = name[j] OBVIOUS
  <2>3. SubSeq(t, 0 + 1, a) = name BY <2>1, <2>2, TextAt
  <2>4. 0 + 1 = 1 /\ m - 1 = a OBVIOUS
  <2> QED BY <2>3, <2>4
<1>10. CString(t, p) = value
  <2>1. p \in 1..Len(t) /\ n <= Len(t) /\ p + Len(value) = n BY <1>1
  <2>2. \A j \in 1..Len(value) : t[(p - 1) + j] = value[j]
    <3> SUFFICES ASSUME NEW j \in 1..c PROVE t[(p - 1) + j] = value[j] OBVIOUS
    <3>1. (p - 1) + j = ((a + b) + 1) + j OBVIOUS
    <3> QED BY <3>1
  <2>3. EndsText(S, t, M, p, value)
    <3> HIDE DEF m, n, N, p
    <3> QED BY <1>7, <2>1, <2>2 DEF EndsText
  <2> HIDE DEF p
  <2> QED BY <2>3, TextRead
<1> DEFINE J == {i \in (m + 1)..Len(t) : t[i] # SP}
           v == SelectInSubSeq(t, m + 1, Len(t), LAMBDA x : x # SP)
<1>11. v = p
  <2>1. p \in (m + 1)..N BY <1>1
  <2>2. t[p] # SP
    <3>1. CASE c = 0
      <4>1. p = n BY <3>1
      <4> QED BY <4>1, <1>2, <1>7
    <3>2. CASE c # 0
      <4>1. p \in p..(n - 1) /\ (p - p) + 1 = 1 BY <3>2
      <4>2. t[p] = value[(p - p) + 1] BY <4>1, <1>5
      <4> QED BY <3>2, <4>1, <4>2
    <3> QED BY <3>1, <3>2
  <2>3. p \in J BY <2>1, <2>2
  <2>4. \A i \in J : p <= i
    <3> SUFFICES ASSUME NEW i \in J, i < p PROVE FALSE BY <1>1
    <3>1. i \in (m + 1)..(p - 1) /\ t[i] # SP OBVIOUS
    <3> QED BY <3>1, <1>4
  <2>5. v = IF J # {} THEN Min(J) ELSE 0 BY DEF SelectInSubSeq
  <2>6. J \subseteq Nat OBVIOUS
  <2> HIDE DEF J, v, p
  <2>7. Min(J) = p BY <2>3, <2>4, <2>6, MinFrom, ZenonT(30)
  <2> QED BY <2>3, <2>5, <2>7
<1>12. HasColon(t)
  <2>1. m # 0 OBVIOUS
  <2> QED BY <2>1, <1>8 DEF HasColon
<1>13. Field(t) = <<SubSeq(t, 1, m - 1), CString(t, v)>>
  <2> HIDE DEF m
  <2> QED BY <1>8 DEF Field
<1> HIDE DEF v, m, p
<1> QED BY <1>9, <1>10, <1>11, <1>12, <1>13

(* Texts are put after one another from the first one on.                   *)
FlatRuns(S, seqs, n) ==
  \E r : /\ FlattenSeq(seqs) = r[n]
         /\ \A i \in 1..n : /\ r[i] \in Seq(S)
                            /\ r[i] = IF i = 1 THEN seqs[i] ELSE r[i - 1] \o seqs[i]

LEMMA FlattenSteps ==
  ASSUME NEW S, NEW seqs \in Seq(Seq(S)), NEW n, n = Len(seqs), n # 0
  PROVE  FlatRuns(S, seqs, n)
<1> DEFINE start == seqs[1]
           step == [p \in Seq(S) \X (2..n) |-> p[1] \o seqs[p[2]]]
           Is(g) == g = [i \in 1..n |-> IF i = 1 THEN seqs[i] ELSE g[i - 1] \o seqs[i]]
           w == Stepwise(1, n, start, step)
           r == CHOOSE g : Is(g)
<1>1. n \in Nat /\ 1 \in Int /\ n \in Int /\ 1 \in 1..n /\ n \in 1..n BY LenProperties
<1>2. \A i \in 1..n : seqs[i] \in Seq(S) BY ElementOfSeq
<1>3. start \in Seq(S) BY <1>1, <1>2
<1>4. step \in [Seq(S) \X ((1 + 1)..n) -> Seq(S)]
  <2> SUFFICES ASSUME NEW p \in Seq(S) \X (2..n) PROVE p[1] \o seqs[p[2]] \in Seq(S)
    OBVIOUS
  <2>1. p[1] \in Seq(S) /\ p[2] \in 1..n BY <1>1
  <2>2. seqs[p[2]] \in Seq(S) BY <2>1, <1>2
  <2> QED BY <2>1, <2>2, ConcatProperties
<1>5. ASSUME NEW i \in 2..n, NEW v \in Seq(S) PROVE step[<<v, i>>] = v \o seqs[i]
  OBVIOUS
<1>6. FlattenSeq(seqs) = r[n]
  <2>1. Len(seqs) # 0 OBVIOUS
  <2> QED BY <2>1 DEF FlattenSeq
<1>7. \A i \in 1..n : i = 1 => seqs[i] = start OBVIOUS
<1> HIDE DEF start, step, w
<1>8. FollowsSteps(w, 1, n, start, step) BY <1>1, <1>3, <1>4, StepwiseFollows DEF w
<1>9. \A i \in 1..n : w[i] \in Seq(S) BY <1>1, <1>3, <1>4, <1>8, StepwiseTyped
<1>10. ASSUME NEW i \in 1..n PROVE w[i] = IF i = 1 THEN seqs[i] ELSE w[i - 1] \o seqs[i]
  <2>1. w[i] = IF i = 1 THEN start ELSE step[<<w[i - 1], i>>] BY <1>8 DEF FollowsSteps
  <2>2. i # 1 => i - 1 \in 1..n /\ i \in 2..n BY <1>1
  <2> QED BY <1>5, <1>7, <1>9, <2>1, <2>2
<1>11. \E g : Is(g)
  <2> DEFINE g == [i \in 1..n |-> w[i]]
  <2>1. \A i \in 1..n : i # 1 => g[i - 1] = w[i - 1] BY <1>1
  <2>2. Is(g) BY <1>10, <2>1
  <2> QED BY <2>2
<1>12. Is(r)
  <2> HIDE DEF Is
  <2> QED BY <1>11
<1> HIDE DEF r
<1>13. \A i \in 1..n : r[i] = IF i = 1 THEN seqs[i] ELSE r[i - 1] \o seqs[i] BY <1>12
<1> DEFINE T == {i \in 1..n : r[i] \in Seq(S)}
<1>14. 1 \in T BY <1>1, <1>2, <1>13
<1>15. ASSUME NEW i \in (1 + 1)..n, i - 1 \in T PROVE i \in T
  <2>1. i \in 1..n /\ i # 1 /\ r[i - 1] \in Seq(S) BY <1>1, <1>15
  <2>2. r[i] = r[i - 1] \o seqs[i] BY <2>1, <1>13
  <2>3. seqs[i] \in Seq(S) BY <2>1, <1>2
  <2>4. r[i] \in Seq(S) BY <2>1, <2>2, <2>3, ConcatProperties
  <2> QED BY <2>1, <2>4
<1> HIDE DEF T
<1>16. \A i \in 1..n : i \in T BY <1>1, <1>14, <1>15, UpwardInduction
<1>17. \A i \in 1..n : r[i] \in Seq(S) BY <1>16 DEF T
<1> QED BY <1>6, <1>13, <1>17 DEF FlatRuns

(* Where each of the texts stands in the whole.                             *)
FlatCuts(seqs, n, E) ==
  /\ E \in [0..n -> Nat] /\ E[0] = 0 /\ E[n] = Len(FlattenSeq(seqs))
  /\ \A i \in 1..n : /\ E[i] = E[i - 1] + Len(seqs[i])
                     /\ \A j \in 1..Len(seqs[i]) : FlattenSeq(seqs)[E[i - 1] + j] = seqs[i][j]

LEMMA FlattenedAt ==
  ASSUME NEW S, NEW seqs \in Seq(Seq(S)), NEW n, n = Len(seqs)
  PROVE  FlattenSeq(seqs) \in Seq(S) /\ \E E : FlatCuts(seqs, n, E)
<1>1. CASE n = 0
  <2>1. seqs = <<>>
    <3>1. Len(seqs) = 0 BY <1>1
    <3> QED BY <3>1
  <2>2. FlattenSeq(seqs) = <<>> BY <1>1, <2>1 DEF FlattenSeq
  <2> DEFINE E == [i \in 0..n |-> 0]
  <2>3. E \in [0..n -> Nat] /\ E[0] = 0 /\ E[n] = 0 BY <1>1
  <2>4. 1..n = {} BY <1>1
  <2>5. FlatCuts(seqs, n, E) BY <2>2, <2>3, <2>4 DEF FlatCuts
  <2> QED BY <2>2, <2>5
<1>2. CASE n # 0
  <2>1. PICK r : /\ FlattenSeq(seqs) = r[n]
                 /\ \A i \in 1..n : /\ r[i] \in Seq(S)
                                    /\ r[i] = IF i = 1 THEN seqs[i] ELSE r[i - 1] \o seqs[i]
    <3>1. FlatRuns(S, seqs, n) BY <1>2, FlattenSteps
    <3> QED BY <3>1 DEF FlatRuns
  <2>2. n \in Nat /\ 1 \in 1..n /\ n \in 1..n /\ 0 \in 0..n /\ n \in 0..n BY <1>2, LenProperties
  <2>3. \A i \in 1..n : seqs[i] \in Seq(S) /\ Len(seqs[i]) \in Nat BY ElementOfSeq, LenProperties
  <2> DEFINE E == [i \in 0..n |-> IF i = 0 THEN 0 ELSE Len(r[i])]
  <2>4. \A i \in 1..n : r[i] \in Seq(S) /\ Len(r[i]) \in Nat BY <2>1, LenProperties
  <2>5. E \in [0..n -> Nat] /\ E[0] = 0 /\ \A i \in 1..n : E[i] = Len(r[i]) BY <2>2, <2>4
  <2>6. ASSUME NEW i \in 1..n
        PROVE  /\ E[i] = E[i - 1] + Len(seqs[i])
               /\ \A j \in 1..Len(seqs[i]) : r[i][E[i - 1] + j] = seqs[i][j]
               /\ i # 1 => \A j \in 1..E[i - 1] : r[i][j] = r[i - 1][j]
    <3>1. CASE i = 1
      <4>1. r[i] = seqs[i] /\ E[i - 1] = 0 BY <2>1, <2>5, <3>1
      <4>2. \A j \in 1..Len(seqs[i]) : 0 + j = j OBVIOUS
      <4> HIDE DEF E
      <4> QED BY <3>1, <4>1, <4>2, <2>3, <2>5
    <3>2. CASE i # 1
      <4>1. i - 1 \in 1..n BY <3>2, <2>2
      <4> DEFINE p == r[i - 1]
                 q == seqs[i]
      <4>2. p \in Seq(S) /\ q \in Seq(S) /\ Len(p) \in Nat /\ Len(q) \in Nat /\ E[i - 1] = Len(p)
        BY <4>1, <2>3, <2>4, <2>5
      <4>3. r[i] = p \o q BY <2>1, <3>2
      <4> HIDE DEF p, q, E
      <4>4. E[i] = Len(p \o q) BY <2>5, <4>3
      <4>5. /\ Len(p \o q) = Len(p) + Len(q)
            /\ \A j \in 1..(Len(p) + Len(q)) : (p \o q)[j] = IF j <= Len(p) THEN p[j] ELSE q[j - Len(p)]
        BY <4>2, ConcatProperties
      <4>6. \A j \in 1..Len(p) : (p \o q)[j] = p[j]
        <5>1. \A j \in 1..Len(p) : j \in 1..(Len(p) + Len(q)) /\ j <= Len(p) BY <4>2
        <5> QED BY <5>1, <4>5
      <4>7. \A j \in 1..Len(q) : (p \o q)[Len(p) + j] = q[j]
        <5>1. \A j \in 1..Len(q) : Len(p) + j \in 1..(Len(p) + Len(q)) /\ ~(Len(p) + j <= Len(p))
                                   /\ (Len(p) + j) - Len(p) = j
          BY <4>2
        <5> QED BY <5>1, <4>5
      <4> QED BY <4>2, <4>3, <4>4, <4>5, <4>6, <4>7 DEF p, q
    <3> QED BY <3>1, <3>2
  <2> HIDE DEF E
  <2>7. ASSUME NEW i \in 1..n PROVE \A j \in 1..E[i] : r[n][j] = r[i][j]
    <3> DEFINE T == {k \in i..n : E[i] <= E[k] /\ \A j \in 1..E[i] : r[k][j] = r[i][j]}
    <3>0. \A k \in 0..n : E[k] \in Nat BY <2>5
    <3>1. i \in T
      <4>1. i \in 0..n /\ i \in i..n BY <2>2
      <4>2. E[i] \in Nat BY <3>0, <4>1
      <4> QED BY <4>1, <4>2
    <3>2. ASSUME NEW k \in (i + 1)..n, k - 1 \in T PROVE k \in T
      <4>1. k \in 1..n /\ k # 1 /\ k - 1 \in 1..n /\ k \in i..n BY <2>2
      <4>2. E[i] <= E[k - 1] /\ \A j \in 1..E[i] : r[k - 1][j] = r[i][j] BY <3>2
      <4>3. E[i] \in Nat /\ E[k - 1] \in Nat /\ E[k] \in Nat /\ Len(seqs[k]) \in Nat
        <5>1. i \in 0..n /\ k - 1 \in 0..n /\ k \in 0..n BY <4>1, <2>2
        <5> QED BY <5>1, <3>0, <4>1, <2>3
      <4>4. E[k] = E[k - 1] + Len(seqs[k]) /\ \A j \in 1..E[k - 1] : r[k][j] = r[k - 1][j]
        BY <4>1, <2>6
      <4>5. E[i] <= E[k] BY <4>2, <4>3, <4>4
      <4>6. \A j \in 1..E[i] : j \in 1..E[k - 1] BY <4>2, <4>3
      <4>7. \A j \in 1..E[i] : r[k][j] = r[i][j] BY <4>2, <4>4, <4>6
      <4> QED BY <4>1, <4>5, <4>7
    <3> HIDE DEF T
    <3>3. i \in Int /\ n \in Int /\ n \in i..n BY <2>2
    <3>4. n \in T BY <3>1, <3>2, <3>3, UpwardInduction
    <3> QED BY <3>4 DEF T
  <2>8. ASSUME NEW i \in 1..n, NEW j \in 1..Len(seqs[i])
        PROVE  FlattenSeq(seqs)[E[i - 1] + j] = seqs[i][j]
    <3>1. i \in 0..n /\ i - 1 \in 0..n BY <2>2
    <3>2. E[i] \in Nat /\ E[i - 1] \in Nat /\ Len(seqs[i]) \in Nat BY <3>1, <2>3, <2>5
    <3>3. E[i] = E[i - 1] + Len(seqs[i]) BY <2>6
    <3>4. E[i - 1] + j \in 1..E[i] BY <3>2, <3>3
    <3>5. r[n][E[i - 1] + j] = r[i][E[i - 1] + j] BY <3>4, <2>7
    <3>6. r[i][E[i - 1] + j] = seqs[i][j] BY <2>6
    <3> QED BY <3>5, <3>6, <2>1
  <2>9. E[n] = Len(FlattenSeq(seqs)) BY <2>1, <2>2, <2>5
  <2>10. FlatCuts(seqs, n, E) BY <2>5, <2>6, <2>8, <2>9 DEF FlatCuts
  <2> QED BY <2>1, <2>2, <2>10
<1> QED BY <1>1, <1>2

(* A line: no invalid character, LF at its end only and CR only before it.  *)
OneLine(t) ==
  /\ Len(t) # 0 /\ t[Len(t)] = LF
  /\ \A j \in 1..Len(t) : /\ t[j] \notin Invalid
                          /\ t[j] = LF => j = Len(t)
                          /\ t[j] = CR => j + 1 = Len(t)

(* Lines that make up a text one after another.                             *)
LaidOut(h, K, E, line) ==
  /\ E \in [0..K -> Nat] /\ E[0] = 0 /\ E[K] = Len(h)
  /\ \A n \in 1..K : /\ E[n] = E[n - 1] + Len(line[n])
                     /\ \A j \in 1..Len(line[n]) : h[E[n - 1] + j] = line[n][j]

(* Places in a part of a text.                                              *)
LEMMA PlaceInPart ==
  ASSUME NEW a \in Nat, NEW l \in Nat, NEW e \in Nat, e = a + l, NEW i \in (a + 1)..e
  PROVE  i - a \in 1..l /\ a + (i - a) = i /\ (i = e <=> i - a = l)
OBVIOUS

(* Lines of which the last one alone is empty.                              *)
EmptyLast(K, line) ==
  /\ \A n \in 1..K : OneLine(line[n])
  /\ \A n \in 1..(K - 1) : \E j \in 1..(Len(line[n]) - 1) : line[n][j] # CR
  /\ \A j \in 1..(Len(line[K]) - 1) : line[K][j] = CR

NulledLines(K, line) == [n \in 1..(K - 1) |-> Nulled(line[n])]

LEMMA LinesLaidOut ==
  ASSUME NEW S, NEW h \in Seq(S), NEW K \in Nat, 2 <= K, NEW E, NEW line \in [1..K -> Seq(S)],
         LaidOut(h, K, E, line), EmptyLast(K, line)
  PROVE  /\ HeaderEnds(h) = {Len(h)}
         /\ Parse(h) = ParseLines(NulledLines(K, line), Len(h))
<1> USE DEF EmptyLast
<1>1. Len(h) \in Nat /\ \A n \in 1..K : line[n] \in Seq(S) /\ Len(line[n]) \in Nat
  BY LenProperties
<1>2. \A n \in 1..K : /\ E[n - 1] \in Nat /\ E[n] \in Nat /\ E[n] = E[n - 1] + Len(line[n])
                      /\ Len(line[n]) # 0 /\ E[n - 1] < E[n]
  <2> SUFFICES ASSUME NEW n \in 1..K
               PROVE  /\ E[n - 1] \in Nat /\ E[n] \in Nat /\ E[n] = E[n - 1] + Len(line[n])
                      /\ Len(line[n]) # 0 /\ E[n - 1] < E[n]
    OBVIOUS
  <2>1. n - 1 \in 0..K /\ n \in 0..K OBVIOUS
  <2>2. E[n - 1] \in Nat /\ E[n] \in Nat /\ E[n] = E[n - 1] + Len(line[n]) BY <2>1 DEF LaidOut
  <2>3. Len(line[n]) # 0 BY DEF OneLine
  <2> QED BY <1>1, <2>2, <2>3
<1>3. ASSUME NEW n \in 1..K, NEW i \in (E[n - 1] + 1)..E[n]
      PROVE  /\ i - E[n - 1] \in 1..Len(line[n]) /\ h[i] = line[n][i - E[n - 1]]
             /\ (i = E[n] <=> i - E[n - 1] = Len(line[n]))
  <2> DEFINE a == E[n - 1]
             l == Len(line[n])
             e == E[n]
  <2>1. a \in Nat /\ l \in Nat /\ e \in Nat /\ e = a + l /\ i \in (a + 1)..e BY <1>1, <1>2
  <2>2. \A j \in 1..l : h[a + j] = line[n][j] BY DEF LaidOut
  <2> HIDE DEF a, l, e
  <2>3. i - a \in 1..l /\ a + (i - a) = i /\ (i = e <=> i - a = l) BY <2>1, PlaceInPart
  <2>4. h[a + (i - a)] = line[n][i - a] BY <2>2, <2>3
  <2>5. h[i] = line[n][i - a] BY <2>3, <2>4
  <2> QED BY <2>3, <2>5 DEF a, l, e
<1>4. CutsLines(h, K, E)
  <2>1. ASSUME NEW n \in 1..K PROVE h[E[n]] = LF
    <3>1. E[n] \in Nat /\ E[n - 1] \in Nat /\ E[n - 1] < E[n] BY <1>2
    <3>2. E[n] \in (E[n - 1] + 1)..E[n] BY <3>1
    <3>3. h[E[n]] = line[n][Len(line[n])] BY <3>2, <1>3
    <3> QED BY <3>3 DEF OneLine
  <2>2. ASSUME NEW n \in 1..K, NEW i \in (E[n - 1] + 1)..(E[n] - 1) PROVE h[i] # LF
    <3>0. E[n] \in Nat /\ E[n - 1] \in Nat BY <1>2
    <3>1. i \in (E[n - 1] + 1)..E[n] /\ i # E[n] BY <3>0
    <3>2. i - E[n - 1] \in 1..Len(line[n]) /\ h[i] = line[n][i - E[n - 1]]
          /\ i - E[n - 1] # Len(line[n])
      BY <3>1, <1>3
    <3> QED BY <3>2 DEF OneLine
  <2> QED BY <2>1, <2>2, <1>2 DEF CutsLines, LaidOut
<1>5. ASSUME NEW i \in 1..Len(h)
      PROVE  h[i] \notin Invalid /\ (h[i] = CR => i + 1 <= Len(h) /\ h[i + 1] = LF)
  <2>1. PICK n \in 1..K : i \in (E[n - 1] + 1)..E[n] BY <1>4, CutsCover
  <2> DEFINE j == i - E[n - 1]
  <2>2. j \in 1..Len(line[n]) /\ h[i] = line[n][j] BY <2>1, <1>3
  <2>3. h[i] \notin Invalid BY <2>2 DEF OneLine
  <2>4. ASSUME h[i] = CR PROVE i + 1 <= Len(h) /\ h[i + 1] = LF
    <3>1. j + 1 = Len(line[n]) BY <2>2, <2>4 DEF OneLine
    <3>2. E[n] = E[n - 1] + Len(line[n]) /\ E[n] \in Nat /\ E[n - 1] \in Nat BY <1>2
    <3>3. i + 1 = E[n]
      <4> DEFINE a == E[n - 1]
                 l == Len(line[n])
      <4>1. (i - a) + 1 = l /\ E[n] = a + l /\ a \in Nat BY <3>1, <3>2
      <4> HIDE DEF a, l
      <4> QED BY <4>1
    <3>4. h[E[n]] = LF BY <1>4 DEF CutsLines
    <3>5. E[n] <= E[K]
      <4>1. n \in 0..K /\ K \in n..K OBVIOUS
      <4> QED BY <4>1, <1>4, CutsRise
    <3>6. E[K] = Len(h) BY DEF LaidOut
    <3> QED BY <3>3, <3>4, <3>5, <3>6
  <2> QED BY <2>3, <2>4
<1>6. ASSUME NEW n \in 1..(K - 1) PROVE \E i \in (E[n - 1] + 1)..(E[n] - 1) : h[i] # CR
  <2>1. n \in 1..K OBVIOUS
  <2>2. PICK j \in 1..(Len(line[n]) - 1) : line[n][j] # CR OBVIOUS
  <2>3. E[n - 1] + j \in (E[n - 1] + 1)..(E[n] - 1) /\ j \in 1..Len(line[n])
    <3> DEFINE a == E[n - 1]
               l == Len(line[n])
    <3>1. l \in Nat /\ E[n] = a + l /\ a \in Nat /\ j \in 1..(l - 1) BY <1>1, <1>2, <2>1
    <3> HIDE DEF a, l
    <3>2. a + j \in (a + 1)..(E[n] - 1) /\ j \in 1..l BY <3>1
    <3> QED BY <3>2 DEF a, l
  <2>4. h[E[n - 1] + j] = line[n][j] BY <2>1, <2>3 DEF LaidOut
  <2> QED BY <2>2, <2>3, <2>4
<1>7. ASSUME NEW i \in (E[K - 1] + 1)..(E[K] - 1) PROVE h[i] = CR
  <2>1. K \in 1..K OBVIOUS
  <2>0. E[K - 1] \in Nat /\ E[K] \in Nat BY <1>2, <2>1
  <2>2. i \in (E[K - 1] + 1)..E[K] /\ i # E[K] BY <2>0
  <2>3. i - E[K - 1] \in 1..Len(line[K]) /\ h[i] = line[K][i - E[K - 1]]
        /\ i - E[K - 1] # Len(line[K])
    BY <2>1, <2>2, <1>3
  <2>4. Len(line[K]) \in Nat BY <2>1, <1>1
  <2>5. i - E[K - 1] \in 1..(Len(line[K]) - 1) BY <2>3, <2>4
  <2> QED BY <2>3, <2>5
<1>8. HeaderLines(h, K, E) BY <1>4, <1>5, <1>6, <1>7 DEF HeaderLines
<1>9. ASSUME NEW n \in 1..(K - 1) PROVE CutLine(h, E, n) = Nulled(line[n])
  <2>1. n \in 1..K /\ n - 1 \in 0..K /\ n \in 0..K OBVIOUS
  <2> DEFINE w == line[n]
             a == E[n - 1]
             e == E[n]
  <2>2. E[n] <= Len(h)
    <3>1. K \in n..K OBVIOUS
    <3>2. E[n] <= E[K] BY <2>1, <3>1, <1>4, CutsRise
    <3> QED BY <3>2 DEF LaidOut
  <2>3. w \in Seq(S) /\ a \in Nat /\ e = a + Len(w) /\ e <= Len(h) BY <1>1, <1>2, <2>1, <2>2
  <2>4. \A j \in 1..Len(w) : h[a + j] = w[j] BY <2>1 DEF LaidOut
  <2>5. CutLine(h, E, n) = Nulled(SubSeq(h, a + 1, e)) BY DEF CutLine
  <2> HIDE DEF w, a, e
  <2>6. SubSeq(h, a + 1, e) = w BY <2>3, <2>4, TextAt
  <2> QED BY <2>5, <2>6 DEF w
<1>10. HeaderEnds(h) = {Len(h)}
       /\ Parse(h) = ParseLines([n \in 1..(K - 1) |-> CutLine(h, E, n)], Len(h))
  BY <1>8, HeaderScanned
<1>11. [n \in 1..(K - 1) |-> CutLine(h, E, n)] = NulledLines(K, line)
  BY <1>9 DEF NulledLines
<1> QED BY <1>10, <1>11

(* Where the letters of two texts are in both together.                     *)
Follows(S, w, u, v) ==
  /\ w \in Seq(S) /\ Len(w) = Len(u) + Len(v)
  /\ \A j \in 1..Len(u) : w[j] = u[j]
  /\ \A j \in 1..Len(v) : w[Len(u) + j] = v[j]

LEMMA Joined ==
  ASSUME NEW S, NEW u \in Seq(S), NEW v \in Seq(S)
  PROVE  Follows(S, u \o v, u, v)
<1>1. Len(u) \in Nat /\ Len(v) \in Nat BY LenProperties
<1>2. /\ u \o v \in Seq(S) /\ Len(u \o v) = Len(u) + Len(v)
      /\ \A j \in 1..(Len(u) + Len(v)) :
           (u \o v)[j] = IF j <= Len(u) THEN u[j] ELSE v[j - Len(u)]
  BY ConcatProperties
<1>3. \A j \in 1..Len(u) : (u \o v)[j] = u[j]
  <2>1. \A j \in 1..Len(u) : j \in 1..(Len(u) + Len(v)) /\ j <= Len(u) BY <1>1
  <2> QED BY <2>1, <1>2
<1>4. \A j \in 1..Len(v) : (u \o v)[Len(u) + j] = v[j]
  <2>1. \A j \in 1..Len(v) : /\ Len(u) + j \in 1..(Len(u) + Len(v)) /\ ~(Len(u) + j <= Len(u))
                             /\ (Len(u) + j) - Len(u) = j
    BY <1>1
  <2> QED BY <2>1, <1>2
<1> QED BY <1>2, <1>3, <1>4 DEF Follows

Controls == Invalid \cup {CR, LF}
LineEndings == {<<CR, LF>>, <<LF>>}

LEMMA LineEndingIs ==
  ASSUME NEW eol \in LineEndings
  PROVE  /\ eol \in Seq({CR, LF}) /\ Len(eol) \in Nat /\ Len(eol) # 0
         /\ eol[Len(eol)] = LF /\ \A j \in 1..(Len(eol) - 1) : eol[j] = CR
<1>1. CASE eol = <<CR, LF>>
  <2> DEFINE c == <<CR, LF>>
  <2>1. c \in Seq({CR, LF}) /\ Len(c) = 2 /\ c[2] = LF /\ c[1] = CR OBVIOUS
  <2> HIDE DEF c
  <2>2. \A j \in 1..(2 - 1) : j = 1 OBVIOUS
  <2> QED BY <1>1, <2>1, <2>2 DEF c
<1>2. CASE eol = <<LF>>
  <2> DEFINE c == <<LF>>
  <2>1. c \in Seq({CR, LF}) /\ Len(c) = 1 /\ c[1] = LF OBVIOUS
  <2> HIDE DEF c
  <2>2. 1..(1 - 1) = {} OBVIOUS
  <2> QED BY <1>2, <2>1, <2>2 DEF c
<1> QED BY <1>1, <1>2 DEF LineEndings

(* A text without control characters and the end of its line.               *)
LineOf(M, t, w, eol) ==
  /\ t \in Seq(M \cup {CR, LF}) /\ Len(t) = Len(w) + Len(eol) /\ OneLine(t)
  /\ \A j \in 1..(Len(t) - 1) : j > Len(w) => t[j] = CR
  /\ Nulled(t) \in Seq(M \cup {NUL}) /\ Len(Nulled(t)) = Len(t)
  /\ \A j \in 1..Len(w) : t[j] = w[j] /\ Nulled(t)[j] = w[j]
  /\ \A j \in (Len(w) + 1)..Len(t) : Nulled(t)[j] = NUL

LEMMA LineMade ==
  ASSUME NEW M, M \cap Controls = {}, NEW w \in Seq(M), NEW eol \in LineEndings,
         NEW t, t = w \o eol
  PROVE  LineOf(M, t, w, eol)
<1> DEFINE T == M \cup {CR, LF}
           n == Len(w)
           k == Len(eol)
<1>1. /\ eol \in Seq({CR, LF}) /\ k \in Nat /\ k # 0
      /\ eol[k] = LF /\ \A j \in 1..(k - 1) : eol[j] = CR
  BY LineEndingIs
<1>2. n \in Nat /\ DOMAIN w = 1..n /\ \A j \in 1..n : w[j] \in M BY LenProperties, ElementOfSeq
<1>3. w \in Seq(T) /\ eol \in Seq(T)
  <2>1. w \in [1..n -> T] BY SeqIsFunction
  <2>2. eol \in [1..k -> T] BY <1>1, SeqIsFunction
  <2> HIDE DEF T
  <2> QED BY <1>1, <1>2, <2>1, <2>2, FunctionIsSeq
<1> HIDE DEF T
<1>4. /\ t \in Seq(T) /\ Len(t) = Len(w) + Len(eol)
      /\ \A j \in 1..Len(w) : t[j] = w[j]
      /\ \A j \in 1..Len(eol) : t[Len(w) + j] = eol[j]
  <2>1. Follows(T, w \o eol, w, eol) BY <1>3, Joined
  <2> QED BY <2>1 DEF Follows
<1>5. \A j \in (n + 1)..(n + k) : j - n \in 1..k /\ t[j] = eol[j - n]
  <2> SUFFICES ASSUME NEW j \in (n + 1)..(n + k) PROVE j - n \in 1..k /\ t[j] = eol[j - n]
    OBVIOUS
  <2>1. j - n \in 1..k /\ n + (j - n) = j BY <1>1, <1>2
  <2>2. t[n + (j - n)] = eol[j - n] BY <1>4, <2>1
  <2> QED BY <2>1, <2>2
<1>6. Len(t) = n + k /\ DOMAIN t = 1..(n + k) BY <1>4, LenProperties
<1>7. t[n + k] = LF
  <2>1. n + k \in (n + 1)..(n + k) /\ (n + k) - n = k BY <1>1, <1>2
  <2> QED BY <2>1, <1>1, <1>5
<1>8. ASSUME NEW j \in 1..(n + k), j > n, j # n + k PROVE t[j] = CR
  <2>1. j \in (n + 1)..(n + k) /\ (j - n) \in 1..(k - 1) BY <1>1, <1>2, <1>8
  <2> QED BY <2>1, <1>1, <1>5
<1>9. \A j \in 1..n : t[j] = w[j] /\ t[j] \in M BY <1>2, <1>4
<1>10. CR # LF /\ CR \notin Invalid /\ LF \notin Invalid
  BY LetterAssumption DEF CR, LF, Invalid
<1>11. \A j \in 1..n : t[j] \notin Invalid /\ t[j] # CR /\ t[j] # LF BY <1>9 DEF Controls
<1>12. ASSUME NEW j \in 1..(n + k)
       PROVE  j \in 1..n \/ (j > n /\ j # n + k /\ t[j] = CR) \/ (j = n + k /\ t[j] = LF)
  BY <1>1, <1>2, <1>7, <1>8
<1>13. ASSUME NEW j \in 1..(n + k)
       PROVE  /\ t[j] \notin Invalid
              /\ t[j] = LF => j = n + k
              /\ t[j] = CR => j + 1 = n + k
  <2>1. CASE j \in 1..n BY <2>1, <1>11
  <2>2. CASE j > n /\ j # n + k /\ t[j] = CR
    <3>1. k = 2
      <4>1. k = 1 \/ k = 2
        <5>1. eol = <<CR, LF>> \/ eol = <<LF>> BY DEF LineEndings
        <5>2. Len(<<CR, LF>>) = 2 /\ Len(<<LF>>) = 1 OBVIOUS
        <5> QED BY <5>1, <5>2
      <4> QED BY <4>1, <2>2, <1>2
    <3>2. j + 1 = n + k BY <3>1, <2>2, <1>2
    <3> QED BY <3>2, <2>2, <1>10
  <2>3. CASE j = n + k /\ t[j] = LF BY <2>3, <1>10
  <2> QED BY <2>1, <2>2, <2>3, <1>12
<1>14. OneLine(t)
  <2>1. n + k # 0 BY <1>1, <1>2
  <2> HIDE DEF n, k
  <2> QED BY <2>1, <1>6, <1>7, <1>13 DEF OneLine
<1>15. \A j \in 1..(Len(t) - 1) : j > n => t[j] = CR
  <2>1. \A j \in 1..(Len(t) - 1) : j \in 1..(n + k) /\ j # n + k BY <1>6, <1>1, <1>2
  <2> QED BY <2>1, <1>8
<1> DEFINE u == Nulled(t)
<1>16. u = [j \in 1..(n + k) |-> IF t[j] \in {CR, LF} THEN NUL ELSE t[j]]
  BY <1>6 DEF Nulled
<1> HIDE DEF u
<1>17. \A j \in 1..n : j \in 1..(n + k) /\ u[j] = w[j] BY <1>1, <1>2, <1>9, <1>11, <1>16
<1>18. \A j \in (n + 1)..Len(t) : u[j] = NUL
  <2> SUFFICES ASSUME NEW j \in (n + 1)..(n + k) PROVE u[j] = NUL BY <1>6
  <2>1. j \in 1..(n + k) /\ j \notin 1..n BY <1>1, <1>2
  <2>2. t[j] \in {CR, LF} BY <2>1, <1>12
  <2> QED BY <2>1, <2>2, <1>16
<1>19. u \in [1..(n + k) -> M \cup {NUL}]
  <2>1. \A j \in 1..(n + k) : u[j] \in M \cup {NUL}
    <3> SUFFICES ASSUME NEW j \in 1..(n + k) PROVE u[j] \in M \cup {NUL} OBVIOUS
    <3>1. CASE j \in 1..n BY <3>1, <1>2, <1>17
    <3>2. CASE j \notin 1..n
      <4>1. j \in (n + 1)..Len(t) BY <3>2, <1>2, <1>6
      <4> QED BY <4>1, <1>18
    <3> QED BY <3>1, <3>2
  <2> QED BY <2>1, <1>16
<1>20. u \in Seq(M \cup {NUL}) /\ Len(u) = n + k
  <2>1. n + k \in Nat BY <1>1, <1>2
  <2> HIDE DEF n, k
  <2> QED BY <2>1, <1>19, FunctionIsSeq
<1> QED BY <1>4, <1>6, <1>9, <1>14, <1>15, <1>17, <1>18, <1>20 DEF u, T, LineOf

LEMMA SeqWithin ==
  ASSUME NEW A, NEW B, A \subseteq B, NEW s \in Seq(A)
  PROVE  s \in Seq(B)
<1>1. s \in [1..Len(s) -> A] /\ Len(s) \in Nat BY SeqIsFunction, LenProperties
<1>2. s \in [1..Len(s) -> B] BY <1>1
<1> QED BY <1>1, <1>2, FunctionIsSeq

(* Four texts, one letter between the first two.                            *)
FollowAround(M, w, u, c, v, x) ==
  /\ w \in Seq(M) /\ Len(w) = ((Len(u) + 1) + Len(v)) + Len(x)
  /\ \A j \in 1..Len(u) : w[j] = u[j]
  /\ w[Len(u) + 1] = c
  /\ \A j \in 1..Len(v) : w[(Len(u) + 1) + j] = v[j]
  /\ \A j \in 1..Len(x) : w[((Len(u) + 1) + Len(v)) + j] = x[j]

LEMMA JoinedAround ==
  ASSUME NEW M, NEW c \in M, NEW u \in Seq(M), NEW v \in Seq(M), NEW x \in Seq(M), NEW w,
         w = ((u \o <<c>>) \o v) \o x
  PROVE  FollowAround(M, w, u, c, v, x)
<1> DEFINE d == <<c>>
<1>1. d \in Seq(M) /\ Len(d) = 1 /\ d[1] = c OBVIOUS
<1> HIDE DEF d
<1>2. Len(u) \in Nat /\ Len(v) \in Nat /\ Len(x) \in Nat BY LenProperties
<1> DEFINE p == u \o d
<1>3. /\ p \in Seq(M) /\ Len(p) = Len(u) + 1
      /\ \A j \in 1..Len(u) : p[j] = u[j]
      /\ p[Len(u) + 1] = c
  <2>1. /\ p \in Seq(M) /\ Len(p) = Len(u) + Len(d)
        /\ \A j \in 1..Len(u) : p[j] = u[j]
        /\ \A j \in 1..Len(d) : p[Len(u) + j] = d[j]
    <3>1. Follows(M, p, u, d) BY <1>1, Joined
    <3> HIDE DEF p
    <3> QED BY <3>1 DEF Follows
  <2>2. 1 \in 1..Len(d) BY <1>1
  <2> HIDE DEF p
  <2> QED BY <1>1, <2>1, <2>2
<1> HIDE DEF p
<1> DEFINE q == p \o v
<1>4. /\ q \in Seq(M) /\ Len(q) = Len(p) + Len(v)
      /\ \A j \in 1..Len(p) : q[j] = p[j]
      /\ \A j \in 1..Len(v) : q[Len(p) + j] = v[j]
  <2>1. Follows(M, q, p, v) BY <1>3, Joined
  <2> HIDE DEF q
  <2> QED BY <2>1 DEF Follows
<1> HIDE DEF q
<1>5. w = q \o x BY DEF d, p, q
<1>6. /\ w \in Seq(M) /\ Len(w) = Len(q) + Len(x)
      /\ \A j \in 1..Len(q) : w[j] = q[j]
      /\ \A j \in 1..Len(x) : w[Len(q) + j] = x[j]
  <2>1. Follows(M, w, q, x) BY <1>4, <1>5, Joined
  <2> QED BY <2>1 DEF Follows
<1>7. Len(q) = (Len(u) + 1) + Len(v) BY <1>3, <1>4
<1>8. ASSUME NEW j \in 1..Len(p) PROVE w[j] = p[j]
  <2>1. j \in 1..Len(q) BY <1>2, <1>3, <1>7
  <2> QED BY <2>1, <1>4, <1>6
<1>9. \A j \in 1..Len(u) : w[j] = u[j]
  <2>1. \A j \in 1..Len(u) : j \in 1..Len(p) BY <1>2, <1>3
  <2> QED BY <2>1, <1>3, <1>8
<1>10. w[Len(u) + 1] = c
  <2>1. Len(u) + 1 \in 1..Len(p) BY <1>2, <1>3
  <2> QED BY <2>1, <1>3, <1>8
<1>11. ASSUME NEW j \in 1..Len(v) PROVE w[(Len(u) + 1) + j] = v[j]
  <2>1. (Len(u) + 1) + j \in 1..Len(q) BY <1>2, <1>7
  <2>2. q[(Len(u) + 1) + j] = v[j] BY <1>3, <1>4
  <2> QED BY <2>1, <2>2, <1>6
<1>12. \A j \in 1..Len(x) : w[((Len(u) + 1) + Len(v)) + j] = x[j] BY <1>6, <1>7
<1> QED BY <1>6, <1>7, <1>9, <1>10, <1>11, <1>12 DEF FollowAround

(* The request line.                                                        *)
FirstText(method, path, protocol) ==
  (((method \o <<SP>>) \o path) \o <<SP>>) \o protocol

LEMMA FirstLineRead ==
  ASSUME NEW M, M \cap Controls = {}, SP \in M, NEW eol \in LineEndings,
         NEW method \in Seq(M \ {SP}), NEW path \in Seq(M), NEW protocol \in Seq(M \ {SP}),
         Len(path) # 0, path[1] = "/",
         NEW w, w = FirstText(method, path, protocol)
  PROVE  /\ w \in Seq(M)
         /\ \E j \in 1..Len(w) : w[j] = SP
         /\ RequestLine(Nulled(w \o eol)) = Line(method, path, protocol)
<1> DEFINE a == Len(method)
           b == Len(path)
           c == Len(protocol)
           d == <<SP>>
           x == ((method \o <<SP>>) \o path) \o d
<1>1. method \in Seq(M) /\ protocol \in Seq(M)
  <2>1. M \ {SP} \subseteq M OBVIOUS
  <2> QED BY <2>1, SeqWithin
<1>2. a \in Nat /\ b \in Nat /\ c \in Nat BY LenProperties
<1>3. d \in Seq(M) /\ Len(d) = 1 /\ d[1] = SP OBVIOUS
<1> HIDE DEF d
<1>4. /\ x \in Seq(M) /\ Len(x) = ((a + 1) + b) + 1
      /\ \A j \in 1..a : x[j] = method[j]
      /\ x[a + 1] = SP
      /\ \A j \in 1..b : x[(a + 1) + j] = path[j]
      /\ x[((a + 1) + b) + 1] = SP
  <2>1. /\ x \in Seq(M) /\ Len(x) = ((Len(method) + 1) + Len(path)) + Len(d)
        /\ \A j \in 1..Len(method) : x[j] = method[j]
        /\ x[Len(method) + 1] = SP
        /\ \A j \in 1..Len(path) : x[(Len(method) + 1) + j] = path[j]
        /\ \A j \in 1..Len(d) : x[((Len(method) + 1) + Len(path)) + j] = d[j]
    <3>1. FollowAround(M, x, method, SP, path, d) BY <1>1, <1>3, JoinedAround
    <3> HIDE DEF x
    <3> QED BY <3>1 DEF FollowAround
  <2>2. 1 \in 1..Len(d) BY <1>3
  <2> HIDE DEF x
  <2> QED BY <1>3, <2>1, <2>2
<1> HIDE DEF x
<1>5. w = x \o protocol BY DEF x, d, FirstText
<1>6. /\ w \in Seq(M) /\ Len(w) = Len(x) + c
      /\ \A j \in 1..Len(x) : w[j] = x[j]
      /\ \A j \in 1..c : w[Len(x) + j] = protocol[j]
  <2>1. Follows(M, w, x, protocol) BY <1>1, <1>4, <1>5, Joined
  <2> QED BY <2>1 DEF Follows
<1>7. Len(x) = (a + b) + 2 BY <1>2, <1>4
<1>8. Len(w) = ((a + b) + c) + 2 BY <1>2, <1>6, <1>7
<1>9. \A j \in 1..a : w[j] = method[j]
  <2>1. \A j \in 1..a : j \in 1..Len(x) BY <1>2, <1>7
  <2> QED BY <2>1, <1>4, <1>6
<1>10. w[a + 1] = SP
  <2>1. a + 1 \in 1..Len(x) BY <1>2, <1>7
  <2> QED BY <2>1, <1>4, <1>6
<1>11. ASSUME NEW j \in 1..b PROVE w[(a + 1) + j] = path[j]
  <2>1. (a + 1) + j \in 1..Len(x) BY <1>2, <1>7
  <2> QED BY <2>1, <1>4, <1>6
<1>12. w[(a + b) + 2] = SP
  <2>1. (a + b) + 2 \in 1..Len(x) /\ ((a + 1) + b) + 1 = (a + b) + 2 BY <1>2, <1>7
  <2> QED BY <2>1, <1>4, <1>6
<1>13. \A j \in 1..c : w[((a + b) + 2) + j] = protocol[j] BY <1>6, <1>7
<1>14. \A j \in 1..a : method[j] # SP BY ElementOfSeq
<1>15. \A j \in 1..c : protocol[j] # SP BY ElementOfSeq
<1> DEFINE t == Nulled(w \o eol)
           S == M \cup {NUL}
<1>16. /\ t \in Seq(S) /\ Len(t) = Len(w) + Len(eol)
       /\ \A j \in 1..Len(w) : t[j] = w[j]
       /\ \A j \in (Len(w) + 1)..Len(t) : t[j] = NUL
  <2> DEFINE y == w \o eol
  <2>1. /\ Len(y) = Len(w) + Len(eol)
        /\ Nulled(y) \in Seq(S) /\ Len(Nulled(y)) = Len(y)
        /\ \A j \in 1..Len(w) : Nulled(y)[j] = w[j]
        /\ \A j \in (Len(w) + 1)..Len(y) : Nulled(y)[j] = NUL
    <3>1. LineOf(M, y, w, eol) BY <1>6, LineMade
    <3> HIDE DEF y
    <3> QED BY <3>1 DEF LineOf
  <2> QED BY <2>1
<1> HIDE DEF t, S
<1>17. Len(eol) \in Nat /\ Len(eol) # 0 BY LineEndingIs
<1>18. ((a + b) + c) + 2 < Len(t)  BY <1>2, <1>8, <1>16, <1>17
<1>19. NUL \in S /\ NUL \notin M BY DEF S, Controls, Invalid
<1>20. \A j \in 1..a : j \in 1..Len(w) BY <1>2, <1>8
<1>21. \A j \in 1..a : t[j] = method[j] /\ method[j] # SP BY <1>9, <1>14, <1>16, <1>20
<1>22. t[a + 1] = SP
  <2>1. a + 1 \in 1..Len(w) BY <1>2, <1>8
  <2> QED BY <2>1, <1>10, <1>16
<1>23. ASSUME NEW j \in 1..b PROVE t[(a + 1) + j] = path[j]
  <2>1. (a + 1) + j \in 1..Len(w) BY <1>2, <1>8
  <2> QED BY <2>1, <1>11, <1>16
<1>24. t[(a + b) + 2] = SP
  <2>1. (a + b) + 2 \in 1..Len(w) BY <1>2, <1>8
  <2> QED BY <2>1, <1>12, <1>16
<1>25. ASSUME NEW j \in 1..c PROVE t[((a + b) + 2) + j] = protocol[j] /\ protocol[j] # SP
  <2>1. ((a + b) + 2) + j \in 1..Len(w) BY <1>2, <1>8
  <2> QED BY <2>1, <1>13, <1>15, <1>16
<1>26. \A j \in (((a + b) + c) + 3)..Len(t) : t[j] = NUL
  <2>1. ((a + b) + c) + 3 = Len(w) + 1 BY <1>2, <1>8
  <2> QED BY <2>1, <1>16
<1>27. a = Len(method) /\ b = Len(path) /\ c = Len(protocol) /\ b # 0 OBVIOUS
<1> HIDE DEF a, b, c
<1>28. RequestLine(t) = Line(method, path, protocol)
  <2>1. RequestLineOf(S, t, M, method, path, protocol, a, b, c)
    BY <1>1, <1>2, <1>16, <1>18, <1>19, <1>21, <1>22, <1>23, <1>24, <1>25, <1>26, <1>27
    DEF RequestLineOf
  <2> QED BY <2>1, <1>19, RequestLineRead
<1>29. \E j \in 1..Len(w) : w[j] = SP
  <2>1. a + 1 \in 1..Len(w) BY <1>2, <1>8
  <2> QED BY <2>1, <1>10
<1> QED BY <1>6, <1>28, <1>29 DEF t

(* The line of a field.                                                     *)
FieldText(f) == ((f[1] \o <<":">>) \o f[3]) \o f[2]
FieldsOf(M) == Seq(M \ {":"}) \X {v \in Seq(M) : v = <<>> \/ v[1] # SP} \X Seq({SP})

LEMMA FieldLineRead ==
  ASSUME NEW M, M \cap Controls = {}, SP \in M, ":" \in M, NEW eol \in LineEndings,
         NEW f \in FieldsOf(M), NEW w, w = FieldText(f)
  PROVE  /\ w \in Seq(M)
         /\ Len(w) # 0
         /\ HasColon(Nulled(w \o eol)) /\ Field(Nulled(w \o eol)) = <<f[1], f[2]>>
<1> DEFINE name == f[1]
           value == f[2]
           blanks == f[3]
           a == Len(name)
           b == Len(blanks)
           c == Len(value)
<1>1. /\ name \in Seq(M \ {":"}) /\ value \in Seq(M) /\ blanks \in Seq({SP})
      /\ (value = <<>> \/ value[1] # SP)
  BY DEF FieldsOf
<1> HIDE DEF name, value, blanks
<1>2. name \in Seq(M) /\ blanks \in Seq(M)
  <2>1. M \ {":"} \subseteq M /\ {SP} \subseteq M OBVIOUS
  <2> QED BY <1>1, <2>1, SeqWithin
<1>3. a \in Nat /\ b \in Nat /\ c \in Nat BY <1>1, LenProperties
<1>4. w = ((name \o <<":">>) \o blanks) \o value BY DEF FieldText, name, blanks, value
<1>5. /\ w \in Seq(M) /\ Len(w) = ((a + 1) + b) + c
      /\ \A j \in 1..a : w[j] = name[j]
      /\ w[a + 1] = ":"
      /\ \A j \in 1..b : w[(a + 1) + j] = blanks[j]
      /\ \A j \in 1..c : w[((a + 1) + b) + j] = value[j]
  BY <1>1, <1>2, <1>4, JoinedAround DEF FollowAround
<1>6. /\ \A j \in 1..a : name[j] # ":"
      /\ \A j \in 1..b : blanks[j] = SP
  <2>1. \A j \in 1..Len(name) : name[j] \in M \ {":"} BY <1>1, ElementOfSeq
  <2>2. \A j \in 1..Len(blanks) : blanks[j] \in {SP} BY <1>1, ElementOfSeq
  <2> QED BY <2>1, <2>2
<1>7. Len(w) = ((a + b) + c) + 1 /\ (a + 1) + b = (a + b) + 1 BY <1>3, <1>5
<1> DEFINE t == Nulled(w \o eol)
           S == M \cup {NUL}
<1>8. /\ t \in Seq(S) /\ Len(t) = Len(w) + Len(eol)
      /\ \A j \in 1..Len(w) : t[j] = w[j]
      /\ \A j \in (Len(w) + 1)..Len(t) : t[j] = NUL
  <2> DEFINE y == w \o eol
  <2>1. /\ Len(y) = Len(w) + Len(eol)
        /\ Nulled(y) \in Seq(S) /\ Len(Nulled(y)) = Len(y)
        /\ \A j \in 1..Len(w) : Nulled(y)[j] = w[j]
        /\ \A j \in (Len(w) + 1)..Len(y) : Nulled(y)[j] = NUL
    <3>1. LineOf(M, y, w, eol) BY <1>5, LineMade
    <3> HIDE DEF y
    <3> QED BY <3>1 DEF LineOf
  <2> QED BY <2>1
<1> HIDE DEF t, S
<1>9. Len(eol) \in Nat /\ Len(eol) # 0 BY LineEndingIs
<1>10. ((a + b) + c) + 1 < Len(t) BY <1>3, <1>7, <1>8, <1>9
<1>11. NUL \notin M BY DEF Controls, Invalid
<1>12. ASSUME NEW j \in 1..a PROVE t[j] = name[j] /\ name[j] # ":"
  <2>1. j \in 1..Len(w) BY <1>3, <1>7
  <2> QED BY <2>1, <1>5, <1>6, <1>8
<1>13. t[a + 1] = ":"
  <2>1. a + 1 \in 1..Len(w) BY <1>3, <1>7
  <2> QED BY <2>1, <1>5, <1>8
<1>14. ASSUME NEW j \in 1..b PROVE t[(a + 1) + j] = SP
  <2>1. (a + 1) + j \in 1..Len(w) BY <1>3, <1>7
  <2> QED BY <2>1, <1>5, <1>6, <1>8
<1>15. ASSUME NEW j \in 1..c PROVE t[((a + b) + 1) + j] = value[j]
  <2>1. ((a + b) + 1) + j \in 1..Len(w) BY <1>3, <1>7
  <2>2. w[((a + b) + 1) + j] = value[j] BY <1>5, <1>7
  <2> QED BY <2>1, <2>2, <1>8
<1>16. c # 0 => value[1] # SP
  <2>1. value = <<>> => c = 0 OBVIOUS
  <2> QED BY <1>1, <2>1
<1>17. t[((a + b) + c) + 2] = NUL
  <2>1. ((a + b) + c) + 2 \in (Len(w) + 1)..Len(t) BY <1>3, <1>7, <1>10
  <2> QED BY <2>1, <1>8
<1>18. a = Len(name) /\ c = Len(value) OBVIOUS
<1> HIDE DEF a, b, c
<1>19. HasColon(t) /\ Field(t) = <<name, value>>
  <2>1. FieldLineOf(S, t, M, name, value, a, b, c)
    BY <1>1, <1>2, <1>3, <1>8, <1>10, <1>11, <1>12, <1>13, <1>14, <1>15, <1>16, <1>17, <1>18
    DEF FieldLineOf
  <2> QED BY <2>1, FieldRead
<1>20. Len(w) # 0 BY <1>3, <1>7
<1> QED BY <1>5, <1>19, <1>20 DEF t, name, value

(* The lines of a request, the last one empty.                              *)
WrittenLines(first, seqs, k, eol) ==
  [n \in 1..(k + 2) |-> IF n = 1 THEN first ELSE IF n = k + 2 THEN eol ELSE seqs[n - 1]]

LEMMA LinesFollow ==
  ASSUME NEW T, NEW first \in Seq(T), NEW seqs \in Seq(Seq(T)), NEW eol \in Seq(T),
         NEW k, k = Len(seqs),
         NEW h, h = (first \o FlattenSeq(seqs)) \o eol
  PROVE  /\ h \in Seq(T) /\ WrittenLines(first, seqs, k, eol) \in [1..(k + 2) -> Seq(T)]
         /\ \E E : LaidOut(h, k + 2, E, WrittenLines(first, seqs, k, eol))
<1> DEFINE K == k + 2
           line == WrittenLines(first, seqs, k, eol)
           flat == FlattenSeq(seqs)
           a == Len(first)
           b == Len(flat)
           c == Len(eol)
           u == first \o flat
<1>1. k \in Nat /\ a \in Nat /\ c \in Nat BY LenProperties
<1>2. flat \in Seq(T) /\ \E E0 : FlatCuts(seqs, k, E0) BY FlattenedAt
<1>3. PICK E0 : FlatCuts(seqs, k, E0) BY <1>2
<1>4. b \in Nat BY <1>2, LenProperties
<1>5. /\ E0 \in [0..k -> Nat] /\ E0[0] = 0 /\ E0[k] = b
      /\ \A i \in 1..k : /\ E0[i] = E0[i - 1] + Len(seqs[i])
                         /\ \A j \in 1..Len(seqs[i]) : flat[E0[i - 1] + j] = seqs[i][j]
  BY <1>3 DEF FlatCuts
<1> HIDE DEF flat
<1>6. Follows(T, u, first, flat) BY <1>2, Joined
<1>7. h = u \o eol BY DEF u, flat
<1> HIDE DEF u
<1>8. /\ u \in Seq(T) /\ Len(u) = a + b
      /\ \A j \in 1..a : u[j] = first[j]
      /\ \A j \in 1..b : u[a + j] = flat[j]
  BY <1>6 DEF Follows
<1>9. Follows(T, h, u, eol) BY <1>7, <1>8, Joined
<1>10. /\ h \in Seq(T) /\ Len(h) = (a + b) + c
       /\ \A j \in 1..(a + b) : h[j] = u[j]
       /\ \A j \in 1..c : h[(a + b) + j] = eol[j]
  BY <1>8, <1>9 DEF Follows
<1>11. \A i \in 1..k : seqs[i] \in Seq(T) /\ Len(seqs[i]) \in Nat
  BY ElementOfSeq, LenProperties
<1>12. /\ line[1] = first /\ line[K] = eol /\ K \in Nat /\ K - 1 = k + 1
       /\ \A n \in 1..K : n # 1 /\ n # K => n - 1 \in 1..k /\ line[n] = seqs[n - 1]
  BY <1>1 DEF WrittenLines
<1>13. line \in [1..K -> Seq(T)]
  <2>1. \A n \in 1..K : line[n] \in Seq(T) BY <1>1, <1>11, <1>12
  <2>2. line = [n \in 1..K |-> line[n]] BY DEF WrittenLines
  <2> HIDE DEF line, K
  <2> QED BY <2>1, <2>2
<1> DEFINE E == [n \in 0..K |-> IF n = 0 THEN 0 ELSE IF n = K THEN (a + b) + c ELSE a + E0[n - 1]]
<1>14. /\ E[0] = 0 /\ E[K] = (a + b) + c
       /\ \A n \in 1..(k + 1) : n - 1 \in 0..k /\ E[n] = a + E0[n - 1]
  BY <1>1
<1>15. E \in [0..K -> Nat]
  <2>1. \A n \in 0..K : E[n] \in Nat
    <3> SUFFICES ASSUME NEW n \in 0..K PROVE E[n] \in Nat OBVIOUS
    <3>1. CASE n = 0 BY <3>1, <1>14
    <3>2. CASE n = K BY <3>2, <1>1, <1>4, <1>14
    <3>3. CASE n # 0 /\ n # K
      <4>1. n \in 1..(k + 1) BY <3>3, <1>1
      <4>2. n - 1 \in 0..k /\ E[n] = a + E0[n - 1] BY <4>1, <1>14
      <4>3. E0[n - 1] \in Nat BY <4>2, <1>5
      <4> QED BY <4>2, <4>3, <1>1
    <3> QED BY <3>1, <3>2, <3>3
  <2>2. E = [n \in 0..K |-> E[n]] OBVIOUS
  <2> HIDE DEF E, K
  <2> QED BY <2>1, <2>2
<1> HIDE DEF E, K, line
<1>16. ASSUME NEW n \in 1..K
       PROVE  /\ E[n] = E[n - 1] + Len(line[n])
              /\ \A j \in 1..Len(line[n]) : h[E[n - 1] + j] = line[n][j]
  <2>1. CASE n = 1
    <3>1. E[n] = a /\ E[n - 1] = 0
      <4>1. 1 \in 1..(k + 1) /\ 1 - 1 = 0 BY <1>1
      <4>2. E[1] = a + E0[1 - 1] BY <4>1, <1>14
      <4> QED BY <4>1, <4>2, <2>1, <1>1, <1>5, <1>14
    <3>2. line[n] = first BY <2>1, <1>12
    <3>3. \A j \in 1..a : h[0 + j] = first[j]
      <4>1. \A j \in 1..a : 0 + j = j /\ j \in 1..(a + b) BY <1>1, <1>4
      <4> QED BY <4>1, <1>8, <1>10
    <3> QED BY <3>1, <3>2, <3>3, <1>1
  <2>2. CASE n = K
    <3>1. E[n - 1] = a + b /\ E[n] = (a + b) + c
      <4>1. k + 1 \in 1..(k + 1) /\ (k + 1) - 1 = k BY <1>1
      <4>2. E[k + 1] = a + E0[k] BY <4>1, <1>14
      <4> QED BY <4>2, <2>2, <1>5, <1>12, <1>14
    <3>2. line[n] = eol BY <2>2, <1>12
    <3> QED BY <3>1, <3>2, <1>10
  <2>3. CASE n # 1 /\ n # K
    <3>1. n - 1 \in 1..k /\ line[n] = seqs[n - 1] BY <2>3, <1>12
    <3> DEFINE i == n - 1
    <3>2. n \in 1..(k + 1) /\ n - 1 \in 1..(k + 1) /\ i - 1 \in 0..k /\ i \in 0..k
      BY <3>1, <1>1
    <3>3. E[n] = a + E0[i] /\ E[n - 1] = a + E0[i - 1] BY <3>2, <1>14
    <3>4. E0[i] = E0[i - 1] + Len(seqs[i]) BY <3>1, <1>5
    <3>5. E0[i] \in Nat /\ E0[i - 1] \in Nat /\ Len(seqs[i]) \in Nat BY <3>1, <3>2, <1>5, <1>11
    <3>6. E[n] = E[n - 1] + Len(line[n])
      <4> DEFINE l == Len(seqs[i])
      <4>1. E[n] = a + (E0[i - 1] + l) /\ l \in Nat BY <3>3, <3>4, <3>5
      <4> HIDE DEF i, l
      <4>2. E[n] = (a + E0[i - 1]) + l BY <4>1, <3>5, <1>1
      <4> QED BY <4>2, <3>1, <3>3 DEF l, i
    <3>7. E0[i] <= b
      <4>1. ASSUME NEW m \in i..k PROVE E0[i] <= E0[m]
        <5> DEFINE Z == {x \in i..k : E0[i] <= E0[x]}
        <5>1. i \in Int /\ k \in Int /\ i \in i..k BY <3>1, <1>1
        <5>2. i \in Z BY <3>5, <5>1
        <5>3. ASSUME NEW x \in (i + 1)..k, x - 1 \in Z PROVE x \in Z
          <6>1. x \in i..k /\ x \in 1..k /\ x \in 0..k /\ x - 1 \in 0..k BY <3>1, <1>1
          <6>2. E0[x] = E0[x - 1] + Len(seqs[x]) BY <6>1, <1>5
          <6>3. E0[x] \in Nat /\ E0[x - 1] \in Nat /\ Len(seqs[x]) \in Nat BY <6>1, <1>5, <1>11
          <6>4. E0[i] <= E0[x - 1] BY <5>3
          <6>5. E0[i] <= E0[x]
            <7> DEFINE l == Len(seqs[x])
                       e == E0[i]
                       p == E0[x - 1]
            <7>1. e \in Nat /\ p \in Nat /\ l \in Nat /\ e <= p /\ E0[x] = p + l
              BY <6>2, <6>3, <6>4, <3>5
            <7> HIDE DEF l, e, p
            <7>2. e <= E0[x] BY <7>1
            <7> QED BY <7>2 DEF e
          <6> QED BY <6>1, <6>5
        <5> HIDE DEF Z, i
        <5>4. \A x \in i..k : x \in Z BY <5>1, <5>2, <5>3, UpwardInduction
        <5> QED BY <5>4 DEF Z
      <4>2. k \in i..k BY <3>1, <1>1
      <4> HIDE DEF i
      <4> QED BY <4>1, <4>2, <1>5
    <3>8. ASSUME NEW j \in 1..Len(seqs[i]) PROVE h[(a + E0[i - 1]) + j] = seqs[i][j]
      <4> DEFINE e == E0[i - 1]
                 l == Len(seqs[i])
      <4>1. e \in Nat /\ l \in Nat /\ e + l <= b /\ j \in 1..l BY <3>4, <3>5, <3>7
      <4> HIDE DEF e, l
      <4>2. e + j \in 1..b /\ a + (e + j) \in 1..(a + b) /\ (a + e) + j = a + (e + j)
        BY <4>1, <1>1, <1>4
      <4>3. h[a + (e + j)] = flat[e + j] BY <4>2, <1>8, <1>10
      <4>4. flat[e + j] = seqs[i][j] BY <3>1, <1>5 DEF e
      <4>5. h[(a + e) + j] = seqs[i][j] BY <4>2, <4>3, <4>4
      <4> QED BY <4>5 DEF e
    <3>9. \A j \in 1..Len(line[n]) : h[E[n - 1] + j] = line[n][j] BY <3>1, <3>3, <3>8
    <3> QED BY <3>6, <3>9
  <2> QED BY <2>1, <2>2, <2>3
<1>17. LaidOut(h, K, E, line) BY <1>10, <1>14, <1>15, <1>16 DEF LaidOut
<1> QED BY <1>10, <1>13, <1>17 DEF K, line

(* A request of letters of S that a client may write: no control character, *)
(* no blank in the method and the protocol, no colon in the name of a field *)
(* and no blank before its value but those that are written so.             *)
Plain(S) == S \ Controls
WellWritten(q, S) ==
  /\ q.method \in Seq(Plain(S) \ {SP}) /\ q.protocol \in Seq(Plain(S) \ {SP})
  /\ q.path \in Seq(Plain(S)) /\ q.path # <<>> /\ q.path[1] = "/"
  /\ q.header \in Seq(FieldsOf(Plain(S)))
  /\ q.eol \in LineEndings

(* What http::request is to find in it. *)
Understood(q) ==
  Merged(Line(q.method, q.path, q.protocol),
         [header |-> [i \in 1..Len(q.header) |-> <<q.header[i][1], q.header[i][2]>>],
          end |-> Len(Written(q))])

LEMMA LetterApart ==
  NUL \notin {CR, LF, SP, ":"} /\ SP \notin Controls /\ ":" \notin Controls
BY LetterAssumption DEF Controls, Invalid, SP, CR, LF

LEMMA WrittenParsed ==
  ASSUME NEW S, {SP, ":", CR, LF} \subseteq S, NEW q, WellWritten(q, S)
  PROVE  /\ Written(q) \in Seq(S)
         /\ HeaderEnds(Written(q)) = {Len(Written(q))}
         /\ Parse(Written(q)) = Understood(q)
<1> DEFINE M == Plain(S)
           T == M \cup {CR, LF}
           eol == q.eol
           header == q.header
           k == Len(header)
           K == k + 2
           w1 == FirstText(q.method, q.path, q.protocol)
           text(n) == FieldText(header[n])
           seqs == [i \in 1..k |-> text(i) \o eol]
           first == w1 \o eol
           h == Written(q)
           line == WrittenLines(first, seqs, k, eol)
<1>1. M \cap Controls = {} /\ SP \in M /\ ":" \in M /\ T \subseteq S
  BY LetterApart DEF Plain
<1>2. /\ q.method \in Seq(M \ {SP}) /\ q.protocol \in Seq(M \ {SP})
      /\ q.path \in Seq(M) /\ q.path # <<>> /\ q.path[1] = "/"
      /\ header \in Seq(FieldsOf(M)) /\ eol \in LineEndings
  BY DEF WellWritten
<1> HIDE DEF M
<1>3. k \in Nat /\ DOMAIN header = 1..k /\ \A i \in 1..k : header[i] \in FieldsOf(M)
  BY <1>2, LenProperties, ElementOfSeq
<1>4. h = (first \o FlattenSeq(seqs)) \o eol
  BY <1>3 DEF Written, FirstText, FieldText
<1>5. Len(q.path) # 0 BY <1>2
<1>6. /\ w1 \in Seq(M)
      /\ \E j \in 1..Len(w1) : w1[j] = SP
      /\ RequestLine(Nulled(first)) = Line(q.method, q.path, q.protocol)
  BY <1>1, <1>2, <1>5, FirstLineRead, SMTT(30)
<1>7. \A n \in 1..k : /\ text(n) \in Seq(M) /\ Len(text(n)) # 0
                      /\ HasColon(Nulled(text(n) \o eol))
                      /\ Field(Nulled(text(n) \o eol)) = <<header[n][1], header[n][2]>>
  BY <1>1, <1>2, <1>3, FieldLineRead
<1> HIDE DEF w1, text, h
<1>8. LineOf(M, first, w1, eol) BY <1>1, <1>2, <1>6, LineMade
<1>9. \A n \in 1..k : LineOf(M, text(n) \o eol, text(n), eol) BY <1>1, <1>2, <1>7, LineMade
<1> HIDE DEF first
<1>10. first \in Seq(T) /\ OneLine(first) /\ Len(first) = Len(w1) + Len(eol)
       /\ \A j \in 1..Len(w1) : first[j] = w1[j]
  BY <1>8 DEF LineOf
<1>11. \A n \in 1..k : /\ seqs[n] \in Seq(T) /\ OneLine(seqs[n])
                       /\ Len(seqs[n]) = Len(text(n)) + Len(eol)
                       /\ \A j \in 1..Len(text(n)) : seqs[n][j] = text(n)[j]
  <2> SUFFICES ASSUME NEW n \in 1..k
               PROVE  /\ seqs[n] \in Seq(T) /\ OneLine(seqs[n])
                      /\ Len(seqs[n]) = Len(text(n)) + Len(eol)
                      /\ \A j \in 1..Len(text(n)) : seqs[n][j] = text(n)[j]
    OBVIOUS
  <2> DEFINE x == text(n)
             s == x \o eol
  <2>1. seqs[n] = s OBVIOUS
  <2>2. LineOf(M, s, x, eol) BY <1>9
  <2> HIDE DEF x, s
  <2>3. /\ s \in Seq(T) /\ OneLine(s) /\ Len(s) = Len(x) + Len(eol)
        /\ \A j \in 1..Len(x) : s[j] = x[j]
    BY <2>2 DEF LineOf
  <2> QED BY <2>1, <2>3 DEF x
<1>12. LineOf(M, <<>> \o eol, <<>>, eol) /\ <<>> \o eol = eol
  <2>1. <<>> \in Seq(M) OBVIOUS
  <2>2. LineOf(M, <<>> \o eol, <<>>, eol) BY <1>1, <1>2, <2>1, LineMade
  <2>3. <<>> \o eol = eol
    <3>1. eol \in Seq({CR, LF}) BY <1>2, LineEndingIs
    <3> HIDE DEF eol
    <3> QED BY <3>1, ConcatEmptySeq
  <2> QED BY <2>2, <2>3
<1>13. /\ eol \in Seq(T) /\ OneLine(eol) /\ Len(eol) \in Nat /\ Len(eol) # 0
       /\ \A j \in 1..(Len(eol) - 1) : eol[j] = CR
  <2>1. eol \in Seq(T) /\ OneLine(eol) BY <1>12 DEF LineOf
  <2> HIDE DEF eol
  <2> QED BY <2>1, <1>2, LineEndingIs
<1>14. seqs \in Seq(Seq(T)) /\ Len(seqs) = k
  <2> DEFINE Z == Seq(T)
  <2>1. \A i \in 1..k : seqs[i] \in Z BY <1>11
  <2>2. seqs = [i \in 1..k |-> seqs[i]] OBVIOUS
  <2> HIDE DEF seqs, Z
  <2>3. seqs \in [1..k -> Z] BY <2>1, <2>2
  <2>4. seqs \in Seq(Z) /\ Len(seqs) = k BY <2>3, <1>3, FunctionIsSeq
  <2> QED BY <2>4 DEF Z
<1> HIDE DEF seqs, T, eol, k, header
<1>15. h \in Seq(T) /\ line \in [1..(k + 2) -> Seq(T)] /\ \E E : LaidOut(h, k + 2, E, line)
  <2> HIDE DEF line
  <2> QED BY <1>4, <1>10, <1>13, <1>14, LinesFollow DEF line
<1>16. /\ line[1] = first /\ line[K] = eol /\ K \in Nat /\ 2 <= K /\ K - 1 = k + 1
       /\ \A n \in 1..K : n # 1 /\ n # K => n - 1 \in 1..k /\ line[n] = seqs[n - 1]
  BY <1>3 DEF WrittenLines
<1> HIDE DEF line
<1>17. PICK E : LaidOut(h, K, E, line) BY <1>15
<1>18. line \in [1..K -> Seq(T)] BY <1>15
<1> HIDE DEF K
<1>19. \A n \in 1..K : OneLine(line[n]) BY <1>10, <1>11, <1>13, <1>16
<1>20. ASSUME NEW n \in 1..(K - 1)
       PROVE  \E j \in 1..(Len(line[n]) - 1) : line[n][j] # CR
  <2> DEFINE x == IF n = 1 THEN w1 ELSE text(n - 1)
  <2>1. /\ n \in 1..K /\ n # K /\ (n # 1 => n - 1 \in 1..k /\ line[n] = seqs[n - 1])
        /\ (n = 1 => line[n] = first)
    BY <1>16
  <2>2. /\ x \in Seq(M) /\ Len(x) # 0
        /\ Len(line[n]) = Len(x) + Len(eol) /\ \A j \in 1..Len(x) : line[n][j] = x[j]
    <3>1. CASE n = 1
      <4>1. Len(w1) # 0
        <5>1. PICK j \in 1..Len(w1) : TRUE BY <1>6
        <5> QED BY <5>1
      <4> QED BY <3>1, <4>1, <2>1, <1>6, <1>10
    <3>2. CASE n # 1 BY <3>2, <2>1, <1>7, <1>11
    <3> QED BY <3>1, <3>2
  <2> HIDE DEF x
  <2>3. Len(x) \in Nat BY <2>2, LenProperties
  <2>4. 1 \in 1..(Len(line[n]) - 1) /\ 1 \in 1..Len(x) BY <2>2, <2>3, <1>13
  <2>5. x[1] \in M BY <2>2, <2>4, ElementOfSeq
  <2>6. CR \notin M BY <1>1 DEF Controls
  <2> QED BY <2>2, <2>4, <2>5, <2>6
<1>21. \A j \in 1..(Len(line[K]) - 1) : line[K][j] = CR BY <1>13, <1>16
<1> DEFINE lines == [n \in 1..(K - 1) |-> Nulled(line[n])]
<1>22. HeaderEnds(h) = {Len(h)} /\ Parse(h) = ParseLines(lines, Len(h))
  <2>1. EmptyLast(K, line) BY <1>19, <1>20, <1>21 DEF EmptyLast
  <2>2. h \in Seq(T) /\ K \in Nat /\ 2 <= K BY <1>15, <1>16
  <2>3. /\ HeaderEnds(h) = {Len(h)}
        /\ Parse(h) = ParseLines(NulledLines(K, line), Len(h))
    BY <2>1, <2>2, <1>17, <1>18, LinesLaidOut
  <2> QED BY <2>3 DEF NulledLines
<1>23. /\ lines = [n \in 1..(k + 1) |-> lines[n]] /\ lines[1] = Nulled(first)
       /\ \A n \in 2..(k + 1) : n - 1 \in 1..k /\ lines[n] = Nulled(seqs[n - 1])
  <2>1. \A n \in 2..(k + 1) : n \in 1..(K - 1) /\ n \in 1..K /\ n # 1 /\ n # K
    BY <1>3, <1>16
  <2>2. 1 \in 1..(K - 1) BY <1>3, <1>16
  <2> QED BY <2>1, <2>2, <1>16
<1> HIDE DEF lines
<1>24. Len(lines) = k + 1
  <2>1. k + 1 \in Nat BY <1>3
  <2> QED BY <2>1, <1>23
<1>25. \A n \in 1..k : HasColon(Nulled(seqs[n])) /\ Field(Nulled(seqs[n])) = <<header[n][1], header[n][2]>>
  BY <1>7 DEF seqs
<1>26. \A n \in 2..Len(lines) : HasColon(lines[n]) BY <1>23, <1>24, <1>25
<1>27. RequestLine(lines[1]) = Line(q.method, q.path, q.protocol) BY <1>6, <1>23 DEF first
<1>28. RequestLine(lines[1]).status = 200 BY <1>27 DEF Line
<1> DEFINE fields == [n \in 1..(Len(lines) - 1) |-> Field(lines[n + 1])]
<1>29. fields = [i \in 1..k |-> <<header[i][1], header[i][2]>>]
  <2>1. Len(lines) - 1 = k BY <1>3, <1>24
  <2>2. ASSUME NEW n \in 1..k PROVE Field(lines[n + 1]) = <<header[n][1], header[n][2]>>
    <3>1. n + 1 \in 2..(k + 1) /\ (n + 1) - 1 = n BY <1>3
    <3>2. lines[n + 1] = Nulled(seqs[n]) BY <3>1, <1>23
    <3> QED BY <3>2, <1>25
  <2> QED BY <2>1, <2>2
<1>30. ParseLines(lines, Len(h)) = Merged(RequestLine(lines[1]), [header |-> fields, end |-> Len(h)])
  BY <1>26, <1>28 DEF ParseLines
<1>31. Parse(h) = Understood(q)
  BY <1>22, <1>27, <1>29, <1>30 DEF Understood, h, k, header
<1>32. h \in Seq(S) BY <1>1, <1>15, SeqWithin
<1> QED BY <1>22, <1>31, <1>32 DEF h

LEMMA UnderstoodFields ==
  ASSUME NEW q
  PROVE  /\ Parsed(Understood(q), Len(Written(q)))
         /\ Understood(q).method = q.method /\ Understood(q).path = q.path
         /\ Understood(q).protocol = q.protocol
         /\ Understood(q).header = [i \in 1..Len(q.header) |-> <<q.header[i][1], q.header[i][2]>>]
<1> DEFINE header == [i \in 1..Len(q.header) |-> <<q.header[i][1], q.header[i][2]>>]
           end == Len(Written(q))
           f == Line(q.method, q.path, q.protocol)
           g == [header |-> header, end |-> end]
           r == Understood(q)
<1>1. r = Merged(f, g) BY DEF Understood
<1> HIDE DEF header, end, r
<1>2. Parsed(r, end) BY <1>1 DEF Parsed
<1>3. DOMAIN f = {"status", "method", "path", "protocol"} /\ DOMAIN g = {"header", "end"}
  BY DEF Line
<1>4. f.method = q.method /\ f.path = q.path /\ f.protocol = q.protocol /\ g.header = header
  BY DEF Line
<1> HIDE DEF f, g
<1>5. \A x \in DOMAIN f : r[x] = f[x]
  <2>1. \A x \in DOMAIN f : Merged(f, g)[x] = f[x] BY FieldOf
  <2> QED BY <2>1, <1>1
<1>6. r["header"] = g["header"]
  <2>1. "header" \in DOMAIN g /\ "header" \notin DOMAIN f BY <1>3
  <2>2. \A x \in DOMAIN g : x \notin DOMAIN f => Merged(f, g)[x] = g[x] BY FieldOf
  <2> QED BY <1>1, <2>1, <2>2
<1> QED BY <1>2, <1>3, <1>4, <1>5, <1>6 DEF end, header, r

LEMMA MinOfTwo ==
  ASSUME NEW x \in Nat, NEW y \in Nat, x <= y
  PROVE  Min({x, y}) = x /\ Min({y, x}) = x
<1>1. {x, y} \subseteq Nat /\ x \in {x, y} /\ \A m \in {x, y} : x <= m OBVIOUS
<1>2. {y, x} = {x, y} OBVIOUS
<1> QED BY <1>1, <1>2, MinFrom

(* The whole of a text is that text.                                        *)
LEMMA WholeText ==
  ASSUME NEW S, NEW s \in Seq(S), NEW n, n = Len(s)
  PROVE  SubSeq(s, 1, n) = s
<1>1. n \in Nat /\ n = 0 + Len(s) /\ n <= Len(s) BY LenProperties
<1>2. \A j \in 1..Len(s) : s[0 + j] = s[j] OBVIOUS
<1>3. SubSeq(s, 0 + 1, n) = s BY <1>1, <1>2, TextAt
<1> QED BY <1>3

(* What was read ahead of a body and what the second read adds are the body.*)
LEMMA BodyPutTogether ==
  ASSUME NEW S, NEW have \in Seq(S), NEW rest \in Seq(S), NEW body \in Seq(S),
         Len(body) = Len(have) + Len(rest),
         \A j \in 1..Len(have) : have[j] = body[j],
         \A j \in 1..Len(rest) : rest[j] = body[Len(have) + j]
  PROVE  OwnBuffer(have, rest, Len(body)) = body
<1> DEFINE fill == [i \in 1..(Len(body) - Len(have) - Len(rest)) |-> Garbage]
           u == have \o rest
<1>1. Len(have) \in Nat /\ Len(rest) \in Nat /\ Len(body) \in Nat BY LenProperties
<1>2. fill = <<>>
  <2>1. 1..(Len(body) - Len(have) - Len(rest)) = {} BY <1>1
  <2> QED BY <2>1
<1>3. OwnBuffer(have, rest, Len(body)) = u \o fill BY DEF OwnBuffer
<1> HIDE DEF fill
<1>4. Follows(S, u, have, rest) BY Joined
<1> HIDE DEF u
<1>5. /\ u \in Seq(S) /\ Len(u) = Len(have) + Len(rest)
      /\ \A j \in 1..Len(have) : u[j] = have[j]
      /\ \A j \in 1..Len(rest) : u[Len(have) + j] = rest[j]
  BY <1>4 DEF Follows
<1>6. ASSUME NEW j \in 1..Len(body) PROVE u[j] = body[j]
  <2>1. CASE j \in 1..Len(have) BY <2>1, <1>5
  <2>2. CASE j \notin 1..Len(have)
    <3>1. j - Len(have) \in 1..Len(rest) /\ Len(have) + (j - Len(have)) = j BY <2>2, <1>1
    <3>2. u[Len(have) + (j - Len(have))] = rest[j - Len(have)] BY <3>1, <1>5
    <3>3. rest[j - Len(have)] = body[Len(have) + (j - Len(have))] BY <3>1
    <3> QED BY <3>1, <3>2, <3>3
  <2> QED BY <2>1, <2>2
<1>7. u = body BY <1>5, <1>6, SameElements
<1>8. body \o <<>> = body BY ConcatEmptySeq
<1> QED BY <1>2, <1>3, <1>7, <1>8

(* A request is read as it was written.                                     *)
THEOREM EveryRequestRead ==
  ASSUME NEW S, {SP, ":", CR, LF} \subseteq S, NEW q, WellWritten(q, S),
         NEW body \in Seq(S), NEW stale \in Seq(S), Len(stale) = Size
  PROVE  ReadAsWritten(q, body, stale)
<1> DEFINE w == Written(q)
           e == Len(w)
           sent == w \o body
           l == Len(body)
           n == Min({Len(sent), Size})
           header == [i \in DOMAIN q.header |-> <<q.header[i][1], q.header[i][2]>>]
           told == Values(header, <<"Content-Length">>)
           right == /\ q.method = <<"POST">> /\ Len(told) = 1
                    /\ Len(body) <= MaxBody /\ Atol(told[1]) = Len(body)
           b == Buffer(sent, n, stale)
           r == Understood(q)
           rest == SubSeq(sent, n + 1, Len(sent))
           have == SubSeq(b, e + 1, n)
<1> SUFFICES ASSUME e <= Size, Len(sent) < Size \/ right
             PROVE  AsWritten(q, body, Request(sent, n, MaxBody, stale))
  BY DEF ReadAsWritten
<1>1. w \in Seq(S) /\ HeaderEnds(w) = {e} /\ Parse(w) = r BY WrittenParsed
<1>2. header = [i \in 1..Len(q.header) |-> <<q.header[i][1], q.header[i][2]>>]
  <2>1. DOMAIN q.header = 1..Len(q.header) BY LenProperties DEF WellWritten
  <2> QED BY <2>1
<1>3. /\ Parsed(r, e) /\ r.method = q.method /\ r.path = q.path /\ r.protocol = q.protocol
      /\ r.header = header
  BY <1>2, UnderstoodFields
<1>4. r.status = 200 /\ r.end = e BY <1>3, ParsedFields
<1> HIDE DEF header, r, told
<1>5. ASSUME NEW d, d = body PROVE AsWritten(q, body, WithData(r, d))
  <2>1. /\ WithData(r, d).data = d /\ WithData(r, d).status = 200
        /\ WithData(r, d).method = r.method /\ WithData(r, d).header = r.header
    BY <1>3, WithDataFields
  <2>2. WithData(r, d).path = r.path /\ WithData(r, d).protocol = r.protocol
    BY <1>3, WithDataFields
  <2> QED BY <2>1, <2>2, <1>3, <1>5 DEF AsWritten, header
<1> HIDE DEF w
<1>6. /\ sent \in Seq(S) /\ Len(sent) = e + l
      /\ \A j \in 1..e : sent[j] = w[j]
      /\ \A j \in 1..l : sent[e + j] = body[j]
  <2>1. Follows(S, sent, w, body) BY <1>1, Joined
  <2> HIDE DEF sent
  <2> QED BY <2>1 DEF Follows
<1> HIDE DEF sent
<1>7. e \in Nat /\ l \in Nat /\ Size \in Nat /\ MaxBody \in Nat /\ Len(sent) \in Nat
  BY <1>1, <1>6, LenProperties, RequestAssumption
<1>8. n = (IF Len(sent) <= Size THEN Len(sent) ELSE Size)
  <2>1. CASE Len(sent) <= Size BY <2>1, <1>7, MinOfTwo
  <2>2. CASE ~(Len(sent) <= Size)
    <3>1. Size <= Len(sent) BY <2>2, <1>7
    <3> QED BY <3>1, <2>2, <1>7, MinOfTwo
  <2> QED BY <2>1, <2>2
<1> HIDE DEF n
<1>9. n \in 0..Size /\ n <= Len(sent) /\ e <= n /\ n \in Nat BY <1>6, <1>7, <1>8
<1>10. b \in Seq(S) /\ Len(b) = Size /\ \A i \in 1..n : b[i] = sent[i]
  BY <1>6, <1>9, BufferIs, ZenonT(30)
<1>11. Request(sent, n, MaxBody, stale) = WithBody(Parse(b), b, n, rest, MaxBody)
  BY DEF Request, Buffer
<1> HIDE DEF b
<1>12. Parse(b) = r
  <2>1. e \in 0..Len(b) /\ HeaderEnds(w) # {} BY <1>1, <1>7, <1>9, <1>10
  <2>2. \A i \in 1..e : b[i] = w[i]
    <3>1. \A i \in 1..e : i \in 1..n BY <1>7, <1>9
    <3> QED BY <3>1, <1>6, <1>10
  <2> HIDE DEF e
  <2>3. Len(w) = e BY DEF e
  <2>4. Parse(b) = Parse(w) BY <2>1, <2>2, <2>3, <1>1, <1>10, ParseOfBuffer
  <2> QED BY <2>4, <1>1
<1>13. \A j \in 1..(n - e) : j \in 1..l /\ b[e + j] = body[j]
  <2> SUFFICES ASSUME NEW j \in 1..(n - e) PROVE j \in 1..l /\ b[e + j] = body[j] OBVIOUS
  <2>1. j \in 1..l /\ e + j \in 1..n BY <1>6, <1>7, <1>9
  <2> QED BY <2>1, <1>6, <1>10
<1> HIDE DEF e, l, have, rest
<1>14. have \in Seq(S) /\ Len(have) = n - e /\ \A j \in 1..(n - e) : have[j] = body[j]
  <2>1. e + 1 \in 1..(Len(b) + 1) /\ n \in 0..Len(b) /\ e + 1 <= n + 1 /\ (n - (e + 1)) + 1 = n - e
    BY <1>7, <1>9, <1>10
  <2>2. /\ have \in Seq(S) /\ Len(have) = (n - (e + 1)) + 1
        /\ have = [i \in 1..((n - (e + 1)) + 1) |-> b[(i + (e + 1)) - 1]]
    <3> DEFINE m == e + 1
    <3>1. m \in 1..(Len(b) + 1) /\ n \in 0..Len(b) /\ m <= n + 1 BY <2>1
    <3> HIDE DEF m
    <3>2. /\ SubSeq(b, m, n) \in Seq(S) /\ Len(SubSeq(b, m, n)) = (n - m) + 1
          /\ SubSeq(b, m, n) = [i \in 1..((n - m) + 1) |-> b[(i + m) - 1]]
      BY <3>1, <1>10, PartIs
    <3> QED BY <3>2 DEF m, have
  <2>3. have = [i \in 1..(n - e) |-> b[(i + (e + 1)) - 1]] BY <2>1, <2>2
  <2>4. \A j \in 1..(n - e) : (j + (e + 1)) - 1 = e + j BY <1>7
  <2> QED BY <2>1, <2>2, <2>3, <2>4, <1>13
<1>15. CASE Len(sent) < Size
  <2>1. n = Len(sent) /\ n < Size /\ ~(n < e) /\ n - e = l BY <1>15, <1>6, <1>7, <1>8
  <2>2. have = body
    <3>1. Len(body) = Len(have) /\ \A j \in 1..Len(body) : have[j] = body[j] BY <2>1, <1>14 DEF l
    <3> QED BY <3>1, <1>14, SameElements
  <2>3. WithBody(r, b, n, rest, MaxBody) = WithData(r, have)
    BY <2>1, <1>4 DEF WithBody, have
  <2>4. AsWritten(q, body, WithData(r, have)) BY <2>2, <1>5
  <2> QED BY <2>3, <2>4, <1>11, <1>12
<1>16. CASE ~(Len(sent) < Size)
  <2>1. right BY <1>16
  <2>2. n = Size /\ Size <= e + l /\ ~(n < e) /\ ~(n < Size) BY <1>16, <1>6, <1>7, <1>8, <1>9
  <2>3. q.method = <<"POST">> /\ Len(told) = 1 /\ l <= MaxBody /\ Atol(told[1]) = l BY <2>1 DEF l
  <2>4. Values(r.header, <<"Content-Length">>) = told BY <1>3 DEF told
  <2> DEFINE asked == l - Len(have)
             got == SubSeq(rest, 1, Min({MaxBody, asked, Len(rest)}))
  <2>5. WithBody(r, b, n, rest, MaxBody) = BodyOfFull(r, have, rest, MaxBody)
    BY <2>2, <1>4 DEF WithBody, have
  <2>6. asked \in Nat /\ asked <= MaxBody /\ asked = (e + l) - Size /\ ~(l < Len(have)) /\ ~(l > MaxBody)
    BY <2>2, <2>3, <1>7, <1>9, <1>14
  <2>7. BodyOfFull(r, have, rest, MaxBody)
          = WithData(r, IF asked = 0 THEN have ELSE OwnBuffer(have, got, l))
    <3> HIDE DEF asked, got
    <3>1. r.method = <<"POST">> BY <2>3, <1>3
    <3> USE DEF asked, got
    <3> QED BY <3>1, <2>3, <2>4, <2>6 DEF BodyOfFull
  <2>8. /\ rest \in Seq(S) /\ Len(rest) = asked
        /\ \A j \in 1..asked : rest[j] = body[Len(have) + j]
    <3>1. /\ n + 1 \in 1..(Len(sent) + 1) /\ Len(sent) \in 0..Len(sent) /\ n + 1 <= Len(sent) + 1
          /\ (Len(sent) - (n + 1)) + 1 = asked
      BY <2>2, <2>6, <1>6, <1>7
    <3>2. /\ rest \in Seq(S) /\ Len(rest) = (Len(sent) - (n + 1)) + 1
          /\ rest = [i \in 1..((Len(sent) - (n + 1)) + 1) |-> sent[(i + (n + 1)) - 1]]
      <4> DEFINE m == n + 1
                 N == Len(sent)
      <4>1. m \in 1..(N + 1) /\ N \in 0..N /\ m <= N + 1 /\ N = Len(sent) BY <3>1
      <4> HIDE DEF m, N
      <4>2. /\ SubSeq(sent, m, N) \in Seq(S) /\ Len(SubSeq(sent, m, N)) = (N - m) + 1
            /\ SubSeq(sent, m, N) = [i \in 1..((N - m) + 1) |-> sent[(i + m) - 1]]
        BY <4>1, <1>6, PartIs
      <4> QED BY <4>2 DEF m, N, rest
    <3> HIDE DEF asked
    <3>3. rest = [i \in 1..asked |-> sent[(i + (n + 1)) - 1]] BY <3>1, <3>2
    <3>4. ASSUME NEW j \in 1..asked PROVE rest[j] = body[Len(have) + j]
      <4>1. Len(have) + j \in 1..l /\ (j + (n + 1)) - 1 = e + (Len(have) + j)
        BY <2>6, <1>7, <1>9, <1>14 DEF asked
      <4>2. sent[e + (Len(have) + j)] = body[Len(have) + j] BY <4>1, <1>6
      <4> QED BY <3>3, <4>1, <4>2
    <3> QED BY <3>1, <3>2, <3>4
  <2>9. got = rest
    <3>1. Len(rest) = asked BY <2>8
    <3> HIDE DEF asked
    <3> DEFINE Z == {MaxBody, asked, asked}
    <3>2. asked \in Z /\ Z \subseteq Nat /\ \A m \in Z : asked <= m BY <2>6, <1>7
    <3> HIDE DEF Z
    <3>3. Min(Z) = asked BY <3>2, MinFrom
    <3>4. got = SubSeq(rest, 1, asked) BY <3>1, <3>3 DEF Z
    <3> QED BY <3>1, <3>4, <2>8, WholeText
  <2>10. (IF asked = 0 THEN have ELSE OwnBuffer(have, got, l)) = body
    <3>1. CASE asked = 0
      <4>1. Len(body) = Len(have) /\ \A j \in 1..Len(body) : have[j] = body[j]
        BY <3>1, <1>7, <1>14 DEF l
      <4>2. have = body BY <4>1, <1>14, SameElements
      <4> QED BY <3>1, <4>2
    <3>2. CASE asked # 0
      <4>1. Len(body) = Len(have) + Len(rest) BY <2>8, <1>7, <1>9, <1>14 DEF l
      <4>2. \A j \in 1..Len(have) : have[j] = body[j] BY <1>14
      <4>3. \A j \in 1..Len(rest) : rest[j] = body[Len(have) + j] BY <2>8
      <4>4. OwnBuffer(have, rest, Len(body)) = body
        BY <4>1, <4>2, <4>3, <2>8, <1>14, BodyPutTogether
      <4> QED BY <3>2, <4>4, <2>9 DEF l
    <3> QED BY <3>1, <3>2
  <2> HIDE DEF asked, got
  <2>11. AsWritten(q, body, WithData(r, IF asked = 0 THEN have ELSE OwnBuffer(have, got, l)))
    BY <2>10, <1>5
  <2> QED BY <2>5, <2>7, <2>11, <1>11, <1>12
<1> QED BY <1>15, <1>16

------------------------------------------------------------------------------
(* form_data: what its loop makes of the pieces between '&'. *)

(* The first place of a letter in a text. *)
FirstAt(w, c) == SelectInSeq(w, LAMBDA x : x = c)

LEMMA FirstAtIs ==
  ASSUME NEW S, NEW w \in Seq(S), NEW c
  PROVE  \/ FirstAt(w, c) = 0 /\ \A i \in 1..Len(w) : w[i] # c
         \/ /\ FirstAt(w, c) \in 1..Len(w) /\ w[FirstAt(w, c)] = c
            /\ \A i \in 1..(FirstAt(w, c) - 1) : w[i] # c
<1> DEFINE J == {i \in 1..Len(w) : w[i] = c}
           m == FirstAt(w, c)
<1>1. m = IF J # {} THEN Min(J) ELSE 0 BY DEF FirstAt, SelectInSeq
<1>2. Len(w) \in Nat /\ J \subseteq Nat BY LenProperties
<1> HIDE DEF m
<1>3. CASE J = {}
  <2>1. \A i \in 1..Len(w) : w[i] # c BY <1>3
  <2> QED BY <1>1, <1>3, <2>1 DEF m
<1>4. CASE J # {}
  <2> HIDE DEF J
  <2>1. m \in J /\ \A i \in J : m <= i BY <1>1, <1>2, <1>4, MinIs
  <2>2. m \in 1..Len(w) /\ w[m] = c BY <2>1 DEF J
  <2>3. ASSUME NEW i \in 1..(m - 1), w[i] = c PROVE FALSE
    <3>1. i \in 1..Len(w) /\ ~(m <= i) BY <1>2, <2>2
    <3>2. i \in J BY <2>3, <3>1 DEF J
    <3> QED BY <2>1, <3>1, <3>2
  <2> QED BY <2>2, <2>3 DEF m
<1> QED BY <1>3, <1>4

LEMMA FirstAtFrom ==
  ASSUME NEW S, NEW w \in Seq(S), NEW c, NEW m \in 1..Len(w), w[m] = c,
         \A i \in 1..(m - 1) : w[i] # c
  PROVE  FirstAt(w, c) = m
<1> DEFINE n == FirstAt(w, c)
<1>1. \/ n = 0 /\ \A i \in 1..Len(w) : w[i] # c
      \/ n \in 1..Len(w) /\ w[n] = c /\ \A i \in 1..(n - 1) : w[i] # c
  BY FirstAtIs
<1> HIDE DEF n
<1>2. Len(w) \in Nat BY LenProperties
<1>3. n \in 1..Len(w) /\ w[n] = c /\ \A i \in 1..(n - 1) : w[i] # c BY <1>1
<1>4. ~(n < m) BY <1>2, <1>3
<1>5. ~(m < n)
  <2>1. m < n => m \in 1..(n - 1) BY <1>2, <1>3
  <2> QED BY <1>3, <2>1
<1>6. n = m BY <1>2, <1>3, <1>4, <1>5
<1> QED BY <1>6 DEF n

(* The parts before and behind a place, of a text with one letter more.     *)
GrownAt(S, u, w, x, m) ==
  /\ SubSeq(u, 1, m - 1) = SubSeq(w, 1, m - 1)
  /\ SubSeq(u, m + 1, Len(w) + 1) = Append(SubSeq(w, m + 1, Len(w)), x)
  /\ SubSeq(w, 1, m - 1) \in Seq(S) /\ SubSeq(w, m + 1, Len(w)) \in Seq(S)

LEMMA PartsOfMore ==
  ASSUME NEW S, NEW w \in Seq(S), NEW x \in S, NEW m \in 1..Len(w)
  PROVE  GrownAt(S, Append(w, x), w, x, m)
<1> DEFINE u == Append(w, x)
           n == Len(w)
           a == SubSeq(w, 1, m - 1)
           b == SubSeq(w, m + 1, n)
           d == Append(b, x)
<1>1. n \in Nat /\ m \in Nat /\ m <= n BY LenProperties
<1>2. /\ u \in Seq(S) /\ Len(u) = n + 1 /\ \A i \in 1..n : u[i] = w[i]
      /\ u[n + 1] = x
  BY AppendProperties
<1>3. 1 \in 1..(n + 1) /\ m - 1 \in 0..n /\ 1 <= (m - 1) + 1 /\ ((m - 1) - 1) + 1 = m - 1
      /\ \A i \in 1..(m - 1) : (i + 1) - 1 = i
  BY <1>1
<1>4. a \in Seq(S) /\ Len(a) = ((m - 1) - 1) + 1
      /\ a = [i \in 1..(((m - 1) - 1) + 1) |-> w[(i + 1) - 1]]
  BY <1>3, PartIs
<1>5. m + 1 \in 1..(n + 1) /\ n \in 0..n /\ m + 1 <= n + 1 /\ (n - (m + 1)) + 1 = n - m
      /\ \A i \in 1..(n - m) : (i + (m + 1)) - 1 = m + i
  BY <1>1
<1>6. b \in Seq(S) /\ Len(b) = (n - (m + 1)) + 1
      /\ b = [i \in 1..((n - (m + 1)) + 1) |-> w[(i + (m + 1)) - 1]]
  <2> DEFINE k == m + 1
  <2>1. k \in 1..(n + 1) /\ n \in 0..n /\ k <= n + 1 BY <1>5
  <2> HIDE DEF k
  <2>2. SubSeq(w, k, n) \in Seq(S) /\ Len(SubSeq(w, k, n)) = (n - k) + 1
        /\ SubSeq(w, k, n) = [i \in 1..((n - k) + 1) |-> w[(i + k) - 1]]
    BY <2>1, PartIs
  <2> QED BY <2>2 DEF k
<1>7. Len(a) = m - 1 /\ \A i \in 1..(m - 1) : a[i] = w[i] BY <1>3, <1>4
<1>8. Len(b) = n - m /\ \A i \in 1..(n - m) : b[i] = w[m + i] BY <1>5, <1>6
<1> HIDE DEF a, b, u
<1>9. /\ d \in Seq(S) /\ Len(d) = (n - m) + 1 /\ \A i \in 1..(n - m) : d[i] = b[i]
      /\ d[(n - m) + 1] = x
  BY <1>6, <1>8, AppendProperties
<1> HIDE DEF d
<1>10. SubSeq(u, 1, m - 1) = a
  <2>1. \A j \in 1..Len(a) : u[0 + j] = a[j]
    <3> SUFFICES ASSUME NEW j \in 1..(m - 1) PROVE u[0 + j] = a[j] BY <1>7
    <3>1. j \in 1..n /\ 0 + j = j BY <1>1
    <3> QED BY <1>2, <1>7, <3>1
  <2>2. m - 1 = 0 + Len(a) /\ m - 1 <= Len(u) /\ 0 \in Nat /\ 0 + 1 = 1 BY <1>1, <1>2, <1>7
  <2>3. SubSeq(u, 0 + 1, m - 1) = a BY <1>2, <1>4, <2>1, <2>2, TextAt
  <2> QED BY <2>2, <2>3
<1>11. SubSeq(u, m + 1, n + 1) = d
  <2>1. \A j \in 1..Len(d) : u[m + j] = d[j]
    <3> SUFFICES ASSUME NEW j \in 1..((n - m) + 1) PROVE u[m + j] = d[j] BY <1>9
    <3>1. CASE j = (n - m) + 1
      <4>1. m + j = n + 1 BY <1>1, <3>1
      <4> QED BY <1>2, <1>9, <3>1, <4>1
    <3>2. CASE j # (n - m) + 1
      <4>1. j \in 1..(n - m) /\ m + j \in 1..n BY <1>1, <3>2
      <4> QED BY <1>2, <1>8, <1>9, <4>1
    <3> QED BY <3>1, <3>2
  <2>2. n + 1 = m + Len(d) /\ n + 1 <= Len(u) BY <1>1, <1>2, <1>9
  <2> QED BY <1>1, <1>2, <1>9, <2>1, <2>2, TextAt
<1> QED BY <1>4, <1>6, <1>10, <1>11 DEF GrownAt, a, b, d, u, n

(* Key and value of a piece; and what one letter more makes of them.        *)
Pairs(S) == [key : Seq(S), value : Seq(S) \cup {Null}]
OneMore(kv, w, x) ==
  IF kv.value = Null
  THEN IF x = "=" THEN [key |-> kv.key, value |-> <<>>] ELSE [key |-> Append(w, x), value |-> Null]
  ELSE [key |-> kv.key, value |-> Append(kv.value, x)]

LEMMA KeyOfIs ==
  ASSUME NEW S, NEW w \in Seq(S), Null \notin Seq(S)
  PROVE  /\ KeyOf(w) \in Pairs(S)
         /\ KeyOf(w).value = Null => KeyOf(w).key = w
<1> DEFINE e == FirstAt(w, "=")
           b == SubSeq(w, e + 1, Len(w))
           a == SubSeq(w, 1, e - 1)
<1>1. KeyOf(w) = IF e = 0 THEN [key |-> w, value |-> Null] ELSE [key |-> a, value |-> b]
  BY DEF KeyOf, FirstAt
<1>2. e = 0 \/ e \in 1..Len(w) BY FirstAtIs
<1>3. CASE e = 0
  <2>1. KeyOf(w) = [key |-> w, value |-> Null] BY <1>1, <1>3
  <2> QED BY <2>1 DEF Pairs
<1>4. CASE e \in 1..Len(w)
  <2>1. Len(w) \in Nat BY LenProperties
  <2>2. e # 0 /\ 1 \in 1..(Len(w) + 1) /\ e - 1 \in 0..Len(w) /\ 1 <= (e - 1) + 1
        /\ e + 1 \in 1..(Len(w) + 1) /\ Len(w) \in 0..Len(w) /\ e + 1 <= Len(w) + 1
    BY <1>4, <2>1
  <2> HIDE DEF e
  <2>3. a \in Seq(S) /\ b \in Seq(S) BY <2>2, PartIs
  <2> HIDE DEF a, b
  <2>4. KeyOf(w) = [key |-> a, value |-> b] BY <1>1, <2>2
  <2>5. b # Null BY <2>3
  <2> QED BY <2>3, <2>4, <2>5 DEF Pairs
<1> QED BY <1>2, <1>3, <1>4

LEMMA KeyOfMore ==
  ASSUME NEW S, NEW w \in Seq(S), NEW x \in S, Null \notin Seq(S)
  PROVE  KeyOf(Append(w, x)) = OneMore(KeyOf(w), w, x)
<1> DEFINE u == Append(w, x)
           n == Len(w)
           e == FirstAt(w, "=")
           f == FirstAt(u, "=")
<1>1. n \in Nat BY LenProperties
<1>2. /\ u \in Seq(S) /\ Len(u) = n + 1 /\ \A i \in 1..n : u[i] = w[i]
      /\ u[n + 1] = x
  BY AppendProperties
<1>3. KeyOf(w) = IF e = 0 THEN [key |-> w, value |-> Null]
                 ELSE [key |-> SubSeq(w, 1, e - 1), value |-> SubSeq(w, e + 1, n)]
  BY DEF KeyOf, FirstAt
<1>4. KeyOf(u) = IF f = 0 THEN [key |-> u, value |-> Null]
                 ELSE [key |-> SubSeq(u, 1, f - 1), value |-> SubSeq(u, f + 1, Len(u))]
  BY DEF KeyOf, FirstAt
<1>5. \/ e = 0 /\ \A i \in 1..n : w[i] # "="
      \/ e \in 1..n /\ w[e] = "=" /\ \A i \in 1..(e - 1) : w[i] # "="
  BY FirstAtIs
<1> HIDE DEF u
<1>6. CASE e = 0 /\ x # "="
  <2>1. \A i \in 1..(n + 1) : u[i] # "="
    <3>1. \A i \in 1..(n + 1) : i \in 1..n \/ i = n + 1 BY <1>1
    <3> QED BY <1>1, <1>2, <1>5, <1>6, <3>1
  <2>2. f = 0 BY <1>2, <2>1, FirstAtIs
  <2> HIDE DEF e, f
  <2>3. KeyOf(w) = [key |-> w, value |-> Null] BY <1>3, <1>6
  <2>4. KeyOf(u) = [key |-> u, value |-> Null] BY <1>4, <2>2
  <2> QED BY <1>6, <2>3, <2>4 DEF OneMore, u
<1>7. CASE e = 0 /\ x = "="
  <2>1. n + 1 \in 1..Len(u) /\ \A i \in 1..((n + 1) - 1) : i \in 1..n BY <1>1, <1>2
  <2>2. f = n + 1
    <3>1. u[n + 1] = "=" /\ \A i \in 1..((n + 1) - 1) : u[i] # "=" BY <1>2, <1>5, <1>7, <2>1
    <3> QED BY <1>2, <2>1, <3>1, FirstAtFrom
  <2> HIDE DEF e, f
  <2>3. KeyOf(w) = [key |-> w, value |-> Null] BY <1>3, <1>7
  <2>4. SubSeq(u, 1, n) = w
    <3>1. \A j \in 1..n : u[0 + j] = w[j] BY <1>2
    <3>2. n = 0 + Len(w) /\ n <= Len(u) /\ 0 \in Nat /\ 0 + 1 = 1 BY <1>1, <1>2
    <3>3. SubSeq(u, 0 + 1, n) = w BY <1>2, <3>1, <3>2, TextAt
    <3> QED BY <3>2, <3>3
  <2>5. SubSeq(u, (n + 1) + 1, n + 1) = <<>>
    <3>1. (n + 1) + 1 > n + 1 BY <1>1
    <3> DEFINE v == SubSeq(u, (n + 1) + 1, n + 1)
    <3>2. (n + 1) + 1 \in 1..(Len(u) + 1) /\ n + 1 \in 0..Len(u) /\ (n + 1) + 1 <= (n + 1) + 1
          /\ ((n + 1) - ((n + 1) + 1)) + 1 = 0
      BY <1>1, <1>2
    <3>3. v \in Seq(S) /\ Len(v) = ((n + 1) - ((n + 1) + 1)) + 1 BY <1>2, <3>2, PartIs
    <3> HIDE DEF v
    <3>4. v \in Seq(S) /\ Len(v) = 0 BY <3>2, <3>3
    <3>5. v = <<>> BY <3>4, EmptySeq
    <3> QED BY <3>5 DEF v
  <2>6. f # 0 /\ f - 1 = n /\ f + 1 = (n + 1) + 1 BY <1>1, <2>2
  <2>7. KeyOf(u) = [key |-> w, value |-> <<>>] BY <1>2, <1>4, <2>4, <2>5, <2>6
  <2> QED BY <1>7, <2>3, <2>7 DEF OneMore, u
<1>8. CASE e # 0
  <2>1. e \in 1..n /\ w[e] = "=" /\ \A i \in 1..(e - 1) : w[i] # "=" BY <1>5, <1>8
  <2>2. f = e
    <3>1. e \in 1..Len(u) /\ \A i \in 1..(e - 1) : i \in 1..n BY <1>1, <1>2, <2>1
    <3>2. u[e] = "=" /\ \A i \in 1..(e - 1) : u[i] # "=" BY <1>2, <2>1, <3>1
    <3> HIDE DEF e
    <3> QED BY <1>2, <3>1, <3>2, FirstAtFrom
  <2> HIDE DEF e, f
  <2> DEFINE a == SubSeq(w, 1, e - 1)
             b == SubSeq(w, e + 1, n)
  <2>3. /\ SubSeq(u, 1, e - 1) = a /\ SubSeq(u, e + 1, n + 1) = Append(b, x)
        /\ a \in Seq(S) /\ b \in Seq(S)
    <3>1. e \in 1..Len(w) BY <2>1
    <3>2. GrownAt(S, Append(w, x), w, x, e) BY <3>1, PartsOfMore
    <3> QED BY <3>2 DEF GrownAt, u
  <2>4. KeyOf(w) = [key |-> a, value |-> b] BY <1>3, <1>8
  <2>5. KeyOf(u) = [key |-> a, value |-> Append(b, x)] BY <1>2, <1>4, <1>8, <2>2, <2>3
  <2> HIDE DEF a, b
  <2>6. b # Null BY <2>3
  <2> QED BY <2>4, <2>5, <2>6 DEF OneMore, u
<1> QED BY <1>6, <1>7, <1>8

(* What the loop of form_data has found: keys with a value or a null pointer. *)
Params(S) == UNION {[D -> Seq(S) \cup {Null}] : D \in SUBSET Seq(S)}
FormStates(S) == [params : Params(S), val : Seq(S) \cup {Null}, a : Seq(S)]

LEMMA ParamsAre ==
  ASSUME NEW S, NEW P
  PROVE  P \in Params(S) <=>
           DOMAIN P \subseteq Seq(S) /\ P \in [DOMAIN P -> Seq(S) \cup {Null}]
<1>1. ASSUME P \in Params(S)
      PROVE  DOMAIN P \subseteq Seq(S) /\ P \in [DOMAIN P -> Seq(S) \cup {Null}]
  <2>1. PICK D \in SUBSET Seq(S) : P \in [D -> Seq(S) \cup {Null}] BY <1>1 DEF Params
  <2>2. DOMAIN P = D BY <2>1
  <2> QED BY <2>1, <2>2
<1>2. ASSUME DOMAIN P \subseteq Seq(S), P \in [DOMAIN P -> Seq(S) \cup {Null}]
      PROVE  P \in Params(S)
  <2> DEFINE D == DOMAIN P
  <2>1. D \in SUBSET Seq(S) /\ P \in [D -> Seq(S) \cup {Null}] BY <1>2
  <2> HIDE DEF D
  <2> QED BY <2>1 DEF Params
<1> QED BY <1>1, <1>2

(* A key is there, with a null pointer or what it had; and with a value.    *)
Touched(S, P, key, Q) ==
  /\ Q \in Params(S) /\ DOMAIN Q = DOMAIN P \cup {key}
  /\ \A k \in DOMAIN P \cup {key} : Q[k] = IF k \in DOMAIN P THEN P[k] ELSE Null
Assigned(S, P, key, v, Q) ==
  /\ Q \in Params(S) /\ DOMAIN Q = DOMAIN P \cup {key}
  /\ \A k \in DOMAIN P \cup {key} : Q[k] = IF k = key THEN v ELSE P[k]

LEMMA TouchIs ==
  ASSUME NEW S, NEW P \in Params(S), NEW key \in Seq(S)
  PROVE  Touched(S, P, key, Touch(P, key))
<1> DEFINE Q == Touch(P, key)
<1>1. DOMAIN P \subseteq Seq(S) /\ P \in [DOMAIN P -> Seq(S) \cup {Null}] BY ParamsAre
<1>2. Q = [k \in DOMAIN P \cup {key} |-> IF k \in DOMAIN P THEN P[k] ELSE Null] BY DEF Touch
<1> HIDE DEF Q
<1>3. DOMAIN Q = DOMAIN P \cup {key} BY <1>2
<1>4. Q \in [DOMAIN P \cup {key} -> Seq(S) \cup {Null}] BY <1>1, <1>2
<1>5. DOMAIN Q \subseteq Seq(S) /\ Q \in [DOMAIN Q -> Seq(S) \cup {Null}] BY <1>1, <1>3, <1>4
<1>6. Q \in Params(S) BY <1>5, ParamsAre
<1> QED BY <1>2, <1>3, <1>6 DEF Q, Touched

LEMMA AssignIs ==
  ASSUME NEW S, NEW P \in Params(S), NEW key \in Seq(S), NEW v \in Seq(S)
  PROVE  Assigned(S, P, key, v, Assign(P, key, v))
<1> DEFINE Q == Assign(P, key, v)
<1>1. DOMAIN P \subseteq Seq(S) /\ P \in [DOMAIN P -> Seq(S) \cup {Null}] BY ParamsAre
<1>2. Q = [k \in DOMAIN P \cup {key} |-> IF k = key THEN v ELSE P[k]] BY DEF Assign
<1> HIDE DEF Q
<1>3. DOMAIN Q = DOMAIN P \cup {key} BY <1>2
<1>4. Q \in [DOMAIN P \cup {key} -> Seq(S) \cup {Null}] BY <1>1, <1>2
<1>5. DOMAIN Q \subseteq Seq(S) /\ Q \in [DOMAIN Q -> Seq(S) \cup {Null}] BY <1>1, <1>3, <1>4
<1>6. Q \in Params(S) BY <1>5, ParamsAre
<1> QED BY <1>2, <1>3, <1>6 DEF Q, Assigned

(* The three turns of the loop. *)
LEMMA FormLetterIs ==
  ASSUME NEW S, NEW st \in FormStates(S), NEW c
  PROVE  /\ c = "=" /\ st.val = Null =>
              FormLetter(st, c) = [params |-> Touch(st.params, st.a), val |-> st.a, a |-> <<>>]
         /\ c \in {"&", NUL} =>
              FormLetter(st, c) =
                [params |-> IF st.val = Null THEN Touch(st.params, st.a)
                            ELSE Assign(st.params, st.val, st.a),
                 val |-> Null, a |-> <<>>]
         /\ ~(c = "=" /\ st.val = Null) /\ c \notin {"&", NUL} =>
              FormLetter(st, c) = [params |-> st.params, val |-> st.val, a |-> Append(st.a, c)]
<1>1. st = [params |-> st.params, val |-> st.val, a |-> st.a] BY DEF FormStates
<1>2. "=" # "&" /\ "=" # NUL BY SeparatorAssumption
<1>3. ASSUME c = "=", st.val = Null
      PROVE  FormLetter(st, c) = [params |-> Touch(st.params, st.a), val |-> st.a, a |-> <<>>]
  BY <1>1, <1>3 DEF FormLetter
<1>4. ASSUME c \in {"&", NUL}
      PROVE  FormLetter(st, c) =
               [params |-> IF st.val = Null THEN Touch(st.params, st.a)
                           ELSE Assign(st.params, st.val, st.a),
                val |-> Null, a |-> <<>>]
  <2>1. c # "=" BY <1>2, <1>4
  <2> QED BY <1>1, <1>4, <2>1 DEF FormLetter
<1>5. ASSUME ~(c = "=" /\ st.val = Null), c \notin {"&", NUL}
      PROVE  FormLetter(st, c) = [params |-> st.params, val |-> st.val, a |-> Append(st.a, c)]
  BY <1>1, <1>5 DEF FormLetter
<1> QED BY <1>3, <1>4, <1>5

LEMMA FormLetterTyped ==
  ASSUME NEW S, NEW st \in FormStates(S), NEW c \in S
  PROVE  FormLetter(st, c) \in FormStates(S)
<1> DEFINE P == st.params  v == st.val  a == st.a
<1>1. P \in Params(S) /\ v \in Seq(S) \cup {Null} /\ a \in Seq(S) BY DEF FormStates
<1>2. Touch(P, a) \in Params(S) BY <1>1, TouchIs DEF Touched
<1>3. v # Null => Assign(P, v, a) \in Params(S) BY <1>1, AssignIs DEF Assigned
<1>4. <<>> \in Seq(S) /\ Append(a, c) \in Seq(S) BY <1>1, AppendProperties
<1>5. CASE c = "=" /\ v = Null
  <2>1. FormLetter(st, c) = [params |-> Touch(P, a), val |-> a, a |-> <<>>] BY <1>5, FormLetterIs
  <2> HIDE DEF P, v, a
  <2> QED BY <1>1, <1>2, <1>4, <2>1 DEF FormStates
<1>6. CASE c \in {"&", NUL}
  <2> DEFINE Q == IF v = Null THEN Touch(P, a) ELSE Assign(P, v, a)
  <2>1. FormLetter(st, c) = [params |-> Q, val |-> Null, a |-> <<>>] BY <1>6, FormLetterIs
  <2>2. Q \in Params(S) BY <1>2, <1>3
  <2> HIDE DEF P, v, a, Q
  <2> QED BY <1>4, <2>1, <2>2 DEF FormStates
<1>7. CASE ~(c = "=" /\ v = Null) /\ c \notin {"&", NUL}
  <2>1. FormLetter(st, c) = [params |-> P, val |-> v, a |-> Append(a, c)] BY <1>7, FormLetterIs
  <2> HIDE DEF P, v, a
  <2> QED BY <1>1, <1>4, <2>1 DEF FormStates
<1> QED BY <1>5, <1>6, <1>7

(* The turns of the loop over a text. *)
FormTurnsOf(w, t) ==
  /\ w[0] = [params |-> <<>>, val |-> Null, a |-> <<>>]
  /\ \A n \in 1..Len(t) : w[n] = FormLetter(w[n - 1], t[n])

LEMMA FormTurnsAre ==
  ASSUME NEW S, NEW t \in Seq(S)
  PROVE  \E w : /\ FormTurns(t) = w[Len(t)].params /\ FormTurnsOf(w, t)
                /\ \A n \in 0..Len(t) : w[n] \in FormStates(S)
<1> DEFINE N == Len(t)
           start == [params |-> <<>>, val |-> Null, a |-> <<>>]
           step == [p \in FormStates(S) \X (1..N) |-> FormLetter(p[1], t[p[2]])]
           Is(g) == g = [n \in 0..N |-> IF n = 0 THEN start ELSE FormLetter(g[n - 1], t[n])]
           w == Stepwise(0, N, start, step)
           r == CHOOSE g : Is(g)
<1>1. N \in Nat /\ 0 \in Int /\ N \in Int /\ 0 \in 0..N /\ N \in 0..N /\ 0 + 1 = 1 BY LenProperties
<1>2. \A i \in 1..N : t[i] \in S BY ElementOfSeq
<1>3. start \in FormStates(S)
  <2> DEFINE P == <<>>
  <2>1. DOMAIN P \subseteq Seq(S) /\ P \in [DOMAIN P -> Seq(S) \cup {Null}] OBVIOUS
  <2>2. P \in Params(S) BY <2>1, ParamsAre
  <2> HIDE DEF P
  <2>3. [params |-> P, val |-> Null, a |-> <<>>] \in FormStates(S) BY <2>2 DEF FormStates
  <2> QED BY <2>3 DEF P
<1>4. step \in [FormStates(S) \X ((0 + 1)..N) -> FormStates(S)]
  <2> SUFFICES ASSUME NEW p \in FormStates(S) \X (1..N)
               PROVE  FormLetter(p[1], t[p[2]]) \in FormStates(S)
    BY <1>1
  <2>1. p[1] \in FormStates(S) /\ p[2] \in 1..N OBVIOUS
  <2>2. t[p[2]] \in S BY <2>1, <1>2
  <2> QED BY <2>1, <2>2, FormLetterTyped
<1>5. ASSUME NEW i \in 1..N, NEW v \in FormStates(S) PROVE step[<<v, i>>] = FormLetter(v, t[i])
  OBVIOUS
<1>6. FormTurns(t) = r[N].params BY DEF FormTurns
<1> HIDE DEF start, step, w
<1>8. FollowsSteps(w, 0, N, start, step) BY <1>1, <1>3, <1>4, StepwiseFollows DEF w
<1>9. \A i \in 0..N : w[i] \in FormStates(S) BY <1>1, <1>3, <1>4, <1>8, StepwiseTyped
<1>10. ASSUME NEW i \in 0..N PROVE w[i] = IF i = 0 THEN start ELSE FormLetter(w[i - 1], t[i])
  <2>1. w[i] = IF i = 0 THEN start ELSE step[<<w[i - 1], i>>] BY <1>8 DEF FollowsSteps
  <2>2. i # 0 => i - 1 \in 0..N /\ i \in 1..N BY <1>1
  <2> QED BY <1>5, <1>9, <2>1, <2>2
<1>11. \E g : Is(g)
  <2> DEFINE g == [i \in 0..N |-> w[i]]
  <2>1. \A i \in 0..N : i # 0 => g[i - 1] = w[i - 1] BY <1>1
  <2>2. Is(g) BY <1>10, <2>1
  <2> QED BY <2>2
<1>12. Is(r)
  <2> HIDE DEF Is
  <2> QED BY <1>11
<1> HIDE DEF r
<1>13. \A i \in 0..N : r[i] = IF i = 0 THEN start ELSE FormLetter(r[i - 1], t[i]) BY <1>12
<1> DEFINE T == {i \in 0..N : r[i] \in FormStates(S)}
<1>14. 0 \in T BY <1>1, <1>3, <1>13
<1>15. ASSUME NEW i \in (0 + 1)..N, i - 1 \in T PROVE i \in T
  <2>1. i \in 0..N /\ i # 0 /\ i \in 1..N /\ r[i - 1] \in FormStates(S) BY <1>1, <1>15
  <2>2. r[i] = FormLetter(r[i - 1], t[i]) BY <2>1, <1>13
  <2>3. r[i] \in FormStates(S) BY <2>1, <2>2, <1>2, FormLetterTyped
  <2> QED BY <2>1, <2>3
<1> HIDE DEF T
<1>16. \A i \in 0..N : i \in T BY <1>1, <1>14, <1>15, UpwardInduction
<1>17. \A i \in 0..N : r[i] \in FormStates(S) BY <1>16 DEF T
<1>18. FormTurnsOf(r, t)
  <2>1. r[0] = start BY <1>1, <1>13
  <2>2. \A n \in 1..N : n \in 0..N /\ n # 0 BY <1>1
  <2> QED BY <1>13, <2>1, <2>2 DEF FormTurnsOf, start
<1> QED BY <1>6, <1>17, <1>18

(* The loop inside a piece, of which it has seen x.                         *)
Within(P, x) ==
  IF KeyOf(x).value = Null THEN [params |-> P, val |-> Null, a |-> x]
  ELSE [params |-> Touch(P, KeyOf(x).key), val |-> KeyOf(x).key, a |-> KeyOf(x).value]

(* What a piece makes of the parameters. *)
Told(P, x) ==
  IF KeyOf(x).value = Null THEN Touch(P, KeyOf(x).key)
  ELSE Assign(Touch(P, KeyOf(x).key), KeyOf(x).key, KeyOf(x).value)

LEMMA WithinTyped ==
  ASSUME NEW S, NEW P \in Params(S), NEW x \in Seq(S), Null \notin Seq(S)
  PROVE  Within(P, x) \in FormStates(S)
<1> DEFINE kv == KeyOf(x)
<1>1. kv \in Pairs(S) BY KeyOfIs
<1>2. kv.key \in Seq(S) /\ kv.value \in Seq(S) \cup {Null} BY <1>1 DEF Pairs
<1> HIDE DEF kv
<1>3. Touch(P, kv.key) \in Params(S) BY <1>2, TouchIs DEF Touched
<1>4. Within(P, x) = IF kv.value = Null THEN [params |-> P, val |-> Null, a |-> x]
                     ELSE [params |-> Touch(P, kv.key), val |-> kv.key, a |-> kv.value]
  BY DEF Within, kv
<1> QED BY <1>2, <1>3, <1>4 DEF FormStates

LEMMA WithinMore ==
  ASSUME NEW S, NEW P \in Params(S), NEW x \in Seq(S), Null \notin Seq(S),
         NEW c \in S, c \notin {"&", NUL}
  PROVE  FormLetter(Within(P, x), c) = Within(P, Append(x, c))
<1> DEFINE kv == KeyOf(x)
           st == Within(P, x)
           u == Append(x, c)
           next == KeyOf(u)
<1>1. kv \in Pairs(S) /\ (kv.value = Null => kv.key = x) BY KeyOfIs
<1>2. kv.key \in Seq(S) /\ kv.value \in Seq(S) \cup {Null} BY <1>1 DEF Pairs
<1>3. next = OneMore(kv, x, c) BY KeyOfMore
<1>4. st \in FormStates(S) BY WithinTyped
<1>5. st = IF kv.value = Null THEN [params |-> P, val |-> Null, a |-> x]
           ELSE [params |-> Touch(P, kv.key), val |-> kv.key, a |-> kv.value]
  BY DEF Within
<1>6. Within(P, u) = IF next.value = Null THEN [params |-> P, val |-> Null, a |-> u]
                     ELSE [params |-> Touch(P, next.key), val |-> next.key, a |-> next.value]
  BY DEF Within
<1>7. <<>> # Null
  <2>1. <<>> \in Seq(S) OBVIOUS
  <2> QED BY <2>1
<1> HIDE DEF kv, st, next
<1>8. CASE kv.value = Null /\ c = "="
  <2>1. st = [params |-> P, val |-> Null, a |-> x] BY <1>5, <1>8
  <2>2. FormLetter(st, c) = [params |-> Touch(P, x), val |-> x, a |-> <<>>]
    BY <1>4, <1>8, <2>1, FormLetterIs
  <2>3. next = [key |-> x, value |-> <<>>] BY <1>1, <1>3, <1>8 DEF OneMore
  <2>4. Within(P, u) = [params |-> Touch(P, x), val |-> x, a |-> <<>>] BY <1>6, <1>7, <2>3
  <2> QED BY <2>2, <2>4 DEF st
<1>9. CASE kv.value = Null /\ c # "="
  <2>1. st = [params |-> P, val |-> Null, a |-> x] BY <1>5, <1>9
  <2>2. FormLetter(st, c) = [params |-> P, val |-> Null, a |-> u]
    BY <1>4, <1>9, <2>1, FormLetterIs
  <2>3. next = [key |-> u, value |-> Null] BY <1>3, <1>9 DEF OneMore
  <2>4. Within(P, u) = [params |-> P, val |-> Null, a |-> u] BY <1>6, <2>3
  <2> QED BY <2>2, <2>4 DEF st
<1>10. CASE kv.value # Null
  <2> DEFINE b == Append(kv.value, c)
  <2>1. st = [params |-> Touch(P, kv.key), val |-> kv.key, a |-> kv.value] BY <1>5, <1>10
  <2>2. st.params = Touch(P, kv.key) /\ st.val = kv.key /\ st.a = kv.value /\ st.val # Null
    BY <1>2, <2>1
  <2>3. FormLetter(st, c) = [params |-> Touch(P, kv.key), val |-> kv.key, a |-> b]
    <3>1. ~(c = "=" /\ st.val = Null) /\ c \notin {"&", NUL} BY <2>2
    <3>2. FormLetter(st, c) = [params |-> st.params, val |-> st.val, a |-> Append(st.a, c)]
      BY <1>4, <3>1, FormLetterIs
    <3> QED BY <2>2, <3>2
  <2>4. next = [key |-> kv.key, value |-> b] BY <1>3, <1>10 DEF OneMore
  <2>5. b # Null
    <3>1. kv.value \in Seq(S) BY <1>2, <1>10
    <3>2. b \in Seq(S) BY <3>1, AppendProperties
    <3> QED BY <3>2
  <2> HIDE DEF b
  <2>6. Within(P, u) = [params |-> Touch(P, kv.key), val |-> kv.key, a |-> b]
    BY <1>6, <2>4, <2>5
  <2> QED BY <2>3, <2>6 DEF st
<1> QED BY <1>8, <1>9, <1>10

LEMMA WithinEnds ==
  ASSUME NEW S, NEW P \in Params(S), NEW x \in Seq(S), Null \notin Seq(S),
         NEW c, c \in {"&", NUL}
  PROVE  FormLetter(Within(P, x), c) = [params |-> Told(P, x), val |-> Null, a |-> <<>>]
<1> DEFINE kv == KeyOf(x)
           st == Within(P, x)
<1>1. kv \in Pairs(S) /\ (kv.value = Null => kv.key = x) BY KeyOfIs
<1>2. kv.key \in Seq(S) /\ kv.value \in Seq(S) \cup {Null} BY <1>1 DEF Pairs
<1>3. st \in FormStates(S) BY WithinTyped
<1>4. st = IF kv.value = Null THEN [params |-> P, val |-> Null, a |-> x]
           ELSE [params |-> Touch(P, kv.key), val |-> kv.key, a |-> kv.value]
  BY DEF Within
<1>5. Told(P, x) = IF kv.value = Null THEN Touch(P, kv.key)
                   ELSE Assign(Touch(P, kv.key), kv.key, kv.value)
  BY DEF Told
<1>6. FormLetter(st, c) = [params |-> IF st.val = Null THEN Touch(st.params, st.a)
                                      ELSE Assign(st.params, st.val, st.a),
                           val |-> Null, a |-> <<>>]
  BY <1>3, FormLetterIs
<1> HIDE DEF kv, st
<1>7. CASE kv.value = Null
  <2>1. st = [params |-> P, val |-> Null, a |-> x] BY <1>4, <1>7
  <2> QED BY <1>1, <1>5, <1>6, <1>7, <2>1 DEF st
<1>8. CASE kv.value # Null
  <2>1. st = [params |-> Touch(P, kv.key), val |-> kv.key, a |-> kv.value] BY <1>4, <1>8
  <2>2. st.val # Null BY <1>2, <2>1
  <2> QED BY <1>5, <1>6, <1>8, <2>1, <2>2 DEF st
<1> QED BY <1>7, <1>8

(* x has the key k and a value. *)
Gives(x, k) == KeyOf(x).key = k /\ KeyOf(x).value # Null

ToldBy(S, P, x, Q) ==
  /\ Q \in Params(S) /\ DOMAIN Q = DOMAIN P \cup {KeyOf(x).key}
  /\ \A k \in DOMAIN Q :
       Q[k] = IF Gives(x, k) THEN KeyOf(x).value
              ELSE IF k \in DOMAIN P THEN P[k] ELSE Null

LEMMA ToldIs ==
  ASSUME NEW S, NEW P \in Params(S), NEW x \in Seq(S), Null \notin Seq(S)
  PROVE  ToldBy(S, P, x, Told(P, x))
<1> DEFINE key == KeyOf(x).key
           v == KeyOf(x).value
           Q == Touch(P, key)
           R == Assign(Q, key, v)
<1>1. KeyOf(x) \in Pairs(S) BY KeyOfIs
<1>2. key \in Seq(S) /\ v \in Seq(S) \cup {Null} BY <1>1 DEF Pairs
<1>3. Told(P, x) = IF v = Null THEN Q ELSE R BY DEF Told
<1>4. \A k : Gives(x, k) <=> key = k /\ v # Null BY DEF Gives
<1> HIDE DEF key, v
<1>5. /\ Q \in Params(S) /\ DOMAIN Q = DOMAIN P \cup {key}
      /\ \A k \in DOMAIN P \cup {key} : Q[k] = IF k \in DOMAIN P THEN P[k] ELSE Null
  <2>1. Touched(S, P, key, Q) BY <1>2, TouchIs
  <2> HIDE DEF Q
  <2> QED BY <2>1 DEF Touched
<1> HIDE DEF Q
<1>6. CASE v = Null
  <2>1. Told(P, x) = Q /\ \A k : ~Gives(x, k) BY <1>3, <1>4, <1>6
  <2> QED BY <1>5, <2>1 DEF key, v, ToldBy
<1>7. CASE v # Null
  <2>1. /\ R \in Params(S) /\ DOMAIN R = DOMAIN Q \cup {key}
        /\ \A k \in DOMAIN Q \cup {key} : R[k] = IF k = key THEN v ELSE Q[k]
    <3>1. v \in Seq(S) BY <1>2, <1>7
    <3>2. Assigned(S, Q, key, v, R) BY <1>2, <1>5, <3>1, AssignIs
    <3> HIDE DEF R
    <3> QED BY <3>2 DEF Assigned
  <2> HIDE DEF R
  <2>2. Told(P, x) = R /\ \A k : Gives(x, k) <=> key = k BY <1>3, <1>4, <1>7
  <2>3. DOMAIN R = DOMAIN P \cup {key} BY <1>5, <2>1
  <2>4. ASSUME NEW k \in DOMAIN R
        PROVE  R[k] = IF Gives(x, k) THEN v ELSE IF k \in DOMAIN P THEN P[k] ELSE Null
    <3>1. k \in DOMAIN Q \cup {key} /\ k \in DOMAIN P \cup {key} BY <1>5, <2>3
    <3>2. R[k] = IF k = key THEN v ELSE Q[k] BY <2>1, <3>1
    <3>3. Q[k] = IF k \in DOMAIN P THEN P[k] ELSE Null BY <1>5, <3>1
    <3> QED BY <2>2, <3>2, <3>3
  <2> QED BY <2>1, <2>2, <2>3, <2>4 DEF key, v, ToldBy
<1> QED BY <1>6, <1>7

(* The loop between two pieces. *)
Between(P) == [params |-> P, val |-> Null, a |-> <<>>]

(* The loop has read a part of a text that has no separator.                *)
LEMMA PieceWalked ==
  ASSUME NEW S, NEW t \in Seq(S), Null \notin Seq(S), NEW w, FormTurnsOf(w, t),
         NEW P \in Params(S), NEW i \in 1..Len(t), NEW e \in i..Len(t),
         w[i - 1] = Between(P),
         \A j \in i..(e - 1) : t[j] \notin {"&", NUL}, t[e] \in {"&", NUL}
  PROVE  w[e] = Between(Told(P, SubSeq(t, i, e - 1)))
<1> DEFINE x(j) == SubSeq(t, i, j)
           T == {j \in (i - 1)..(e - 1) : w[j] = Within(P, x(j))}
<1>1. Len(t) \in Nat /\ i \in Nat /\ e \in Nat /\ i <= e /\ e <= Len(t) /\ 1 <= i BY LenProperties
<1>2. ASSUME NEW j \in (i - 1)..(e - 1)
      PROVE  x(j) \in Seq(S) /\ Len(x(j)) = (j - i) + 1
             /\ \A k \in 1..((j - i) + 1) : x(j)[k] = t[(k + i) - 1]
  <2>1. i \in 1..(Len(t) + 1) /\ j \in 0..Len(t) /\ i <= j + 1 BY <1>1
  <2>2. x(j) \in Seq(S) /\ Len(x(j)) = (j - i) + 1
        /\ x(j) = [k \in 1..((j - i) + 1) |-> t[(k + i) - 1]]
    BY <2>1, PartIs
  <2> HIDE DEF x
  <2> QED BY <2>2
<1> HIDE DEF x
<1>3. i - 1 \in T
  <2>1. i - 1 \in (i - 1)..(e - 1) BY <1>1
  <2>2. Len(x(i - 1)) = 0 BY <1>1, <1>2, <2>1
  <2>3. x(i - 1) = <<>> BY <1>2, <2>1, <2>2, EmptySeq
  <2>4. KeyOf(<<>>).value = Null
    <3> DEFINE z == <<>>
    <3>1. z \in Seq(S) /\ Len(z) = 0 OBVIOUS
    <3>2. FirstAt(z, "=") = 0
      <4>1. 1..Len(z) = {} BY <3>1
      <4> HIDE DEF z
      <4> QED BY <3>1, <4>1, FirstAtIs
    <3> HIDE DEF z
    <3>3. KeyOf(z) = [key |-> z, value |-> Null] BY <3>2 DEF KeyOf, FirstAt
    <3>4. KeyOf(z).value = Null BY <3>3
    <3> QED BY <3>4 DEF z
  <2>5. Within(P, <<>>) = [params |-> P, val |-> Null, a |-> <<>>] BY <2>4 DEF Within
  <2> QED BY <2>1, <2>3, <2>5 DEF Between
<1>4. ASSUME NEW j \in ((i - 1) + 1)..(e - 1), j - 1 \in T PROVE j \in T
  <2>1. j \in (i - 1)..(e - 1) /\ j - 1 \in (i - 1)..(e - 1) /\ j \in 1..Len(t) /\ j \in i..(e - 1)
    BY <1>1
  <2>2. w[j - 1] = Within(P, x(j - 1)) BY <1>4
  <2>3. t[j] \in S /\ t[j] \notin {"&", NUL} BY <2>1, ElementOfSeq
  <2>4. w[j] = FormLetter(w[j - 1], t[j]) BY <2>1 DEF FormTurnsOf
  <2> DEFINE y == x(j - 1)
             u == Append(y, t[j])
  <2>5. y \in Seq(S) /\ Len(y) = ((j - 1) - i) + 1
        /\ \A k \in 1..(((j - 1) - i) + 1) : y[k] = t[(k + i) - 1]
    BY <1>2, <2>1
  <2> HIDE DEF y
  <2>6. w[j] = Within(P, u) BY <2>2, <2>3, <2>4, <2>5, WithinMore DEF y
  <2>7. /\ u \in Seq(S) /\ Len(u) = Len(y) + 1 /\ \A k \in 1..Len(y) : u[k] = y[k]
        /\ u[Len(y) + 1] = t[j]
    BY <2>3, <2>5, AppendProperties
  <2> HIDE DEF u
  <2>8. u = x(j)
    <3>1. Len(u) = Len(x(j)) BY <1>1, <1>2, <2>1, <2>5, <2>7
    <3>2. ASSUME NEW k \in 1..Len(u) PROVE u[k] = x(j)[k]
      <4>1. k \in 1..((j - i) + 1) /\ Len(y) = j - i /\ Len(y) + 1 = (j - i) + 1
        BY <1>1, <2>1, <2>5, <2>7
      <4>2. x(j)[k] = t[(k + i) - 1] BY <1>2, <2>1, <4>1
      <4>3. CASE k = (j - i) + 1
        <5>1. (k + i) - 1 = j BY <1>1, <2>1, <4>3
        <5> QED BY <2>7, <4>1, <4>2, <4>3, <5>1
      <4>4. CASE k # (j - i) + 1
        <5>1. k \in 1..Len(y) /\ k \in 1..(((j - 1) - i) + 1) BY <1>1, <2>1, <4>1, <4>4
        <5> QED BY <2>5, <2>7, <4>2, <5>1
      <4> QED BY <4>3, <4>4
    <3> QED BY <1>2, <2>1, <2>7, <3>1, <3>2, SameElements
  <2> QED BY <2>1, <2>6, <2>8
<1> HIDE DEF T
<1>5. \A j \in (i - 1)..(e - 1) : j \in T
  <2>1. i - 1 \in Int /\ e - 1 \in Int BY <1>1
  <2> QED BY <2>1, <1>3, <1>4, UpwardInduction
<1>6. e - 1 \in (i - 1)..(e - 1) BY <1>1
<1>7. w[e - 1] = Within(P, x(e - 1)) BY <1>5, <1>6 DEF T
<1>8. w[e] = FormLetter(w[e - 1], t[e])
  <2>1. e \in 1..Len(t) BY <1>1
  <2> QED BY <2>1 DEF FormTurnsOf
<1>9. x(e - 1) \in Seq(S) BY <1>2, <1>6
<1>10. w[e] = Between(Told(P, x(e - 1)))
  BY <1>7, <1>8, <1>9, WithinEnds DEF Between
<1> QED BY <1>10 DEF x

(* Of the pieces r the parameters P become Q: their keys are added, and the *)
(* last piece that gives a key a value decides.                             *)
KeysOf(r) == {KeyOf(r[k]).key : k \in 1..Len(r)}
LastGiving(r, key, k) ==
  k \in 1..Len(r) /\ Gives(r[k], key) /\ \A m \in (k + 1)..Len(r) : ~Gives(r[m], key)
NoneGives(r, key) == \A k \in 1..Len(r) : ~Gives(r[k], key)
Applied(P, Q, r) ==
  /\ DOMAIN Q = DOMAIN P \cup KeysOf(r)
  /\ \A key \in DOMAIN Q :
       \/ \E k : LastGiving(r, key, k) /\ Q[key] = KeyOf(r[k]).value
       \/ NoneGives(r, key) /\ Q[key] = IF key \in DOMAIN P THEN P[key] ELSE Null

LEMMA AppliedNone ==
  ASSUME NEW Q
  PROVE  Applied(Q, Q, <<>>)
<1> DEFINE r == <<>>
<1>1. 1..Len(r) = {} OBVIOUS
<1> HIDE DEF r
<1>2. KeysOf(r) = {} BY <1>1 DEF KeysOf
<1>3. \A key : NoneGives(r, key) BY <1>1 DEF NoneGives
<1>4. Applied(Q, Q, r) BY <1>2, <1>3 DEF Applied
<1> QED BY <1>4 DEF r

LEMMA AppliedMore ==
  ASSUME NEW S, NEW P \in Params(S), NEW x \in Seq(S), Null \notin Seq(S),
         NEW Q, NEW rest \in Seq(Seq(S)), Applied(Told(P, x), Q, rest)
  PROVE  Applied(P, Q, <<x>> \o rest)
<1> DEFINE u == <<x>> \o rest
           R == Told(P, x)
           l == Len(rest)
<1>1. l \in Nat BY LenProperties
<1>2. /\ Len(u) = l + 1 /\ u[1] = x /\ \A k \in 1..l : u[k + 1] = rest[k]
  <2> DEFINE a == <<x>>
  <2>1. a \in Seq(Seq(S)) /\ Len(a) = 1 /\ a[1] = x OBVIOUS
  <2> HIDE DEF a
  <2>2. /\ Len(a \o rest) = Len(a) + Len(rest)
        /\ \A k \in 1..(Len(a) + Len(rest)) :
             (a \o rest)[k] = IF k <= Len(a) THEN a[k] ELSE rest[k - Len(a)]
    BY <2>1, ConcatProperties
  <2>3. \A k \in 1..l : k + 1 \in 1..(1 + l) /\ ~(k + 1 <= 1) /\ (k + 1) - 1 = k BY <1>1
  <2>4. 1 \in 1..(1 + l) /\ 1 <= 1 /\ 1 + l = l + 1 BY <1>1
  <2>5. (a \o rest)[1] = x BY <2>1, <2>2, <2>4
  <2>6. \A k \in 1..l : (a \o rest)[k + 1] = rest[k] BY <2>1, <2>2, <2>3
  <2> QED BY <2>1, <2>2, <2>4, <2>5, <2>6 DEF a
<1>3. /\ DOMAIN R = DOMAIN P \cup {KeyOf(x).key}
      /\ \A k \in DOMAIN R : R[k] = IF Gives(x, k) THEN KeyOf(x).value
                                    ELSE IF k \in DOMAIN P THEN P[k] ELSE Null
  <2>1. ToldBy(S, P, x, R) BY ToldIs
  <2> HIDE DEF R
  <2> QED BY <2>1 DEF ToldBy
<1>4. Applied(R, Q, rest) OBVIOUS
<1> HIDE DEF u, R, l
<1>5. 1 \in 1..Len(u) /\ \A k \in 1..l : k + 1 \in 1..Len(u) BY <1>1, <1>2
<1>6. \A k \in 1..Len(u) : k = 1 \/ (k - 1 \in 1..l /\ (k - 1) + 1 = k /\ u[k] = rest[k - 1])
  <2> SUFFICES ASSUME NEW k \in 1..Len(u), k # 1
               PROVE  k - 1 \in 1..l /\ (k - 1) + 1 = k /\ u[k] = rest[k - 1]
    OBVIOUS
  <2>1. k - 1 \in 1..l /\ (k - 1) + 1 = k BY <1>1, <1>2
  <2>2. u[(k - 1) + 1] = rest[k - 1] BY <1>2, <2>1
  <2> QED BY <2>1, <2>2
<1>7. KeysOf(u) = {KeyOf(x).key} \cup KeysOf(rest)
  <2>1. ASSUME NEW key \in KeysOf(u) PROVE key \in {KeyOf(x).key} \cup KeysOf(rest)
    <3>1. PICK k \in 1..Len(u) : key = KeyOf(u[k]).key BY DEF KeysOf
    <3>2. CASE k = 1 BY <1>2, <3>1, <3>2
    <3>3. CASE k # 1
      <4>1. k - 1 \in 1..l /\ key = KeyOf(rest[k - 1]).key BY <1>6, <3>1, <3>3
      <4> QED BY <4>1 DEF KeysOf, l
    <3> QED BY <3>2, <3>3
  <2>2. KeyOf(x).key \in KeysOf(u) BY <1>2, <1>5 DEF KeysOf
  <2>3. ASSUME NEW key \in KeysOf(rest) PROVE key \in KeysOf(u)
    <3>1. PICK k \in 1..l : key = KeyOf(rest[k]).key BY DEF KeysOf, l
    <3>2. k + 1 \in 1..Len(u) /\ key = KeyOf(u[k + 1]).key BY <1>2, <1>5, <3>1
    <3> QED BY <3>2 DEF KeysOf
  <2> QED BY <2>1, <2>2, <2>3
<1>8. DOMAIN Q = DOMAIN P \cup KeysOf(u) BY <1>3, <1>4, <1>7 DEF Applied
<1>9. ASSUME NEW key \in DOMAIN Q
      PROVE  \/ \E k : LastGiving(u, key, k) /\ Q[key] = KeyOf(u[k]).value
             \/ NoneGives(u, key) /\ Q[key] = IF key \in DOMAIN P THEN P[key] ELSE Null
  <2>1. CASE \E k : LastGiving(rest, key, k) /\ Q[key] = KeyOf(rest[k]).value
    <3>1. PICK k : LastGiving(rest, key, k) /\ Q[key] = KeyOf(rest[k]).value BY <2>1
    <3>2. k \in 1..l /\ Gives(rest[k], key) /\ \A m \in (k + 1)..l : ~Gives(rest[m], key)
      BY <3>1 DEF LastGiving, l
    <3>3. k + 1 \in 1..Len(u) /\ u[k + 1] = rest[k] BY <1>2, <1>5, <3>2
    <3>4. ASSUME NEW m \in ((k + 1) + 1)..Len(u) PROVE ~Gives(u[m], key)
      <4>1. m \in 1..Len(u) /\ m # 1 /\ m - 1 \in (k + 1)..l BY <1>1, <1>2, <3>2
      <4>2. u[m] = rest[m - 1] BY <1>6, <4>1
      <4> QED BY <3>2, <4>1, <4>2
    <3>5. LastGiving(u, key, k + 1) BY <3>2, <3>3, <3>4 DEF LastGiving
    <3>6. Q[key] = KeyOf(u[k + 1]).value BY <3>1, <3>3
    <3> QED BY <3>5, <3>6
  <2>2. CASE NoneGives(rest, key) /\ Q[key] = IF key \in DOMAIN R THEN R[key] ELSE Null
    <3>1. ASSUME NEW m \in 1..Len(u), m # 1 PROVE ~Gives(u[m], key)
      <4>1. m - 1 \in 1..l /\ u[m] = rest[m - 1] BY <1>6, <3>1
      <4> QED BY <2>2, <4>1 DEF NoneGives, l
    <3>2. CASE Gives(x, key)
      <4>1. key \in DOMAIN R BY <1>3, <3>2 DEF Gives
      <4>2. Q[key] = KeyOf(u[1]).value BY <1>2, <1>3, <2>2, <3>2, <4>1
      <4>3. \A m \in (1 + 1)..Len(u) : m \in 1..Len(u) /\ m # 1 OBVIOUS
      <4>4. LastGiving(u, key, 1) BY <1>2, <1>5, <3>1, <3>2, <4>3 DEF LastGiving
      <4> QED BY <4>2, <4>4
    <3>3. CASE ~Gives(x, key)
      <4>1. NoneGives(u, key) BY <1>2, <3>1, <3>3 DEF NoneGives
      <4>2. Q[key] = IF key \in DOMAIN P THEN P[key] ELSE Null BY <1>3, <2>2, <3>3
      <4> QED BY <4>1, <4>2
    <3> QED BY <3>2, <3>3
  <2> QED BY <1>4, <2>1, <2>2 DEF Applied
<1>10. Applied(P, Q, u) BY <1>8, <1>9 DEF Applied
<1> QED BY <1>10 DEF u

(* The loop over a text makes of no parameters what its pieces tell.        *)
LEMMA FormIsPieces ==
  ASSUME NEW S, NEW s \in Seq(S), NUL \in S, Null \notin Seq(S), \A i \in 1..Len(s) : s[i] # NUL
  PROVE  FormTurns(C(s)) \in Params(S) /\ Applied(<<>>, FormTurns(C(s)), Split(s, "&"))
<1> DEFINE t == C(s)
           N == Len(s) + 1
           E(i) == PieceEnd(s, i, "&")
<1>1. Len(s) \in Nat /\ N \in Nat /\ 1 \in 1..N /\ N \in 0..N /\ 0 \in 0..N BY LenProperties
<1>2. /\ t \in Seq(S) /\ Len(t) = N /\ \A i \in 1..Len(s) : t[i] = s[i]
      /\ t[N] = NUL
  BY AppendProperties DEF C
<1> HIDE DEF t
<1>3. PICK w : /\ FormTurns(t) = w[Len(t)].params /\ FormTurnsOf(w, t)
               /\ \A n \in 0..Len(t) : w[n] \in FormStates(S)
  BY <1>2, FormTurnsAre
<1>4. PICK r : /\ Split(s, "&") = r[1]
               /\ \A i \in 1..(Len(s) + 1) : r[i] \in Seq(Seq(S)) /\ PiecesFrom(r, s, "&", i)
  BY SplitSteps
<1> DEFINE Q == w[N].params
           Starts(i) == w[i - 1].val = Null /\ w[i - 1].a = <<>>
           T == {i \in 1..N : Starts(i) => Applied(w[i - 1].params, Q, r[i])}
<1>5. ASSUME NEW i \in 1..N
      PROVE  /\ E(i) \in i..N /\ t[E(i)] \in {"&", NUL}
             /\ \A j \in i..(E(i) - 1) : t[j] \notin {"&", NUL}
             /\ Piece(s, i, "&") \in Seq(S) /\ SubSeq(t, i, E(i) - 1) = Piece(s, i, "&")
  <2> DEFINE e == E(i)
  <2>1. /\ e \in i..N /\ (e = N \/ s[e] = "&") /\ \A j \in i..Len(s) : s[j] = "&" => e <= j
    BY PieceEndIs
  <2>2. /\ Piece(s, i, "&") \in Seq(S) /\ Len(Piece(s, i, "&")) = e - i
        /\ \A k \in 1..(e - i) : Piece(s, i, "&")[k] = s[(k + i) - 1]
    BY PieceTyped
  <2> DEFINE x == Piece(s, i, "&")
  <2> HIDE DEF e, x
  <2>3. t[e] \in {"&", NUL}
    <3>1. e # N => e \in 1..Len(s) BY <1>1, <2>1
    <3> QED BY <1>2, <2>1, <3>1
  <2>4. ASSUME NEW j \in i..(e - 1) PROVE t[j] \notin {"&", NUL}
    <3>1. j \in 1..Len(s) /\ j \in i..Len(s) /\ ~(e <= j) BY <1>1, <2>1
    <3>2. t[j] = s[j] /\ s[j] # NUL /\ s[j] # "&" BY <1>2, <2>1, <3>1
    <3> QED BY <3>2
  <2>5. SubSeq(t, i, e - 1) = x
    <3>1. i - 1 \in Nat /\ e - 1 = (i - 1) + Len(x) /\ e - 1 <= Len(t) /\ (i - 1) + 1 = i
      BY <1>1, <1>2, <2>1, <2>2 DEF x
    <3>2. \A k \in 1..Len(x) : t[(i - 1) + k] = x[k]
      <4> SUFFICES ASSUME NEW k \in 1..(e - i) PROVE t[(i - 1) + k] = x[k] BY <2>2 DEF x
      <4>1. (k + i) - 1 \in 1..Len(s) /\ (i - 1) + k = (k + i) - 1 BY <1>1, <2>1
      <4> QED BY <1>2, <2>2, <4>1 DEF x
    <3>3. SubSeq(t, (i - 1) + 1, e - 1) = x BY <1>2, <2>2, <3>1, <3>2, TextAt DEF x
    <3> QED BY <3>1, <3>3
  <2> QED BY <2>1, <2>2, <2>3, <2>4, <2>5 DEF e, x
<1>6. ASSUME NEW i \in 1..N PROVE r[i] = <<Piece(s, i, "&")>> \o (IF E(i) > Len(s) THEN <<>> ELSE r[E(i) + 1])
  BY <1>4 DEF PiecesFrom
<1> HIDE DEF N, E, Q
<1>7. ASSUME NEW i \in 1..N, \A m \in (i + 1)..N : m \in T PROVE i \in T
  <2> SUFFICES ASSUME Starts(i) PROVE Applied(w[i - 1].params, Q, r[i]) OBVIOUS
  <2> DEFINE P == w[i - 1].params
             x == Piece(s, i, "&")
             e == E(i)
             rest == IF e > Len(s) THEN <<>> ELSE r[e + 1]
  <2>1. w[i - 1] \in FormStates(S)
    <3>1. i - 1 \in 0..N BY <1>1
    <3> QED BY <1>2, <1>3, <3>1
  <2>2. P \in Params(S) /\ w[i - 1] = Between(P)
    BY <2>1 DEF FormStates, Between
  <2>3. i \in 1..Len(t) /\ e \in i..Len(t) /\ x \in Seq(S) BY <1>2, <1>5
  <2>4. w[e] = Between(Told(P, x))
    <3> HIDE DEF P, e, x
    <3>1. \A j \in i..(e - 1) : t[j] \notin {"&", NUL} BY <1>5 DEF e
    <3>2. t[e] \in {"&", NUL} BY <1>5 DEF e
    <3>3. SubSeq(t, i, e - 1) = x BY <1>5 DEF e, x
    <3>4. w[e] = Between(Told(P, SubSeq(t, i, e - 1)))
      BY <1>2, <1>3, <2>2, <2>3, <3>1, <3>2, PieceWalked
    <3> QED BY <3>3, <3>4
  <2> HIDE DEF P
  <2>5. rest \in Seq(Seq(S)) /\ Applied(Told(P, x), Q, rest)
    <3> HIDE DEF x
    <3>1. CASE e > Len(s)
      <4>1. e = N BY <1>1, <1>5, <3>1 DEF N
      <4>2. Q = Told(P, x) BY <2>4, <4>1 DEF Q, Between
      <4>3. rest = <<>> BY <3>1
      <4>4. <<>> \in Seq(Seq(S)) OBVIOUS
      <4> QED BY <4>2, <4>3, <4>4, AppliedNone
    <3>2. CASE ~(e > Len(s))
      <4>1. e + 1 \in (i + 1)..N /\ e + 1 \in 1..(Len(s) + 1) /\ (e + 1) - 1 = e
        <5>1. PICK z \in i..N : z = e BY <1>5
        <5>2. z \in Int /\ i \in Int /\ 1 <= i /\ i <= z /\ z <= Len(s) BY <5>1, <1>1, <3>2
        <5>3. z + 1 \in (i + 1)..N /\ z + 1 \in 1..(Len(s) + 1) /\ (z + 1) - 1 = z
          BY <5>2, <1>1 DEF N
        <5> QED BY <5>1, <5>3
      <4> HIDE DEF e, T
      <4>2. e + 1 \in T BY <1>7, <4>1
      <4>3. Starts(e + 1) BY <2>4, <4>1 DEF Between
      <4>4. Applied(w[e].params, Q, r[e + 1]) BY <4>1, <4>2, <4>3 DEF T
      <4>5. w[e].params = Told(P, x) BY <2>4 DEF Between
      <4>6. rest = r[e + 1] BY <3>2
      <4>7. r[e + 1] \in Seq(Seq(S)) BY <1>4, <4>1
      <4> QED BY <4>4, <4>5, <4>6, <4>7
    <3> QED BY <3>1, <3>2
  <2>6. r[i] = <<x>> \o rest BY <1>6
  <2> HIDE DEF x, rest
  <2>7. Applied(P, Q, <<x>> \o rest) BY <2>2, <2>3, <2>5, AppliedMore
  <2> QED BY <2>6, <2>7 DEF P
<1>8. 1 \in T
  <2> HIDE DEF T
  <2> QED BY <1>1, <1>7, DownwardInduction
<1>9. w[0] = [params |-> <<>>, val |-> Null, a |-> <<>>] BY <1>3 DEF FormTurnsOf
<1>10. Applied(w[1 - 1].params, Q, r[1])
  <2>1. Starts(1) BY <1>9
  <2> QED BY <1>8, <2>1
<1>11. Applied(<<>>, Q, Split(s, "&")) BY <1>4, <1>9, <1>10
<1>12. FormTurns(t) = Q BY <1>2, <1>3 DEF Q
<1>13. Q \in Params(S)
  <2>1. w[N] \in FormStates(S) BY <1>1, <1>2, <1>3
  <2> QED BY <2>1 DEF FormStates, Q
<1> QED BY <1>11, <1>12, <1>13 DEF t

(* The C string at the beginning of a text is the part before its first NUL. *)
CStringEnds(s, m) ==
  /\ m \in 0..Len(s) /\ \A j \in 1..m : s[j] # NUL
  /\ m = Len(s) \/ s[m + 1] = NUL

LEMMA CStringEndsSomewhere ==
  ASSUME NEW S, NEW s \in Seq(S)
  PROVE  \E m : CStringEnds(s, m)
<1> DEFINE n == FirstAt(s, NUL)
<1>1. Len(s) \in Nat BY LenProperties
<1>2. \/ n = 0 /\ \A i \in 1..Len(s) : s[i] # NUL
      \/ n \in 1..Len(s) /\ s[n] = NUL /\ \A i \in 1..(n - 1) : s[i] # NUL
  BY FirstAtIs
<1> HIDE DEF n
<1>3. CASE n = 0 /\ \A i \in 1..Len(s) : s[i] # NUL
  <2>1. CStringEnds(s, Len(s)) BY <1>1, <1>3 DEF CStringEnds
  <2> QED BY <2>1
<1>4. CASE n \in 1..Len(s) /\ s[n] = NUL /\ \A i \in 1..(n - 1) : s[i] # NUL
  <2>1. n - 1 \in 0..Len(s) /\ (n - 1) + 1 = n BY <1>1, <1>4
  <2>2. CStringEnds(s, n - 1) BY <1>4, <2>1 DEF CStringEnds
  <2> QED BY <2>2
<1> QED BY <1>2, <1>3, <1>4

LEMMA CStringUpTo ==
  ASSUME NEW S, NEW s \in Seq(S), NEW m, CStringEnds(s, m)
  PROVE  CString(s, 1) = SubSeq(s, 1, m)
<1>1. Len(s) \in Nat /\ m \in 0..Len(s) /\ \A j \in 1..m : s[j] # NUL
  BY LenProperties DEF CStringEnds
<1>2. CASE m # Len(s)
  <2>1. m + 1 \in 1..Len(s) /\ 1 \in 1..Len(s) /\ s[m + 1] = NUL /\ (m + 1) - 1 = m
    BY <1>1, <1>2 DEF CStringEnds
  <2> DEFINE n == m + 1
  <2>2. n \in 1..Len(s) /\ s[n] = NUL /\ \A j \in 1..(n - 1) : s[j] # NUL BY <1>1, <2>1
  <2> HIDE DEF n
  <2>3. CString(s, 1) = SubSeq(s, 1, n - 1) BY <2>1, <2>2, CStringIs
  <2> QED BY <2>1, <2>3 DEF n
<1>3. CASE m = Len(s)
  <2> DEFINE J == {j \in 1..Len(s) : s[j] = NUL}
             k == SelectInSubSeq(s, 1, Len(s), LAMBDA c : c = NUL)
  <2>1. J = {} BY <1>1, <1>3
  <2>2. k = IF J # {} THEN Min(J) ELSE 0 BY DEF SelectInSubSeq
  <2>3. CString(s, 1) = SubSeq(s, 1, IF k = 0 THEN Len(s) ELSE k - 1) BY DEF CString
  <2> HIDE DEF J, k
  <2> QED BY <1>3, <2>1, <2>2, <2>3
<1> QED BY <1>2, <1>3

LEMMA CStringTyped ==
  ASSUME NEW S, NEW s \in Seq(S), NEW m, CStringEnds(s, m)
  PROVE  /\ CString(s, 1) \in Seq(S) /\ Len(CString(s, 1)) = m
         /\ \A j \in 1..m : CString(s, 1)[j] = s[j] /\ s[j] # NUL
<1> DEFINE g == CString(s, 1)
<1>1. Len(s) \in Nat /\ m \in 0..Len(s) /\ \A j \in 1..m : s[j] # NUL
  BY LenProperties DEF CStringEnds
<1>2. 1 \in 1..(Len(s) + 1) /\ m \in 0..Len(s) /\ 1 <= m + 1 /\ (m - 1) + 1 = m
      /\ \A j \in 1..m : (j + 1) - 1 = j
  BY <1>1
<1>3. g = SubSeq(s, 1, m) BY CStringUpTo
<1>4. SubSeq(s, 1, m) \in Seq(S) /\ Len(SubSeq(s, 1, m)) = (m - 1) + 1
      /\ SubSeq(s, 1, m) = [i \in 1..((m - 1) + 1) |-> s[(i + 1) - 1]]
  BY <1>2, PartIs
<1> HIDE DEF g
<1>5. g \in Seq(S) /\ Len(g) = m /\ \A j \in 1..m : g[j] = s[j] BY <1>2, <1>3, <1>4
<1> QED BY <1>1, <1>5 DEF g

(* A path, and a text behind its '?'. *)
Before == <<"/", "a", "?">>
Behind(str, u) ==
  /\ Len(u) = 3 + Len(str) /\ u[1] = "/" /\ u[2] = "a" /\ u[3] = "?"
  /\ \A j \in 1..Len(str) : u[3 + j] = str[j]

LEMMA BehindIs ==
  ASSUME NEW S, {"/", "a", "?"} \subseteq S, NEW str \in Seq(S)
  PROVE  Before \o str \in Seq(S) /\ Behind(str, Before \o str)
<1> DEFINE b == Before
           l == Len(str)
<1>1. b \in Seq(S) /\ Len(b) = 3 /\ b[1] = "/" /\ b[2] = "a" /\ b[3] = "?" BY DEF Before
<1>2. l \in Nat BY LenProperties
<1> HIDE DEF b, l
<1>3. /\ b \o str \in Seq(S) /\ Len(b \o str) = 3 + l
      /\ \A i \in 1..(3 + l) : (b \o str)[i] = IF i <= 3 THEN b[i] ELSE str[i - 3]
  <2> DEFINE n == Len(b)
             u == b \o str
  <2>1. /\ u \in Seq(S) /\ Len(u) = n + Len(str)
        /\ \A i \in 1..(n + Len(str)) : u[i] = IF i <= n THEN b[i] ELSE str[i - n]
    BY <1>1, ConcatProperties
  <2>2. n = 3 BY <1>1
  <2> HIDE DEF n, u
  <2> QED BY <2>1, <2>2 DEF l, u
<1>4. 1 \in 1..(3 + l) /\ 2 \in 1..(3 + l) /\ 3 \in 1..(3 + l)
      /\ \A j \in 1..l : 3 + j \in 1..(3 + l) /\ ~(3 + j <= 3) /\ (3 + j) - 3 = j
  BY <1>2
<1>5. Behind(str, b \o str) BY <1>1, <1>3, <1>4 DEF Behind, l
<1> QED BY <1>3, <1>5 DEF b

(* What form_data and path() make of it. *)
LEMMA BehindRead ==
  ASSUME NEW S, {"/", "a", "?"} \subseteq S, NUL \in S, NEW str \in Seq(S)
  PROVE  /\ FormData(Before \o str, TRUE) = FormTurns(C(CString(str, 1)))
         /\ FormData(str, FALSE) = FormTurns(C(CString(str, 1)))
         /\ FormPath(Before \o str) = <<"/", "a">>
<1> DEFINE u == Before \o str
           s == CString(str, 1)
           g == CString(u, 1)
           mark == SelectInSeq(g, LAMBDA c : c = "?")
<1>1. u \in Seq(S) /\ Behind(str, u) BY BehindIs
<1>2. PICK m : CStringEnds(str, m) BY CStringEndsSomewhere
<1>3. Len(str) \in Nat /\ m \in 0..Len(str) BY <1>2, LenProperties DEF CStringEnds
<1>4. NUL # "/" /\ NUL # "a" /\ NUL # "?" BY NulAssumption, SeparatorAssumption DEF PathChars
<1> HIDE DEF u
<1>5. CStringEnds(u, m + 3)
  <2>1. m + 3 \in 0..Len(u) /\ (m + 3 = Len(u) <=> m = Len(str)) BY <1>1, <1>3 DEF Behind
  <2>2. ASSUME NEW j \in 1..(m + 3) PROVE u[j] # NUL
    <3>1. CASE j = 1 \/ j = 2 \/ j = 3 BY <1>1, <1>4, <3>1 DEF Behind
    <3>2. CASE ~(j = 1 \/ j = 2 \/ j = 3)
      <4>1. j - 3 \in 1..m /\ j - 3 \in 1..Len(str) /\ 3 + (j - 3) = j BY <1>3, <3>2
      <4>2. u[3 + (j - 3)] = str[j - 3] BY <1>1, <4>1 DEF Behind
      <4>3. str[j - 3] # NUL BY <1>2, <4>1 DEF CStringEnds
      <4> QED BY <4>1, <4>2, <4>3
    <3> QED BY <3>1, <3>2
  <2>3. m # Len(str) => u[(m + 3) + 1] = NUL
    <3> SUFFICES ASSUME m # Len(str) PROVE u[(m + 3) + 1] = NUL OBVIOUS
    <3>1. m + 1 \in 1..Len(str) /\ 3 + (m + 1) = (m + 3) + 1 BY <1>3
    <3>2. u[3 + (m + 1)] = str[m + 1] BY <1>1, <3>1 DEF Behind
    <3>3. str[m + 1] = NUL BY <1>2 DEF CStringEnds
    <3> QED BY <3>1, <3>2, <3>3
  <2> QED BY <2>1, <2>2, <2>3 DEF CStringEnds
<1>6. s \in Seq(S) /\ Len(s) = m /\ \A j \in 1..m : s[j] = str[j] /\ str[j] # NUL
  BY <1>2, CStringTyped
<1>7. g \in Seq(S) /\ Len(g) = m + 3 /\ \A j \in 1..(m + 3) : g[j] = u[j]
  BY <1>1, <1>5, CStringTyped
<1>8. g[1] = "/" /\ g[2] = "a" /\ g[3] = "?" /\ \A j \in 1..m : g[3 + j] = s[j]
  <2>1. 1 \in 1..(m + 3) /\ 2 \in 1..(m + 3) /\ 3 \in 1..(m + 3) BY <1>3
  <2>2. \A j \in 1..m : 3 + j \in 1..(m + 3) /\ j \in 1..Len(str) BY <1>3
  <2> HIDE DEF g, s
  <2> QED BY <1>1, <1>6, <1>7, <2>1, <2>2 DEF Behind
<1>9. mark = 3
  <2> HIDE DEF g
  <2>1. 3 \in 1..Len(g) BY <1>3, <1>7
  <2>2. \A i \in 1..(3 - 1) : i = 1 \/ i = 2 OBVIOUS
  <2>3. \A i \in 1..(3 - 1) : g[i] # "?" BY <1>8, <2>2
  <2>4. FirstAt(g, "?") = 3 BY <1>7, <1>8, <2>1, <2>3, FirstAtFrom
  <2> QED BY <2>4 DEF FirstAt
<1>10. FormData(u, TRUE) = IF TRUE /\ mark = 0 THEN <<>>
                           ELSE FormTurns(C(SubSeq(g, IF TRUE THEN mark + 1 ELSE 1, Len(g))))
  BY DEF FormData
<1>11. FormData(str, FALSE) = FormTurns(C(SubSeq(s, 1, Len(s))))
  BY DEF FormData
<1>12. FormPath(u) = SubSeq(g, 1, CSpan(C(g), 1, {"?"}) - 1) BY DEF FormPath
<1> HIDE DEF g, s, mark
<1>13. SubSeq(s, 1, Len(s)) = s BY <1>6, WholeText
<1>14. SubSeq(g, 3 + 1, Len(g)) = s
  <2>1. 3 \in Nat /\ Len(g) = 3 + Len(s) /\ Len(g) <= Len(g) BY <1>3, <1>6, <1>7
  <2>2. \A j \in 1..Len(s) : g[3 + j] = s[j] BY <1>6, <1>8
  <2> QED BY <1>6, <1>7, <2>1, <2>2, TextAt
<1>15. FormData(u, TRUE) = FormTurns(C(s))
  <2>1. SubSeq(g, IF TRUE THEN mark + 1 ELSE 1, Len(g)) = s BY <1>9, <1>14
  <2>2. ~(TRUE /\ mark = 0) BY <1>9
  <2> QED BY <1>10, <2>1, <2>2
<1>16. CSpan(C(g), 1, {"?"}) = 3
  <2> DEFINE h == C(g)
             J == {i \in 1..Len(h) : h[i] \in {"?"} \cup {NUL}}
  <2>1. Len(h) = (m + 3) + 1 /\ \A i \in 1..(m + 3) : h[i] = g[i]
    BY <1>7, AppendProperties DEF C
  <2>2. CSpan(h, 1, {"?"}) = IF J # {} THEN Min(J) ELSE 0
    BY DEF CSpan, SelectInSubSeq
  <2> HIDE DEF h
  <2>3. 1 \in 1..(m + 3) /\ 2 \in 1..(m + 3) /\ 3 \in 1..(m + 3) BY <1>3
  <2>4. h[1] = "/" /\ h[2] = "a" /\ h[3] = "?" BY <1>8, <2>1, <2>3
  <2>5. 1 \notin J /\ 2 \notin J /\ 3 \in J BY <1>3, <1>4, <2>1, <2>4
  <2>6. J \subseteq Nat /\ \A j \in J : 3 <= j
    <3>1. \A j \in 1..Len(h) : j = 1 \/ j = 2 \/ 3 <= j OBVIOUS
    <3> QED BY <2>5, <3>1
  <2> HIDE DEF J
  <2>7. Min(J) = 3 BY <2>5, <2>6, MinFrom
  <2> QED BY <2>2, <2>5, <2>7 DEF h
<1>17. SubSeq(g, 1, 2) = <<"/", "a">>
  <2> DEFINE v == <<"/", "a">>
  <2>1. v \in Seq(S) /\ Len(v) = 2 /\ v[1] = "/" /\ v[2] = "a" OBVIOUS
  <2> HIDE DEF v
  <2>2. \A j \in 1..2 : j = 1 \/ j = 2 OBVIOUS
  <2>3. \A j \in 1..Len(v) : g[0 + j] = v[j] BY <1>8, <2>1, <2>2
  <2>4. 0 \in Nat /\ 2 = 0 + Len(v) /\ 2 <= Len(g) /\ 0 + 1 = 1 BY <1>3, <1>7, <2>1
  <2>5. SubSeq(g, 0 + 1, 2) = v BY <1>7, <2>1, <2>3, <2>4, TextAt
  <2> QED BY <2>4, <2>5 DEF v
<1>18. FormPath(u) = <<"/", "a">> BY <1>12, <1>16, <1>17
<1> QED BY <1>11, <1>13, <1>15, <1>18 DEF u, s

(* The last of some pairs that gives a key a value. *)
LastOf(p, k) == SelectLastInSeq(p, LAMBDA x : x.key = k /\ x.value # Null)

LEMMA LastOfIs ==
  ASSUME NEW r, Len(r) \in Nat, NEW p, p = [i \in 1..Len(r) |-> KeyOf(r[i])], Len(p) = Len(r),
         NEW key
  PROVE  /\ NoneGives(r, key) => LastOf(p, key) = 0
         /\ \A k : LastGiving(r, key, k) => LastOf(p, key) = k /\ k # 0
<1> DEFINE J == {i \in 1..Len(p) : p[i].key = key /\ p[i].value # Null}
<1>1. LastOf(p, key) = IF J # {} THEN Max(J) ELSE 0 BY DEF LastOf, SelectLastInSeq
<1>2. \A i \in 1..Len(r) : i \in J <=> Gives(r[i], key) BY DEF Gives
<1>3. J \subseteq 1..Len(r) OBVIOUS
<1> HIDE DEF J
<1>4. NoneGives(r, key) => J = {} BY <1>2, <1>3 DEF NoneGives
<1>5. ASSUME NEW k, LastGiving(r, key, k) PROVE LastOf(p, key) = k /\ k # 0
  <2>1. k \in 1..Len(r) /\ k \in J BY <1>2, <1>5 DEF LastGiving
  <2>2. ASSUME NEW m \in J PROVE m <= k
    <3>1. m \in 1..Len(r) /\ Gives(r[m], key) BY <1>2, <1>3
    <3>2. ~(k < m)
      <4>1. k < m => m \in (k + 1)..Len(r) BY <2>1, <3>1
      <4> QED BY <1>5, <3>1, <4>1 DEF LastGiving
    <3> QED BY <2>1, <3>1, <3>2
  <2>3. J \subseteq Int BY <1>3
  <2>4. Max(J) = k BY <2>1, <2>2, <2>3, MaxFrom
  <2> QED BY <1>1, <2>1, <2>4
<1> QED BY <1>1, <1>4, <1>5

(* For any text: form_data reads the pieces between '&' as key and value.   *)
THEOREM FormsArePieces ==
  ASSUME NEW S, {"/", "a", "?", NUL} \subseteq S, Null \notin Seq(S), NEW str \in Seq(S)
  PROVE  FormAsPieces(str)
<1> DEFINE s == CString(str, 1)
           r == Split(s, "&")
           p == [i \in DOMAIN r |-> KeyOf(r[i])]
           f == FormData(str, FALSE)
<1>1. PICK m : CStringEnds(str, m) BY CStringEndsSomewhere
<1>2. s \in Seq(S) /\ Len(s) = m /\ \A j \in 1..m : s[j] = str[j] /\ str[j] # NUL
  BY <1>1, CStringTyped
<1>3. /\ FormData(Before \o str, TRUE) = FormTurns(C(s)) /\ f = FormTurns(C(s))
      /\ FormPath(Before \o str) = <<"/", "a">>
  <2>1. {"/", "a", "?"} \subseteq S /\ NUL \in S OBVIOUS
  <2> QED BY <2>1, BehindRead
<1>4. FormAsPieces(str) <=>
        /\ DOMAIN f = {p[i].key : i \in DOMAIN p}
        /\ \A k \in DOMAIN f :
             f[k] = IF LastOf(p, k) = 0 THEN Null ELSE p[LastOf(p, k)].value
        /\ FormData(Before \o str, TRUE) = f
        /\ FormPath(Before \o str) = <<"/", "a">>
  BY DEF FormAsPieces, Before, LastOf
<1> HIDE DEF s
<1>5. f \in Params(S) /\ Applied(<<>>, f, r) BY <1>2, <1>3, FormIsPieces
<1>6. r \in Seq(Seq(S)) BY <1>2, SplitIs
<1> HIDE DEF f, r
<1>7. Len(r) \in Nat /\ DOMAIN r = 1..Len(r) BY <1>6, LenProperties
<1>8. p = [i \in 1..Len(r) |-> KeyOf(r[i])] /\ DOMAIN p = 1..Len(r) BY <1>7
<1>9. Len(p) = Len(r)
  <2> DEFINE V == {KeyOf(r[i]) : i \in 1..Len(r)}
  <2>1. p \in [1..Len(r) -> V] BY <1>8
  <2> HIDE DEF p, V
  <2> QED BY <1>7, <2>1, FunctionIsSeq
<1>10. DOMAIN f = {p[i].key : i \in DOMAIN p}
  <2>1. DOMAIN f = {} \cup KeysOf(r)
    <3>1. DOMAIN <<>> = {} OBVIOUS
    <3> QED BY <1>5, <3>1 DEF Applied
  <2>2. {p[i].key : i \in DOMAIN p} = KeysOf(r) BY <1>8 DEF KeysOf
  <2> QED BY <2>1, <2>2
<1>11. ASSUME NEW k \in DOMAIN f
       PROVE  f[k] = IF LastOf(p, k) = 0 THEN Null ELSE p[LastOf(p, k)].value
  <2>1. k \notin DOMAIN <<>> OBVIOUS
  <2>2. \/ \E i : LastGiving(r, k, i) /\ f[k] = KeyOf(r[i]).value
        \/ NoneGives(r, k) /\ f[k] = Null
    BY <1>5, <2>1 DEF Applied
  <2>3. /\ NoneGives(r, k) => LastOf(p, k) = 0
        /\ \A i : LastGiving(r, k, i) => LastOf(p, k) = i /\ i # 0
    BY <1>7, <1>8, <1>9, LastOfIs
  <2>4. \A i : LastGiving(r, k, i) => i \in 1..Len(r) BY DEF LastGiving
  <2> QED BY <1>8, <2>2, <2>3, <2>4
<1> HIDE DEF p
<1> QED BY <1>3, <1>4, <1>10, <1>11

------------------------------------------------------------------------------
(* post_form_data(): texts behind their lengths. *)

(* What post_form_data() reads at a place of its data: the end of a text,   *)
(* whether there is none, the text.                                         *)
PostEnd(d, p) == p + 2 + (256 * d[p] + d[p + 1])
PostBad(d, p) ==
  p = Len(d) \/ PostEnd(d, p) > Len(d) \/ d[PostEnd(d, p)] # 0
PostText(d, p) == SubSeq(d, p + 2, PostEnd(d, p) - 1)

(* The texts from a place on, as the recursion computes them.               *)
PostFrom(r, d, p) ==
  r[p] = IF p = Len(d) + 1 THEN <<>>
         ELSE IF PostBad(d, p) THEN <<Null>>
         ELSE <<PostText(d, p)>> \o r[PostEnd(d, p) + 1]
PostTexts == Seq(Seq(Bytes) \cup {Null})

LEMMA PostTextIs ==
  ASSUME NEW d \in Seq(Bytes), NEW p \in 1..(Len(d) + 1), p # Len(d) + 1, ~PostBad(d, p)
  PROVE  /\ p + 1 \in 1..Len(d) /\ PostEnd(d, p) \in (p + 2)..Len(d)
         /\ PostEnd(d, p) + 1 \in (p + 1)..(Len(d) + 1)
         /\ PostText(d, p) \in Seq(Bytes)
         /\ Len(PostText(d, p)) = 256 * d[p] + d[p + 1]
         /\ \A j \in 1..Len(PostText(d, p)) : PostText(d, p)[j] = d[p + 1 + j]
<1> DEFINE l == Len(d)
           x == d[p]
           y == d[p + 1]
           e == PostEnd(d, p)
           t == PostText(d, p)
<1>1. l \in Nat /\ p \in 1..(l + 1) /\ p # l + 1 BY LenProperties
<1>2. p # l BY DEF PostBad
<1>3. p \in 1..l /\ p + 1 \in 1..l BY <1>1, <1>2
<1>4. x \in Bytes /\ y \in Bytes BY <1>3, ElementOfSeq
<1>5. e = p + 2 + (256 * x + y) BY DEF PostEnd
<1>6. ~(e > l) BY DEF PostBad
<1>7. t = SubSeq(d, p + 2, e - 1) BY DEF PostText
<1> HIDE DEF x, y, e, t
<1>8. x \in Nat /\ y \in Nat BY <1>4 DEF Bytes
<1> DEFINE k == 256 * x + y
<1>9. k \in Nat BY <1>8
<1>10. e = p + 2 + k BY <1>5
<1> HIDE DEF k, l
<1>11. e \in (p + 2)..l /\ e + 1 \in (p + 1)..(l + 1) BY <1>1, <1>6, <1>9, <1>10
<1>12. /\ p + 2 \in 1..(l + 1) /\ e - 1 \in 0..l /\ p + 2 <= (e - 1) + 1
       /\ ((e - 1) - (p + 2)) + 1 = k
  BY <1>1, <1>3, <1>9, <1>10, <1>11
<1>13. /\ t \in Seq(Bytes) /\ Len(t) = ((e - 1) - (p + 2)) + 1
       /\ t = [i \in 1..(((e - 1) - (p + 2)) + 1) |-> d[(i + (p + 2)) - 1]]
  BY <1>7, <1>12, PartIs DEF l
<1>14. t \in Seq(Bytes) /\ Len(t) = k /\ t = [i \in 1..k |-> d[(i + (p + 2)) - 1]]
  BY <1>12, <1>13
<1>15. \A j \in 1..k : t[j] = d[p + 1 + j]
  <2>1. \A j \in 1..k : (j + (p + 2)) - 1 = p + 1 + j BY <1>1, <1>9
  <2> QED BY <1>14, <2>1
<1> QED BY <1>3, <1>11, <1>14, <1>15 DEF e, t, k, x, y, l

LEMMA PostSteps ==
  ASSUME NEW d \in Seq(Bytes)
  PROVE  \E r : /\ PostFields(d) = r[1]
                /\ \A p \in 1..(Len(d) + 1) : r[p] \in PostTexts /\ PostFrom(r, d, p)
<1> DEFINE l == Len(d)
           n == l + 1
           V == PostTexts
           P(i) == PostText(d, i)
           E(i) == PostEnd(d, i)
           over == {i \in 1..n : i = l + 1 \/ PostBad(d, i)}
           next == [i \in 1..n |-> E(i) + 1]
           last == [i \in 1..n |-> IF i = l + 1 THEN <<>> ELSE <<Null>>]
           Turned(g, i) == IF i = l + 1 THEN <<>>
                           ELSE IF PostBad(d, i) THEN <<Null>>
                           ELSE <<P(i)>> \o g[E(i) + 1]
           Is(g) == g = [i \in 1..n |-> Turned(g, i)]
           r == CHOOSE g : Is(g)
<1>1. n \in Nat /\ l \in Nat /\ 1 \in 1..n BY LenProperties
<1>2. PostFields(d) = r[1]
  <2> DEFINE Code(g, p) == 
               LET len == 256 * d[p] + d[p + 1]
                   end == p + 2 + len
               IN  IF p = Len(d) + 1 THEN <<>>
                   ELSE IF p = Len(d) THEN <<Null>>
                   ELSE IF end > Len(d) THEN <<Null>>
                   ELSE IF d[end] # 0 THEN <<Null>>
                   ELSE <<SubSeq(d, p + 2, end - 1)>> \o g[end + 1]
  <2>1. PostFields(d) = (CHOOSE g : g = [p \in 1..(Len(d) + 1) |-> Code(g, p)])[1]
    BY DEF PostFields
  <2>2. ASSUME NEW g, NEW p PROVE Code(g, p) = Turned(g, p)
    BY DEF PostBad, PostEnd, PostText
  <2>3. ASSUME NEW g PROVE [p \in 1..(Len(d) + 1) |-> Code(g, p)] = [p \in 1..n |-> Turned(g, p)]
    <3> HIDE DEF Code, Turned
    <3> QED BY <2>2
  <2> HIDE DEF Code, Turned
  <2> QED BY <2>1, <2>3
<1>3. ASSUME NEW i \in 1..n, i # l + 1, ~PostBad(d, i)
      PROVE  P(i) \in Seq(Bytes) /\ E(i) + 1 \in (i + 1)..n
  BY <1>3, PostTextIs
<1> HIDE DEF P, E, r
<1>4. \A i \in 1..n : i \notin over => i # l + 1 /\ ~PostBad(d, i) OBVIOUS
<1>5. \A i \in 1..n : last[i] \in V
  <2>1. <<>> \in V /\ <<Null>> \in V BY DEF PostTexts
  <2> QED BY <2>1
<1>6. \A i \in 1..n : i \notin over => next[i] \in (i + 1)..n
  <2>1. \A i \in 1..n : next[i] = E(i) + 1 OBVIOUS
  <2> HIDE DEF over, next, n, l
  <2> QED BY <1>3, <1>4, <2>1
<1>7. ASSUME NEW i \in 1..n, i # l + 1, ~PostBad(d, i), NEW v \in V
      PROVE  <<P(i)>> \o v \in V
  <2>1. <<P(i)>> \in PostTexts BY <1>3, <1>7 DEF PostTexts
  <2> QED BY <2>1, <1>7, ConcatProperties DEF PostTexts
<1> DEFINE step == [p \in V \X (1..n) |->
                      IF p[2] = l + 1 \/ PostBad(d, p[2]) THEN <<>> ELSE <<P(p[2])>> \o p[1]]
<1>8. \A i \in 1..n, v \in V :
        step[<<v, i>>] = IF i = l + 1 \/ PostBad(d, i) THEN <<>> ELSE <<P(i)>> \o v
  OBVIOUS
<1>9. \A i \in 1..n, v \in V : step[<<v, i>>] \in V
  <2>1. <<>> \in V BY DEF PostTexts
  <2> HIDE DEF step, V
  <2> QED BY <1>7, <1>8, <2>1
<1>10. \A i \in 1..n : i \in over <=> i = l + 1 \/ PostBad(d, i) OBVIOUS
<1>11. \A i \in 1..n : last[i] = IF i = l + 1 THEN <<>> ELSE <<Null>> OBVIOUS
<1>12. PICK g \in [1..n -> V] :
         \A i \in 1..n : g[i] = IF i \in over THEN last[i] ELSE step[<<g[next[i]], i>>]
  <2> HIDE DEF n, over, next, last, step, V
  <2>1. ComputedBackward(n, V, over, next, last, step)
    BY <1>1, <1>5, <1>6, <1>9, BackwardExists
  <2> QED BY <2>1 DEF ComputedBackward
<1>13. \A i \in 1..n : next[i] = E(i) + 1 OBVIOUS
<1> HIDE DEF over, next, last, step
<1>14. ASSUME NEW i \in 1..n PROVE g[i] = Turned(g, i)
  <2>1. CASE i \in over BY <1>10, <1>11, <1>12, <2>1
  <2>2. CASE i \notin over
    <3>1. g[i] = step[<<g[next[i]], i>>] BY <1>12, <2>2
    <3>2. next[i] \in (i + 1)..n /\ next[i] = E(i) + 1 BY <1>6, <1>13, <2>2
    <3>3. next[i] \in 1..n BY <1>1, <3>2
    <3>4. g[next[i]] \in V BY <1>12, <3>3
    <3>5. ~(i = l + 1 \/ PostBad(d, i)) BY <1>10, <2>2
    <3>6. g[i] = <<P(i)>> \o g[next[i]] BY <1>8, <3>1, <3>4, <3>5
    <3> QED BY <3>2, <3>5, <3>6
  <2> QED BY <2>1, <2>2
<1>15. Is(r)
  <2>1. Is(g) BY <1>12, <1>14
  <2> HIDE DEF Is
  <2> QED BY <2>1 DEF r
<1>16. \A i \in 1..n : r[i] = Turned(r, i) BY <1>15
<1> DEFINE T == {i \in 1..n : r[i] \in V}
<1>17. ASSUME NEW i \in 1..n, \A m \in (i + 1)..n : m \in T PROVE i \in T
  <2>1. CASE i = l + 1 \/ PostBad(d, i)
    <3>1. r[i] = <<>> \/ r[i] = <<Null>> BY <1>16, <2>1
    <3>2. <<>> \in V /\ <<Null>> \in V BY DEF PostTexts
    <3> QED BY <3>1, <3>2
  <2>2. CASE ~(i = l + 1 \/ PostBad(d, i))
    <3>1. E(i) + 1 \in (i + 1)..n BY <1>3, <2>2
    <3>2. r[E(i) + 1] \in V BY <3>1, <1>17
    <3>3. r[i] = <<P(i)>> \o r[E(i) + 1] BY <1>16, <2>2
    <3> HIDE DEF V
    <3> QED BY <3>2, <3>3, <1>7, <2>2
  <2> QED BY <2>1, <2>2
<1>18. \A i \in 1..n : i \in T
  <2> HIDE DEF T, n
  <2> QED BY <1>1, <1>17, DownwardInduction
<1>19. \A i \in 1..n : r[i] \in V /\ PostFrom(r, d, i)
  <2>1. ASSUME NEW i \in 1..n PROVE r[i] \in V /\ PostFrom(r, d, i)
    <3>1. r[i] \in V BY <1>18
    <3>2. r[i] = Turned(r, i) BY <1>16
    <3> HIDE DEF V
    <3> QED BY <3>1, <3>2 DEF PostFrom, P, E
  <2> QED BY <2>1
<1> HIDE DEF V, r
<1> QED BY <1>2, <1>19 DEF V

(* Texts may be put together in either order. *)
Associates(u, v, w) == (u \o v) \o w = u \o (v \o w)

LEMMA ConcatAssociates ==
  ASSUME NEW S, NEW u \in Seq(S), NEW v \in Seq(S), NEW w \in Seq(S)
  PROVE  Associates(u, v, w)
<1> DEFINE f == u \o v
           g == v \o w
           a == f \o w
           b == u \o g
           x == Len(u)
           y == Len(v)
           z == Len(w)
<1>1. x \in Nat /\ y \in Nat /\ z \in Nat BY LenProperties
<1>2. /\ f \in Seq(S) /\ Len(f) = x + y
      /\ \A i \in 1..(x + y) : f[i] = IF i <= x THEN u[i] ELSE v[i - x]
  BY ConcatProperties
<1>3. /\ g \in Seq(S) /\ Len(g) = y + z
      /\ \A i \in 1..(y + z) : g[i] = IF i <= y THEN v[i] ELSE w[i - y]
  BY ConcatProperties
<1> HIDE DEF f, g
<1>10. f \in Seq(S) /\ g \in Seq(S) BY <1>2, <1>3
<1>4. /\ a \in Seq(S) /\ Len(a) = Len(f) + z
      /\ \A i \in 1..(Len(f) + z) : a[i] = IF i <= Len(f) THEN f[i] ELSE w[i - Len(f)]
  BY <1>10, ConcatProperties
<1>5. /\ b \in Seq(S) /\ Len(b) = x + Len(g)
      /\ \A i \in 1..(x + Len(g)) : b[i] = IF i <= x THEN u[i] ELSE g[i - x]
  BY <1>10, ConcatProperties
<1> HIDE DEF a, b, x, y, z
<1>6. Len(a) = x + y + z /\ Len(b) = x + y + z BY <1>1, <1>2, <1>3, <1>4, <1>5
<1>7. ASSUME NEW i \in 1..(x + y + z) PROVE a[i] = b[i]
  <2>1. i \in 1..(Len(f) + z) /\ i \in 1..(x + Len(g)) BY <1>1, <1>2, <1>3
  <2>2. CASE i <= x
    <3>1. i \in 1..(x + y) /\ i <= Len(f) BY <1>1, <1>2, <2>2
    <3> QED BY <1>2, <1>4, <1>5, <2>1, <2>2, <3>1
  <2>3. CASE ~(i <= x) /\ i <= x + y
    <3>1. i \in 1..(x + y) /\ i <= Len(f) /\ i - x \in 1..(y + z) /\ i - x <= y
      BY <1>1, <1>2, <2>3
    <3>2. a[i] = v[i - x] BY <1>2, <1>4, <2>1, <2>3, <3>1
    <3>3. b[i] = v[i - x] BY <1>3, <1>5, <2>1, <2>3, <3>1
    <3> QED BY <3>2, <3>3
  <2>4. CASE ~(i <= x + y)
    <3>1. /\ ~(i <= Len(f)) /\ ~(i <= x) /\ i - x \in 1..(y + z) /\ ~(i - x <= y)
          /\ i - Len(f) = (i - x) - y
      BY <1>1, <1>2, <2>4
    <3>2. a[i] = w[(i - x) - y] BY <1>4, <2>1, <3>1
    <3>3. b[i] = w[(i - x) - y] BY <1>3, <1>5, <2>1, <3>1
    <3> QED BY <3>2, <3>3
  <2> QED BY <1>1, <2>2, <2>3, <2>4
<1>8. \A i \in 1..Len(a) : a[i] = b[i] BY <1>6, <1>7
<1>9. a = b BY <1>4, <1>5, <1>6, <1>8, SameElements
<1> QED BY <1>9 DEF Associates, a, b, f, g

(* The first of some texts stands before the others.                        *)
LEMMA FlattenFirst ==
  ASSUME NEW S, NEW y \in Seq(S), NEW seqs \in Seq(Seq(S)), NEW all \in Seq(Seq(S)),
         Len(all) = Len(seqs) + 1, all[1] = y, \A i \in 1..Len(seqs) : all[i + 1] = seqs[i]
  PROVE  FlattenSeq(all) = y \o FlattenSeq(seqs)
<1> DEFINE n == Len(seqs)
           m == n + 1
<1>1. n \in Nat /\ m \in Nat /\ m # 0 /\ m = Len(all) /\ 1 \in 1..m BY LenProperties
<1>6. n = Len(seqs) /\ m = n + 1 /\ 1 \in Int /\ n \in Int BY <1>1
<1> HIDE DEF n, m
<1>2. PICK q : /\ FlattenSeq(all) = q[m]
               /\ \A i \in 1..m : /\ q[i] \in Seq(S)
                                  /\ q[i] = IF i = 1 THEN all[i] ELSE q[i - 1] \o all[i]
  <2>1. FlatRuns(S, all, m) BY <1>1, FlattenSteps
  <2> QED BY <2>1 DEF FlatRuns
<1>3. q[1] = y BY <1>1, <1>2
<1>4. CASE n = 0
  <2>1. FlattenSeq(seqs) = seqs BY <1>4, <1>6 DEF FlattenSeq
  <2>2. seqs = <<>> BY <1>4, <1>6
  <2>3. y \o <<>> = y BY ConcatEmptySeq
  <2>4. m = 1 BY <1>4, <1>6
  <2> QED BY <1>2, <1>3, <2>1, <2>2, <2>3, <2>4
<1>5. CASE n # 0
  <2>1. PICK r : /\ FlattenSeq(seqs) = r[n]
                 /\ \A i \in 1..n : /\ r[i] \in Seq(S)
                                    /\ r[i] = IF i = 1 THEN seqs[i] ELSE r[i - 1] \o seqs[i]
    <3>1. FlatRuns(S, seqs, n) BY <1>5, <1>6, FlattenSteps
    <3> QED BY <3>1 DEF FlatRuns
  <2> DEFINE T == {i \in 1..n : q[i + 1] = y \o r[i]}
  <2>2. \A i \in 1..n : i + 1 \in 1..m /\ i + 1 # 1 /\ (i + 1) - 1 = i BY <1>1, <1>6
  <2>3. ASSUME NEW i \in 1..n PROVE q[i + 1] = q[i] \o seqs[i]
    <3>1. q[i + 1] = q[(i + 1) - 1] \o all[i + 1] BY <1>2, <2>2
    <3>2. all[i + 1] = seqs[i] BY <1>6
    <3> QED BY <2>2, <3>1, <3>2
  <2>4. 1 \in T
    <3>1. 1 \in 1..n BY <1>1, <1>5
    <3>2. 1 + 1 = 2 OBVIOUS
    <3>3. r[1] = seqs[1] BY <2>1, <3>1
    <3> QED BY <1>3, <2>3, <3>1, <3>3
  <2>5. ASSUME NEW i \in (1 + 1)..n, i - 1 \in T PROVE i \in T
    <3>1. i \in 1..n /\ i - 1 \in 1..n /\ i # 1 /\ (i - 1) + 1 = i BY <1>1, <2>5
    <3>2. q[i] = y \o r[i - 1] BY <2>5, <3>1
    <3>3. q[i + 1] = (y \o r[i - 1]) \o seqs[i] BY <2>3, <3>1, <3>2
    <3>4. r[i - 1] \in Seq(S) /\ seqs[i] \in Seq(S) BY <1>6, <2>1, <3>1, ElementOfSeq
    <3>5. (y \o r[i - 1]) \o seqs[i] = y \o (r[i - 1] \o seqs[i])
      <4> DEFINE u == r[i - 1]
                 v == seqs[i]
      <4>1. u \in Seq(S) /\ v \in Seq(S) BY <3>4
      <4> HIDE DEF u, v
      <4>2. Associates(y, u, v) BY <4>1, ConcatAssociates
      <4> QED BY <4>2 DEF Associates, u, v
    <3>6. r[i] = r[i - 1] \o seqs[i] BY <2>1, <3>1
    <3> QED BY <3>1, <3>3, <3>5, <3>6
  <2> HIDE DEF T
  <2>6. \A i \in 1..n : i \in T BY <1>6, <2>4, <2>5, UpwardInduction
  <2>7. n \in 1..n /\ m = n + 1 BY <1>1, <1>5, <1>6
  <2>8. q[n + 1] = y \o r[n] BY <2>6, <2>7 DEF T
  <2> QED BY <1>2, <2>1, <2>7, <2>8
<1> QED BY <1>4, <1>5

(* One text as post_form_data() expects it. *)
Block(x) == <<Len(x) \div 256, Len(x) % 256>> \o x \o <<0>>
ShortTexts == {x \in Seq(Bytes) : Len(x) < 65536}

LEMMA BlockIs ==
  ASSUME NEW x \in ShortTexts
  PROVE  /\ Block(x) \in Seq(Bytes) /\ Len(Block(x)) = Len(x) + 3
         /\ Block(x)[1] \in Bytes /\ Block(x)[2] \in Bytes
         /\ 256 * Block(x)[1] + Block(x)[2] = Len(x)
         /\ \A j \in 1..Len(x) : Block(x)[2 + j] = x[j]
         /\ Block(x)[Len(x) + 3] = 0
<1> DEFINE l == Len(x)
           h == l \div 256
           g == l % 256
           u == <<h, g>>
           v == u \o x
           z == <<0>>
           b == v \o z
<1>1. x \in Seq(Bytes) /\ l \in Nat /\ l < 65536 BY LenProperties DEF ShortTexts
<1> HIDE DEF l
<1>2. h \in 0..255 /\ g \in 0..255 /\ 256 * h + g = l BY <1>1
<1>3. Block(x) = b BY DEF Block, l
<1> HIDE DEF h, g
<1>4. h \in Bytes /\ g \in Bytes /\ 0 \in Bytes BY <1>2 DEF Bytes
<1>5. u \in Seq(Bytes) /\ Len(u) = 2 /\ u[1] = h /\ u[2] = g BY <1>4
<1>6. z \in Seq(Bytes) /\ Len(z) = 1 /\ z[1] = 0 BY <1>4
<1> HIDE DEF u, z
<1>7. Follows(Bytes, v, u, x) BY <1>1, <1>5, Joined
<1>8. v \in Seq(Bytes) BY <1>7 DEF Follows
<1> HIDE DEF v
<1>9. Follows(Bytes, b, v, z) BY <1>6, <1>8, Joined
<1> HIDE DEF b
<1>10. Len(v) = 2 + l /\ v[1] = h /\ v[2] = g /\ \A j \in 1..l : v[2 + j] = x[j]
  <2>1. 1 \in 1..2 /\ 2 \in 1..2 OBVIOUS
  <2> QED BY <1>5, <1>7, <2>1 DEF Follows, l
<1>11. b \in Seq(Bytes) /\ Len(b) = (2 + l) + 1 /\ \A j \in 1..(2 + l) : b[j] = v[j]
  BY <1>6, <1>9, <1>10 DEF Follows
<1>12. b[(2 + l) + 1] = 0
  <2>1. 1 \in 1..Len(z) BY <1>6
  <2>2. b[Len(v) + 1] = z[1] BY <1>9, <2>1 DEF Follows
  <2> QED BY <1>6, <1>10, <2>2
<1>13. /\ 1 \in 1..(2 + l) /\ 2 \in 1..(2 + l) /\ (2 + l) + 1 = l + 3
       /\ \A j \in 1..l : 2 + j \in 1..(2 + l)
  BY <1>1
<1>14. b[1] = h /\ b[2] = g /\ \A j \in 1..l : b[2 + j] = x[j] BY <1>10, <1>11, <1>13
<1> QED BY <1>2, <1>3, <1>4, <1>11, <1>12, <1>13, <1>14 DEF l

(* The blocks of some texts, and what Encoded() makes of them.              *)
LEMMA EncodedBlocks ==
  ASSUME NEW t \in Seq(ShortTexts)
  PROVE  \E b : /\ b \in Seq(Seq(Bytes)) /\ Len(b) = Len(t)
                /\ \A i \in 1..Len(t) : b[i] = Block(t[i])
                /\ Encoded(t) = FlattenSeq(b)
<1> DEFINE b == [i \in DOMAIN t |-> Block(t[i])]
<1>1. Len(t) \in Nat /\ DOMAIN t = 1..Len(t) BY LenProperties
<1>2. \A i \in 1..Len(t) : Block(t[i]) \in Seq(Bytes) BY ElementOfSeq, BlockIs
<1>3. b \in [1..Len(t) -> Seq(Bytes)] BY <1>1, <1>2
<1>4. \A i \in 1..Len(t) : b[i] = Block(t[i]) BY <1>1
<1>5. Encoded(t) = FlattenSeq(b) BY DEF Encoded, Block
<1> HIDE DEF b
<1>6. b \in Seq(Seq(Bytes)) /\ Len(b) = Len(t) BY <1>1, <1>3, FunctionIsSeq
<1> QED BY <1>4, <1>5, <1>6

(* The first of some texts is encoded before the others.                    *)
LEMMA EncodedFirst ==
  ASSUME NEW x \in ShortTexts, NEW t \in Seq(ShortTexts)
  PROVE  /\ Encoded(<<x>> \o t) = Block(x) \o Encoded(t)
         /\ Encoded(t) \in Seq(Bytes) /\ Encoded(<<>>) = <<>>
<1> DEFINE o == <<x>>
           all == o \o t
           n == Len(t)
<1>1. o \in Seq(ShortTexts) /\ Len(o) = 1 /\ o[1] = x OBVIOUS
<1>2. n \in Nat BY LenProperties
<1> HIDE DEF o
<1>3. Follows(ShortTexts, all, o, t) BY <1>1, Joined
<1> HIDE DEF all
<1>4. all \in Seq(ShortTexts) /\ Len(all) = n + 1 BY <1>1, <1>2, <1>3 DEF Follows
<1>5. all[1] = x
  <2>1. 1 \in 1..Len(o) BY <1>1
  <2> QED BY <1>1, <1>3, <2>1 DEF Follows
<1>6. \A i \in 1..n : all[i + 1] = t[i]
  <2>1. \A i \in 1..n : all[Len(o) + i] = t[i] BY <1>3 DEF Follows
  <2>2. \A i \in 1..n : Len(o) + i = i + 1 BY <1>1, <1>2
  <2> QED BY <2>1, <2>2
<1>7. PICK a : /\ a \in Seq(Seq(Bytes)) /\ Len(a) = Len(all)
               /\ \A i \in 1..Len(all) : a[i] = Block(all[i])
               /\ Encoded(all) = FlattenSeq(a)
  BY <1>4, EncodedBlocks
<1>8. PICK b : /\ b \in Seq(Seq(Bytes)) /\ Len(b) = Len(t)
               /\ \A i \in 1..Len(t) : b[i] = Block(t[i])
               /\ Encoded(t) = FlattenSeq(b)
  BY EncodedBlocks
<1>9. Block(x) \in Seq(Bytes) BY BlockIs
<1>10. Len(a) = Len(b) + 1 /\ a[1] = Block(x) /\ \A i \in 1..Len(b) : a[i + 1] = b[i]
  <2>1. Len(a) = n + 1 /\ Len(b) = n /\ 1 \in 1..Len(all) BY <1>2, <1>4, <1>7, <1>8
  <2>2. a[1] = Block(x) BY <1>5, <1>7, <2>1
  <2>3. \A i \in 1..n : i + 1 \in 1..Len(all) BY <1>2, <1>4
  <2>4. \A i \in 1..n : a[i + 1] = b[i] BY <1>6, <1>7, <1>8, <2>3
  <2> QED BY <2>1, <2>2, <2>4
<1>11. FlattenSeq(a) = Block(x) \o FlattenSeq(b) BY <1>7, <1>8, <1>9, <1>10, FlattenFirst
<1>12. FlattenSeq(b) \in Seq(Bytes)
  <2> DEFINE k == Len(b)
  <2>1. k = Len(b) OBVIOUS
  <2> HIDE DEF k
  <2> QED BY <1>8, <2>1, FlattenedAt
<1>13. Encoded(<<>>) = <<>>
  <2> DEFINE e == <<>>
  <2>1. e \in Seq(ShortTexts) /\ Len(e) = 0 OBVIOUS
  <2> HIDE DEF e
  <2>2. PICK c : c \in Seq(Seq(Bytes)) /\ Len(c) = Len(e) /\ Encoded(e) = FlattenSeq(c)
    BY <2>1, EncodedBlocks
  <2>3. c = <<>> /\ Len(c) = 0 BY <2>1, <2>2
  <2>4. FlattenSeq(c) = c BY <2>3 DEF FlattenSeq
  <2> QED BY <2>2, <2>3, <2>4 DEF e
<1> QED BY <1>7, <1>8, <1>11, <1>12, <1>13 DEF all, o

(* The end of two texts is that of the second.                              *)
LEMMA LastBehind ==
  ASSUME NEW S, NEW u \in Seq(S), NEW v \in Seq(S), v # <<>>
  PROVE  u \o v # <<>> /\ Last(u \o v) = Last(v)
<1> DEFINE w == u \o v
           x == Len(u)
           y == Len(v)
<1>1. x \in Nat /\ y \in Nat BY LenProperties
<1>2. y # 0 BY LenProperties
<1>3. Follows(S, w, u, v) BY Joined
<1>4. Last(w) = w[Len(w)] /\ Last(v) = v[y] BY DEF Last
<1> HIDE DEF w
<1>5. y \in 1..y /\ x + y # 0 BY <1>1, <1>2
<1>6. Len(w) = x + y /\ w[x + y] = v[y] BY <1>3, <1>5 DEF Follows
<1>7. w # <<>>
  <2>1. Len(<<>>) = 0 OBVIOUS
  <2> QED BY <1>5, <1>6, <2>1
<1>8. Last(w) = Last(v) BY <1>4, <1>6
<1> QED BY <1>7, <1>8 DEF w

LEMMA NullRefused == FormRefused(<<Null>>)
<1> DEFINE t == <<Null>>
<1>1. t # <<>> /\ Len(t) = 1 /\ t[1] = Null OBVIOUS
<1> HIDE DEF t
<1>2. FormRefused(t) BY <1>1 DEF FormRefused, Last
<1> QED BY <1>2 DEF t

(* The rest of the data is the text that is read there, encoded, and what   *)
(* follows it.                                                              *)
LEMMA RestIsBlock ==
  ASSUME NEW d \in Seq(Bytes), NEW p \in 1..(Len(d) + 1), p # Len(d) + 1, ~PostBad(d, p)
  PROVE  /\ PostText(d, p) \in ShortTexts
         /\ SubSeq(d, p, Len(d)) = Block(PostText(d, p)) \o SubSeq(d, PostEnd(d, p) + 1, Len(d))
<1> DEFINE l == Len(d)
           x == PostText(d, p)
           e == PostEnd(d, p)
           b == Block(x)
           a == SubSeq(d, p, l)
           c == SubSeq(d, e + 1, l)
           k == Len(x)
           w == b \o c
<1>1. /\ p + 1 \in 1..l /\ e \in (p + 2)..l
      /\ e + 1 \in (p + 1)..(l + 1)
      /\ x \in Seq(Bytes)
      /\ k = 256 * d[p] + d[p + 1]
      /\ \A j \in 1..k : x[j] = d[p + 1 + j]
  BY PostTextIs
<1>2. l \in Nat /\ p \in 1..(l + 1) /\ p \in 1..l /\ k \in Nat BY <1>1, LenProperties
<1>3. d[p] \in Bytes /\ d[p + 1] \in Bytes BY <1>1, <1>2, ElementOfSeq
<1>4. d[p] \in 0..255 /\ d[p + 1] \in 0..255 BY <1>3 DEF Bytes
<1>5. e = p + 2 + k BY <1>1 DEF PostEnd
<1>6. d[e] = 0
  <2>1. d[e] = 0 BY DEF PostBad
  <2> QED BY <2>1
<1> HIDE DEF e, l
<1>7. x \in ShortTexts
  <2> DEFINE y1 == d[p]
             y2 == d[p + 1]
  <2>2. k = 256 * y1 + y2 /\ y1 \in 0..255 /\ y2 \in 0..255 BY <1>1, <1>4
  <2> HIDE DEF y1, y2, k
  <2>1. k < 65536 BY <2>2
  <2> QED BY <1>1, <2>1 DEF ShortTexts, k
<1> HIDE DEF x
<1>8. /\ b \in Seq(Bytes) /\ Len(b) = k + 3 /\ b[1] \in Bytes /\ b[2] \in Bytes
      /\ 256 * b[1] + b[2] = k
      /\ \A j \in 1..k : b[2 + j] = x[j]
      /\ b[k + 3] = 0
  BY <1>7, BlockIs
<1> HIDE DEF b
<1>9. b[1] \in 0..255 /\ b[2] \in 0..255 BY <1>8 DEF Bytes
<1>10. b[1] = d[p] /\ b[2] = d[p + 1]
  <2> DEFINE x1 == b[1]
             x2 == b[2]
             y1 == d[p]
             y2 == d[p + 1]
  <2>1. 256 * x1 + x2 = 256 * y1 + y2 BY <1>1, <1>8
  <2>2. x1 \in 0..255 /\ x2 \in 0..255 /\ y1 \in 0..255 /\ y2 \in 0..255 BY <1>4, <1>9
  <2> HIDE DEF x1, x2, y1, y2
  <2>3. x1 = y1 /\ x2 = y2 BY <2>1, <2>2
  <2> QED BY <2>3 DEF x1, x2, y1, y2
<1> HIDE DEF k
<1>11. \A j \in 1..(k + 3) : b[j] = d[p + j - 1]
  <2> SUFFICES ASSUME NEW j \in 1..(k + 3) PROVE b[j] = d[p + j - 1] OBVIOUS
  <2>1. CASE j = 1
    <3>1. p + j - 1 = p BY <1>2, <2>1
    <3> QED BY <1>10, <2>1, <3>1
  <2>2. CASE j = 2
    <3>1. p + j - 1 = p + 1 BY <1>2, <2>2
    <3> QED BY <1>10, <2>2, <3>1
  <2>3. CASE j = k + 3
    <3>1. p + j - 1 = e BY <1>2, <1>5, <2>3
    <3> QED BY <1>6, <1>8, <2>3, <3>1
  <2>4. CASE j # 1 /\ j # 2 /\ j # k + 3
    <3>1. j - 2 \in 1..k /\ 2 + (j - 2) = j /\ p + 1 + (j - 2) = p + j - 1 BY <1>2, <2>4
    <3>2. b[2 + (j - 2)] = x[j - 2] BY <1>8, <3>1
    <3>3. x[j - 2] = d[p + 1 + (j - 2)] BY <1>1, <3>1
    <3> QED BY <3>1, <3>2, <3>3
  <2> QED BY <2>1, <2>2, <2>3, <2>4
<1>20. l \in Int /\ p \in Int /\ e \in Int /\ k \in Nat /\ 1 <= p /\ e = p + 2 + k /\ e <= l
  <2>1. PICK z \in (p + 2)..l : z = e BY <1>1
  <2>2. z \in Int /\ z <= l BY <1>2, <2>1
  <2> QED BY <1>2, <1>5, <2>1, <2>2
<1>12. /\ p \in 1..(l + 1) /\ l \in 0..l /\ p <= l + 1
       /\ e + 1 \in 1..(l + 1) /\ e + 1 <= l + 1
  BY <1>1, <1>2
<1>13. a \in Seq(Bytes) /\ Len(a) = (l - p) + 1 /\ a = [i \in 1..((l - p) + 1) |-> d[(i + p) - 1]]
  BY <1>12, PartIs DEF l
<1>14. /\ c \in Seq(Bytes) /\ Len(c) = (l - (e + 1)) + 1
       /\ c = [i \in 1..((l - (e + 1)) + 1) |-> d[(i + (e + 1)) - 1]]
  BY <1>12, PartIs DEF l
<1> HIDE DEF a, c
<1>15. Follows(Bytes, w, b, c) BY <1>8, <1>14, Joined
<1> HIDE DEF w
<1>16. /\ w \in Seq(Bytes) /\ Len(w) = (k + 3) + ((l - (e + 1)) + 1)
       /\ \A j \in 1..(k + 3) : w[j] = b[j]
       /\ \A j \in 1..((l - (e + 1)) + 1) : w[(k + 3) + j] = c[j]
  <2> DEFINE q == k + 3
             m == (l - (e + 1)) + 1
  <2>1. Len(b) = q BY <1>8
  <2>2. Len(c) = m BY <1>14
  <2> HIDE DEF q, m
  <2>3. /\ w \in Seq(Bytes) /\ Len(w) = Len(b) + Len(c)
        /\ \A j \in 1..Len(b) : w[j] = b[j]
        /\ \A j \in 1..Len(c) : w[Len(b) + j] = c[j]
    BY <1>15 DEF Follows
  <2>4. /\ w \in Seq(Bytes) /\ Len(w) = q + m
        /\ \A j \in 1..q : w[j] = b[j]
        /\ \A j \in 1..m : w[q + j] = c[j]
    BY <2>1, <2>2, <2>3
  <2> QED BY <2>4 DEF q, m
<1>17. Len(a) = Len(w) /\ Len(a) = (k + 3) + ((l - (e + 1)) + 1)
  <2>1. (l - p) + 1 = (k + 3) + ((l - (e + 1)) + 1) BY <1>20
  <2> QED BY <1>13, <1>16, <2>1
<1>18. ASSUME NEW j \in 1..((k + 3) + ((l - (e + 1)) + 1)) PROVE a[j] = w[j]
  <2> DEFINE m == (l - (e + 1)) + 1
  <2>1. j \in 1..((l - p) + 1) /\ (j + p) - 1 = p + j - 1 BY <1>20
  <2>2. a[j] = d[p + j - 1] BY <1>13, <2>1
  <2>3. CASE j <= k + 3
    <3>1. j \in 1..(k + 3) BY <2>3
    <3> QED BY <1>11, <1>16, <2>2, <3>1
  <2>4. CASE ~(j <= k + 3)
    <3>1. /\ j - (k + 3) \in 1..m /\ (k + 3) + (j - (k + 3)) = j
          /\ ((j - (k + 3)) + (e + 1)) - 1 = p + j - 1
      BY <1>20, <2>4
    <3>2. w[(k + 3) + (j - (k + 3))] = c[j - (k + 3)] BY <1>16, <3>1
    <3>3. c[j - (k + 3)] = d[((j - (k + 3)) + (e + 1)) - 1] BY <1>14, <3>1
    <3> QED BY <2>2, <3>1, <3>2, <3>3
  <2> QED BY <2>3, <2>4
<1>19. a = w BY <1>13, <1>16, <1>17, <1>18, SameElements
<1> QED BY <1>7, <1>19 DEF a, w, b, c, x, e, l

(* What is not refused is the encoding of what was read.                    *)
LEMMA AcceptedIsEncoded ==
  ASSUME NEW d \in Seq(Bytes), ~FormRefused(PostFields(d))
  PROVE  PostFields(d) \in Seq(ShortTexts) /\ Encoded(PostFields(d)) = d
<1> DEFINE l == Len(d)
           n == l + 1
<1>1. PICK r : /\ PostFields(d) = r[1]
               /\ \A p \in 1..(Len(d) + 1) : r[p] \in PostTexts /\ PostFrom(r, d, p)
  BY PostSteps
<1> DEFINE Fine(p) == r[p] \in Seq(ShortTexts) /\ Encoded(r[p]) = SubSeq(d, p, l)
           T == {p \in 1..n : FormRefused(r[p]) \/ Fine(p)}
<1>2. l \in Nat /\ n \in Nat /\ 1 \in 1..n BY LenProperties
<1>3. ASSUME NEW p \in 1..n, \A m \in (p + 1)..n : m \in T PROVE p \in T
  <2>1. PostFrom(r, d, p) BY <1>1
  <2>2. CASE p = l + 1
    <3>1. r[p] = <<>> BY <2>1, <2>2 DEF PostFrom
    <3>2. Encoded(r[p]) = <<>>
      <4>1. <<>> \in ShortTexts
        <5>1. <<>> \in Seq(Bytes) /\ Len(<<>>) = 0 OBVIOUS
        <5> QED BY <5>1 DEF ShortTexts
      <4>2. <<>> \in Seq(ShortTexts) OBVIOUS
      <4> QED BY <3>1, <4>1, <4>2, EncodedFirst
    <3>3. SubSeq(d, p, l) = <<>>
      <4> DEFINE g == SubSeq(d, p, l)
      <4>1. p \in 1..(l + 1) /\ l \in 0..l /\ p <= l + 1 /\ (l - p) + 1 = 0 BY <1>2, <2>2
      <4>2. g \in Seq(Bytes) /\ Len(g) = (l - p) + 1 BY <4>1, PartIs
      <4> HIDE DEF g
      <4> QED BY <4>1, <4>2 DEF g
    <3>4. r[p] \in Seq(ShortTexts) BY <3>1
    <3> QED BY <3>2, <3>3, <3>4
  <2>3. CASE p # l + 1 /\ PostBad(d, p)
    <3>1. r[p] = <<Null>> BY <2>1, <2>3 DEF PostFrom
    <3> QED BY <3>1, NullRefused
  <2>4. CASE p # l + 1 /\ ~PostBad(d, p)
    <3> DEFINE x == PostText(d, p)
               e == PostEnd(d, p)
               v == r[e + 1]
    <3>1. r[p] = <<x>> \o v BY <2>1, <2>4 DEF PostFrom
    <3>2. e + 1 \in (p + 1)..n /\ x \in Seq(Bytes) BY <2>4, PostTextIs
    <3>3. x \in ShortTexts /\ SubSeq(d, p, l) = Block(x) \o SubSeq(d, e + 1, l)
      BY <2>4, RestIsBlock
    <3>4. e + 1 \in 1..n BY <1>2, <3>2
    <3>5. v \in PostTexts BY <1>1, <3>4
    <3>6. FormRefused(v) \/ Fine(e + 1) BY <1>3, <3>2
    <3>7. CASE FormRefused(v)
      <4>1. <<x>> \in PostTexts BY <3>2 DEF PostTexts
      <4>2. v # <<>> /\ Last(v) = Null BY <3>7 DEF FormRefused
      <4> HIDE DEF x, v
      <4>3. <<x>> \o v # <<>> /\ Last(<<x>> \o v) = Last(v)
        BY <3>5, <4>1, <4>2, LastBehind DEF PostTexts
      <4>4. FormRefused(r[p]) BY <3>1, <4>2, <4>3 DEF FormRefused
      <4> QED BY <4>4
    <3>8. CASE Fine(e + 1)
      <4>1. v \in Seq(ShortTexts) /\ Encoded(v) = SubSeq(d, e + 1, l) BY <3>8
      <4> HIDE DEF x, v, e
      <4>2. Encoded(<<x>> \o v) = Block(x) \o Encoded(v) BY <3>3, <4>1, EncodedFirst
      <4>3. <<x>> \o v \in Seq(ShortTexts)
        <5>1. <<x>> \in Seq(ShortTexts) BY <3>3
        <5> QED BY <4>1, <5>1, ConcatProperties
      <4>4. Fine(p) BY <3>1, <3>3, <4>1, <4>2, <4>3
      <4> QED BY <4>4
    <3> QED BY <3>6, <3>7, <3>8
  <2> QED BY <2>2, <2>3, <2>4
<1>4. \A p \in 1..n : p \in T
  <2> HIDE DEF T, n
  <2> QED BY <1>2, <1>3, DownwardInduction
<1>5. Fine(1) BY <1>1, <1>2, <1>4
<1>6. SubSeq(d, 1, l) = d BY WholeText
<1> QED BY <1>1, <1>5, <1>6

(* A nonempty set of places has a last one. *)
LEMMA LastPlace ==
  ASSUME NEW n \in Nat, NEW J, J \subseteq 1..n, J # {}
  PROVE  \E i \in J : \A j \in J : j <= i
<1> DEFINE T == {n - j : j \in J}
<1>1. T \subseteq Nat /\ T # {}
  <2>1. \A j \in J : n - j \in Nat OBVIOUS
  <2>2. T \subseteq Nat BY <2>1
  <2>3. PICK j : j \in J OBVIOUS
  <2>4. n - j \in T BY <2>3
  <2> QED BY <2>2, <2>4
<1>2. PICK x \in T : \A y \in T : x <= y BY <1>1, LeastNatural
<1>3. PICK i \in J : x = n - i BY <1>2
<1>4. ASSUME NEW j \in J PROVE j <= i
  <2>1. n - j \in T OBVIOUS
  <2>2. n - i <= n - j BY <1>2, <1>3, <2>1
  <2> QED BY <2>2
<1> QED BY <1>4

(* For any data: what post_form_data() accepts is the encoding of what it   *)
(* gives, and a value that its named form gives follows that name.          *)
THEOREM PostFormsExact ==
  ASSUME NEW d \in Seq(Bytes), NEW fields
  PROVE  PostFormExact(d, fields)
<1> DEFINE t == PostFields(d)
           z == PostNamed(d, fields)
           names == {i \in DOMAIN t : i % 2 = 1}
           of(f) == {i \in names : t[i] = f /\ i < Len(t)}
           last(f) == CHOOSE i \in of(f) : \A j \in of(f) : j <= i
           bad == FormRefused(t) \/ \E i \in names : t[i] \notin Range(fields)
           values == [k \in DOMAIN fields |->
                        IF of(fields[k]) = {} THEN <<>> ELSE t[1 + last(fields[k])]]
<1>1. ~FormRefused(t) => t \in Seq(ShortTexts) /\ Encoded(t) = d
  BY AcceptedIsEncoded
<1>2. z = IF bad THEN Refused(400) ELSE [status |-> 200, values |-> values]
  BY DEF PostNamed
<1> HIDE DEF t, z
<1>3. ASSUME z.status = 200, NEW k \in DOMAIN fields, z.values[k] # <<>>
      PROVE  \E i \in DOMAIN t : i % 2 = 0 /\ t[i] = z.values[k] /\ t[i - 1] = fields[k]
  <2> DEFINE f == fields[k]
             i == last(f)
  <2>1. ~bad
    <3>1. Refused(400).status # 200 BY DEF Refused
    <3> HIDE DEF bad, values
    <3> QED BY <1>2, <1>3, <3>1
  <2>2. z.values = values
    <3> HIDE DEF bad, values
    <3> QED BY <1>2, <2>1
  <2>3. z.values[k] = IF of(f) = {} THEN <<>> ELSE t[1 + i]
    <3> HIDE DEF of, last
    <3> QED BY <2>2
  <2>4. t \in Seq(ShortTexts) BY <1>1, <2>1
  <2>5. Len(t) \in Nat /\ DOMAIN t = 1..Len(t) BY <2>4, LenProperties
  <2>6. of(f) # {} BY <1>3, <2>3
  <2>7. of(f) \subseteq 1..Len(t) BY <2>5
  <2>8. \A j \in of(f) : j \in 1..Len(t) /\ j % 2 = 1 /\ t[j] = f /\ j < Len(t) BY <2>5
  <2>9. i \in of(f)
    <3> DEFINE J == of(f)
    <3> HIDE DEF of
    <3>1. \E x \in J : \A j \in J : j <= x
      <4> HIDE DEF J
      <4>1. J \subseteq 1..Len(t) /\ J # {} BY <2>6, <2>7 DEF J
      <4> QED BY <2>5, <4>1, LastPlace
    <3> QED BY <3>1
  <2> HIDE DEF of, i
  <2>10. i \in 1..Len(t) /\ i % 2 = 1 /\ t[i] = f /\ i < Len(t) BY <2>8, <2>9
  <2>11. 1 + i \in 1..Len(t) /\ (1 + i) % 2 = 0 /\ (1 + i) - 1 = i BY <2>5, <2>10
  <2>12. z.values[k] = t[1 + i] BY <2>3, <2>6
  <2> QED BY <2>5, <2>10, <2>11, <2>12
<1> QED BY <1>1, <1>3 DEF PostFormExact, t, z

(* Where the texts stand in what encodes them.                              *)
EncodedCuts(texts, m, w, E) ==
  /\ E \in [0..m -> Nat] /\ E[0] = 0 /\ E[m] = Len(w)
  /\ \A i \in 1..m : /\ E[i] = E[i - 1] + (Len(texts[i]) + 3)
                     /\ \A j \in 1..(Len(texts[i]) + 3) :
                          w[E[i - 1] + j] = Block(texts[i])[j]

LEMMA EncodedAt ==
  ASSUME NEW texts \in Seq(ShortTexts)
  PROVE  /\ Encoded(texts) \in Seq(Bytes)
         /\ \E E : EncodedCuts(texts, Len(texts), Encoded(texts), E)
<1> DEFINE m == Len(texts)
           w == Encoded(texts)
<1>1. PICK b : /\ b \in Seq(Seq(Bytes)) /\ Len(b) = Len(texts)
               /\ \A i \in 1..Len(texts) : b[i] = Block(texts[i])
               /\ Encoded(texts) = FlattenSeq(b)
  BY EncodedBlocks
<1>2. m = Len(b) BY <1>1
<1> HIDE DEF m
<1>3. FlattenSeq(b) \in Seq(Bytes) /\ \E E : FlatCuts(b, m, E) BY <1>1, <1>2, FlattenedAt
<1>4. PICK E : FlatCuts(b, m, E) BY <1>3
<1>5. \A i \in 1..m : b[i] = Block(texts[i]) /\ Len(b[i]) = Len(texts[i]) + 3
  <2>1. \A i \in 1..m : texts[i] \in ShortTexts BY ElementOfSeq DEF m
  <2> QED BY <1>1, <2>1, BlockIs DEF m
<1>6. EncodedCuts(texts, m, w, E)
  <2>1. w = FlattenSeq(b) BY <1>1
  <2> HIDE DEF w
  <2>2. \A i \in 1..m : /\ E[i] = E[i - 1] + Len(b[i])
                        /\ \A j \in 1..Len(b[i]) : w[E[i - 1] + j] = b[i][j]
    BY <1>4, <2>1 DEF FlatCuts
  <2>3. E \in [0..m -> Nat] /\ E[0] = 0 /\ E[m] = Len(w) BY <1>4, <2>1 DEF FlatCuts
  <2>4. \A i \in 1..m : /\ E[i] = E[i - 1] + (Len(texts[i]) + 3)
                        /\ \A j \in 1..(Len(texts[i]) + 3) :
                             w[E[i - 1] + j] = Block(texts[i])[j]
    BY <1>5, <2>2
  <2> QED BY <2>3, <2>4 DEF EncodedCuts
<1> QED BY <1>1, <1>3, <1>6 DEF m

(* post_form_data() at the place of an encoded text, of which the data may  *)
(* hold only the beginning.                                                 *)
LEMMA BlockRead ==
  ASSUME NEW d \in Seq(Bytes), NEW x \in ShortTexts, NEW a \in Nat, NEW p, p = a + 1,
         a < Len(d),
         \A j \in 1..(Len(x) + 3) : a + j <= Len(d) => d[a + j] = Block(x)[j]
  PROVE  /\ a + (Len(x) + 3) <= Len(d) =>
              ~PostBad(d, p) /\ PostText(d, p) = x /\ PostEnd(d, p) = a + (Len(x) + 3)
         /\ ~(a + (Len(x) + 3) <= Len(d)) => PostBad(d, p)
<1> DEFINE k == Len(x)
           n == Len(d)
           b == Block(x)
<1>1. k \in Nat /\ n \in Nat /\ x \in Seq(Bytes) BY LenProperties DEF ShortTexts
<1>2. /\ b[1] \in Bytes /\ b[2] \in Bytes /\ 256 * b[1] + b[2] = k
      /\ \A j \in 1..k : b[2 + j] = x[j]
      /\ b[k + 3] = 0
  BY BlockIs
<1> HIDE DEF b
<1>3. \A j \in 1..(k + 3) : a + j <= n => d[a + j] = b[j] BY DEF b
<1> HIDE DEF k
<1>4. CASE n = a + 1 BY <1>1, <1>4 DEF PostBad
<1>5. CASE n # a + 1
  <2>1. /\ a + 1 <= n /\ a + 2 <= n /\ 1 \in 1..(k + 3) /\ 2 \in 1..(k + 3)
        /\ p + 1 = a + 2 /\ p # n
    BY <1>1, <1>5
  <2>2. d[p] = b[1] /\ d[p + 1] = b[2] BY <1>3, <2>1
  <2> DEFINE v == 256 * d[p] + d[p + 1]
  <2>3. v = k BY <1>2, <2>2
  <2>4. PostEnd(d, p) = p + 2 + v BY DEF PostEnd
  <2> HIDE DEF v
  <2>5. PostEnd(d, p) = a + (k + 3) BY <1>1, <2>3, <2>4
  <2>6. CASE ~(a + (k + 3) <= n)
    <3>1. a + (k + 3) > n BY <1>1, <2>6
    <3> QED BY <2>5, <2>6, <3>1 DEF PostBad, k
  <2>7. CASE a + (k + 3) <= n
    <3>1. k + 3 \in 1..(k + 3) /\ ~(a + (k + 3) > n) BY <1>1, <2>7
    <3>2. d[a + (k + 3)] = 0 BY <1>2, <1>3, <2>7, <3>1
    <3>3. ~PostBad(d, p) BY <2>1, <2>5, <3>1, <3>2 DEF PostBad
    <3> DEFINE t == PostText(d, p)
    <3>4. p \in 1..(n + 1) /\ p # n + 1 BY <1>1, <2>1
    <3>5. /\ t \in Seq(Bytes) /\ Len(t) = 256 * d[p] + d[p + 1]
          /\ \A j \in 1..Len(t) : t[j] = d[p + 1 + j]
      BY <3>3, <3>4, PostTextIs
    <3> HIDE DEF t
    <3>6. Len(t) = k BY <2>3, <3>5 DEF v
    <3>7. ASSUME NEW j \in 1..k PROVE t[j] = x[j]
      <4>1. 2 + j \in 1..(k + 3) /\ a + (2 + j) <= n /\ p + 1 + j = a + (2 + j)
        BY <1>1, <2>7
      <4>2. d[a + (2 + j)] = b[2 + j] BY <1>3, <4>1
      <4> QED BY <1>2, <3>5, <3>6, <4>1, <4>2
    <3>8. t = x BY <1>1, <3>5, <3>6, <3>7, SameElements DEF k
    <3> QED BY <2>5, <2>7, <3>3, <3>8 DEF k, t
  <2> QED BY <2>6, <2>7
<1> QED BY <1>4, <1>5

(* The first texts of some, with the next one. *)
LEMMA PartGrows ==
  ASSUME NEW S, NEW s \in Seq(S), NEW k \in 1..Len(s)
  PROVE  /\ SubSeq(s, 1, k - 1) \in Seq(S)
         /\ SubSeq(s, 1, k - 1) \o <<s[k]>> = SubSeq(s, 1, k)
<1> DEFINE a == SubSeq(s, 1, k - 1)
           b == SubSeq(s, 1, k)
           o == <<s[k]>>
           w == a \o o
<1>1. Len(s) \in Nat /\ s[k] \in S BY LenProperties, ElementOfSeq
<1>2. /\ 1 \in 1..(Len(s) + 1) /\ k - 1 \in 0..Len(s) /\ k \in 0..Len(s)
      /\ 1 <= (k - 1) + 1 /\ 1 <= k + 1 /\ ((k - 1) - 1) + 1 = k - 1 /\ (k - 1) + 1 = k
      /\ \A i \in 1..k : (i + 1) - 1 = i
  BY <1>1
<1>3. /\ a \in Seq(S) /\ Len(a) = ((k - 1) - 1) + 1
      /\ a = [i \in 1..(((k - 1) - 1) + 1) |-> s[(i + 1) - 1]]
  BY <1>2, PartIs
<1>4. b \in Seq(S) /\ Len(b) = (k - 1) + 1 /\ b = [i \in 1..((k - 1) + 1) |-> s[(i + 1) - 1]]
  BY <1>2, PartIs
<1>5. o \in Seq(S) /\ Len(o) = 1 /\ o[1] = s[k] BY <1>1
<1> HIDE DEF a, b, o
<1>6. Len(a) = k - 1 /\ \A i \in 1..(k - 1) : a[i] = s[i]
  <2>1. \A i \in 1..(k - 1) : i \in 1..k OBVIOUS
  <2>2. a = [i \in 1..(k - 1) |-> s[(i + 1) - 1]] BY <1>2, <1>3
  <2> QED BY <1>2, <1>3, <2>1, <2>2
<1>7. Len(b) = k /\ \A i \in 1..k : b[i] = s[i] BY <1>2, <1>4
<1>8. Follows(S, w, a, o) BY <1>3, <1>5, Joined
<1> HIDE DEF w
<1>9. w \in Seq(S) /\ Len(w) = k /\ w[k] = s[k] /\ \A i \in 1..(k - 1) : w[i] = s[i]
  <2>1. 1 \in 1..Len(o) /\ Len(a) + 1 = k /\ Len(a) + Len(o) = k BY <1>5, <1>6
  <2> QED BY <1>5, <1>6, <1>8, <2>1 DEF Follows
<1>10. \A i \in 1..k : w[i] = b[i]
  <2>1. \A i \in 1..k : i = k \/ i \in 1..(k - 1) OBVIOUS
  <2> QED BY <1>7, <1>9, <2>1
<1>11. w = b BY <1>4, <1>7, <1>9, <1>10, SameElements
<1> QED BY <1>3, <1>11 DEF a, b, o, w

(* The texts before a cut are read, and then what follows them.             *)
ReadUpTo(texts, m, E, d, r) ==
  \A k \in 0..m : E[k] <= Len(d) => r[1] = SubSeq(texts, 1, k) \o r[E[k] + 1]

LEMMA CutRead ==
  ASSUME NEW texts \in Seq(ShortTexts), NEW m, m = Len(texts), NEW w, NEW E,
         EncodedCuts(texts, m, w, E),
         NEW d \in Seq(Bytes), \A j \in 1..Len(d) : d[j] = w[j],
         NEW r, \A p \in 1..(Len(d) + 1) : r[p] \in PostTexts /\ PostFrom(r, d, p)
  PROVE  ReadUpTo(texts, m, E, d, r)
<1> DEFINE n == Len(d)
           V == Seq(Bytes) \cup {Null}
           part(k) == SubSeq(texts, 1, k)
           T == {k \in 0..m : E[k] <= n => r[1] = part(k) \o r[E[k] + 1]}
<1>1. m \in Nat /\ n \in Nat BY LenProperties
<1>2. \A k \in 0..m : E[k] \in Nat BY DEF EncodedCuts
<1>3. texts \in Seq(V)
  <2>1. \A i \in 1..Len(texts) : texts[i] \in V BY ElementOfSeq DEF ShortTexts
  <2> HIDE DEF V
  <2> QED BY <2>1, SeqOfElements
<1>4. 0 \in T
  <2>1. E[0] = 0 /\ 0 \in 0..m /\ 0 + 1 = 1 /\ 1 \in 1..(n + 1) BY <1>1 DEF EncodedCuts
  <2>2. part(0) = <<>>
    <3> DEFINE g == SubSeq(texts, 1, 0)
    <3>1. 1 \in 1..(Len(texts) + 1) /\ 0 \in 0..Len(texts) /\ 1 <= 0 + 1 /\ (0 - 1) + 1 = 0
      BY <1>1
    <3>2. g \in Seq(V) /\ Len(g) = (0 - 1) + 1 BY <1>3, <3>1, PartIs
    <3> HIDE DEF g
    <3>3. g = <<>> BY <3>1, <3>2
    <3> QED BY <3>3 DEF g
  <2>3. r[1] \in PostTexts BY <2>1
  <2>4. <<>> \o r[1] = r[1] BY <2>3, ConcatEmptySeq DEF PostTexts
  <2> HIDE DEF part
  <2> QED BY <2>1, <2>2, <2>4
<1>5. ASSUME NEW k \in (0 + 1)..m, k - 1 \in T PROVE k \in T
  <2> SUFFICES ASSUME E[k] <= n PROVE r[1] = part(k) \o r[E[k] + 1]
    BY <1>5
  <2> DEFINE x == texts[k]
             a == E[k - 1]
             p == a + 1
             e == E[k]
  <2>1. k \in 1..m /\ k - 1 \in 0..m /\ k \in 0..m BY <1>1, <1>5
  <2>2. x \in ShortTexts /\ x \in V BY <2>1, <1>3, ElementOfSeq
  <2>3. a \in Nat /\ e \in Nat BY <1>2, <2>1
  <2>4. e = a + (Len(x) + 3) /\ \A j \in 1..(Len(x) + 3) : w[a + j] = Block(x)[j]
    BY <2>1 DEF EncodedCuts
  <2>5. Len(x) \in Nat BY <2>2, LenProperties DEF ShortTexts
  <2>6. a <= n => r[1] = part(k - 1) \o r[a + 1] BY <1>5
  <2>7. <<x>> \in Seq(V) BY <2>2
  <2>8. part(k - 1) \in Seq(V) /\ part(k - 1) \o <<x>> = part(k)
    BY <1>3, <2>1, PartGrows
  <2>14. e <= n OBVIOUS
  <2> HIDE DEF x, a, e, part, V
  <2>9. /\ p = a + 1 /\ a < n /\ a + (Len(x) + 3) <= n /\ p \in 1..(n + 1) /\ p # n + 1
        /\ e + 1 \in 1..(n + 1)
    BY <1>1, <2>3, <2>4, <2>5, <2>14
  <2>10. \A j \in 1..(Len(x) + 3) : a + j <= n => d[a + j] = Block(x)[j]
    <3>1. \A j \in 1..(Len(x) + 3) : a + j <= n => a + j \in 1..n BY <1>1, <2>3, <2>5
    <3> QED BY <2>4, <3>1
  <2>11. ~PostBad(d, p) /\ PostText(d, p) = x /\ PostEnd(d, p) = e
    <3> HIDE DEF p
    <3> QED BY <2>2, <2>3, <2>4, <2>9, <2>10, BlockRead
  <2>12. r[p] = <<x>> \o r[e + 1]
    <3>1. PostFrom(r, d, p) BY <2>9
    <3> HIDE DEF p, n
    <3> QED BY <2>9, <2>11, <3>1 DEF PostFrom, n
  <2>13. r[e + 1] \in Seq(V) BY <2>9 DEF PostTexts, V
  <2>15. Associates(part(k - 1), <<x>>, r[e + 1]) BY <2>7, <2>8, <2>13, ConcatAssociates
  <2>16. r[1] = part(k - 1) \o (<<x>> \o r[e + 1])
    <3>1. a <= n BY <1>1, <2>3, <2>9
    <3>2. r[1] = part(k - 1) \o r[p] BY <2>6, <3>1
    <3> HIDE DEF p
    <3> QED BY <2>12, <3>2
  <2>17. r[1] = (part(k - 1) \o <<x>>) \o r[e + 1] BY <2>15, <2>16 DEF Associates
  <2>18. r[1] = part(k) \o r[e + 1] BY <2>8, <2>17
  <2> QED BY <2>18 DEF e
<1>6. \A k \in 0..m : k \in T
  <2> HIDE DEF T
  <2>1. 0 \in Int /\ m \in Int BY <1>1
  <2> QED BY <2>1, <1>4, <1>5, UpwardInduction
<1> QED BY <1>6 DEF ReadUpTo

(* Some number of the texts lies before a cut, the next one not.            *)
LEMMA CutBetween ==
  ASSUME NEW texts, NEW m \in Nat, NEW w, NEW E, EncodedCuts(texts, m, w, E),
         NEW n \in Nat, n < Len(w), Len(w) \in Nat
  PROVE  \E k \in 1..m : E[k - 1] <= n /\ ~(E[k] <= n)
<1> DEFINE J == {k \in 0..m : n < E[k]}
<1>1. J \subseteq Nat OBVIOUS
<1>2. m \in J BY DEF EncodedCuts
<1>3. PICK k \in J : \A i \in J : k <= i BY <1>1, <1>2, LeastNatural
<1>4. \A i \in 0..m : E[i] \in Nat BY DEF EncodedCuts
<1>5. k # 0
  <2> SUFFICES ASSUME k = 0 PROVE FALSE OBVIOUS
  <2>1. E[0] = 0 BY DEF EncodedCuts
  <2> QED BY <1>3, <2>1
<1>6. k \in 1..m /\ k - 1 \in 0..m /\ k \in 0..m BY <1>3, <1>5
<1>7. k - 1 \notin J BY <1>3, <1>6
<1>8. E[k - 1] <= n BY <1>4, <1>6, <1>7
<1>9. ~(E[k] <= n) BY <1>3, <1>4, <1>6
<1> QED BY <1>6, <1>8, <1>9

(* For any texts that fit their length: post_form_data() gives what was     *)
(* encoded back, and takes what was cut off for whole only between texts.   *)
THEOREM PostFormsRead ==
  ASSUME NEW texts \in Seq(ShortTexts)
  PROVE  PostFormRoundTrip(texts)
<1> DEFINE m == Len(texts)
           w == Encoded(texts)
<1>1. w \in Seq(Bytes) /\ \E E : EncodedCuts(texts, m, w, E) BY EncodedAt
<1>2. PICK E : EncodedCuts(texts, m, w, E) BY <1>1
<1>3. PostFormRoundTrip(texts) <=>
        /\ PostFields(w) = texts
        /\ \A n \in 1..(Len(w) - 1) :
             \/ FormRefused(PostFields(SubSeq(w, 1, n)))
             \/ \E i \in DOMAIN texts : SubSeq(w, 1, n) = Encoded(SubSeq(texts, 1, i))
  BY DEF PostFormRoundTrip
<1> HIDE DEF w
<1>4. m \in Nat /\ Len(w) \in Nat /\ DOMAIN texts = 1..m BY <1>1, LenProperties
<1>5. m = Len(texts) /\ E[m] = Len(w) /\ \A k \in 0..m : E[k] \in Nat BY <1>2 DEF EncodedCuts
<1> HIDE DEF m
<1>6. PostFields(w) = texts
  <2>1. PICK r : /\ PostFields(w) = r[1]
                 /\ \A p \in 1..(Len(w) + 1) : r[p] \in PostTexts /\ PostFrom(r, w, p)
    BY <1>1, PostSteps
  <2>2. ReadUpTo(texts, m, E, w, r) BY <1>1, <1>2, <1>5, <2>1, CutRead
  <2>3. m \in 0..m /\ E[m] <= Len(w) /\ Len(w) + 1 \in 1..(Len(w) + 1) BY <1>4, <1>5
  <2>4. r[1] = SubSeq(texts, 1, m) \o r[Len(w) + 1] BY <1>5, <2>2, <2>3 DEF ReadUpTo
  <2>5. PostFrom(r, w, Len(w) + 1) BY <2>1, <2>3
  <2>6. r[Len(w) + 1] = <<>> BY <2>5 DEF PostFrom
  <2>7. SubSeq(texts, 1, m) = texts BY <1>5, WholeText
  <2>8. texts \o <<>> = texts BY ConcatEmptySeq
  <2> QED BY <2>1, <2>4, <2>6, <2>7, <2>8
<1>7. ASSUME NEW n \in 1..(Len(w) - 1)
      PROVE  \/ FormRefused(PostFields(SubSeq(w, 1, n)))
             \/ \E i \in DOMAIN texts : SubSeq(w, 1, n) = Encoded(SubSeq(texts, 1, i))
  <2> DEFINE d == SubSeq(w, 1, n)
  <2>1. /\ n \in Nat /\ n < Len(w) /\ 1 \in 1..(Len(w) + 1) /\ n \in 0..Len(w) /\ 1 <= n + 1
        /\ (n - 1) + 1 = n /\ \A i \in 1..n : (i + 1) - 1 = i
    BY <1>4
  <2>2. d \in Seq(Bytes) /\ Len(d) = (n - 1) + 1 /\ d = [i \in 1..((n - 1) + 1) |-> w[(i + 1) - 1]]
    BY <1>1, <2>1, PartIs
  <2> HIDE DEF d
  <2>3. Len(d) = n /\ \A j \in 1..n : d[j] = w[j] BY <2>1, <2>2
  <2>4. PICK r : /\ PostFields(d) = r[1]
                 /\ \A p \in 1..(Len(d) + 1) : r[p] \in PostTexts /\ PostFrom(r, d, p)
    BY <2>2, PostSteps
  <2>5. ReadUpTo(texts, m, E, d, r) BY <1>2, <1>5, <2>2, <2>3, <2>4, CutRead
  <2>6. PICK k \in 1..m : E[k - 1] <= n /\ ~(E[k] <= n) BY <1>2, <1>4, <2>1, CutBetween
  <2> DEFINE a == E[k - 1]
             x == texts[k]
             p == a + 1
             part == SubSeq(texts, 1, k - 1)
  <2>7. k - 1 \in 0..m /\ k \in 1..Len(texts) /\ m \in Nat BY <1>4, <1>5
  <2>8. r[1] = part \o r[p] BY <2>3, <2>5, <2>6, <2>7 DEF ReadUpTo
  <2>9. a \in Nat /\ a <= n BY <1>5, <2>6, <2>7
  <2>10. /\ E[k] = a + (Len(x) + 3)
         /\ \A j \in 1..(Len(x) + 3) : w[a + j] = Block(x)[j]
    BY <1>2 DEF EncodedCuts
  <2>11. x \in ShortTexts BY <2>7, ElementOfSeq
  <2>12. ~(a + (Len(x) + 3) <= n) BY <2>6, <2>10
  <2>13. part \in Seq(ShortTexts) BY <2>7, PartGrows
  <2> HIDE DEF a, x, part
  <2>14. Len(x) \in Nat BY <2>11, LenProperties DEF ShortTexts
  <2>15. p \in 1..(n + 1) /\ p = a + 1 BY <2>1, <2>9
  <2>16. PostFrom(r, d, p) BY <2>3, <2>4, <2>15
  <2>17. CASE a = n
    <3>1. r[p] = <<>> BY <2>3, <2>15, <2>16, <2>17 DEF PostFrom
    <3>2. part \o <<>> = part BY <2>13, ConcatEmptySeq
    <3>3. PostFields(d) = part BY <2>4, <2>8, <3>1, <3>2
    <3>4. k # 1
      <4> SUFFICES ASSUME k = 1 PROVE FALSE OBVIOUS
      <4>1. k - 1 = 0 OBVIOUS
      <4>2. E[0] = 0 BY <1>2 DEF EncodedCuts
      <4>3. a = 0 BY <4>1, <4>2 DEF a
      <4> QED BY <2>17, <4>3
    <3>5. k - 1 \in DOMAIN texts BY <1>4, <2>7, <3>4
    <3>6. FormRefused(PostFields(d)) \/ Encoded(PostFields(d)) = d BY <2>2, AcceptedIsEncoded
    <3>7. FormRefused(PostFields(d)) \/ d = Encoded(SubSeq(texts, 1, k - 1))
      BY <3>3, <3>6 DEF part
    <3> QED BY <3>5, <3>7 DEF d
  <2>18. CASE a # n
    <3>1. a < n /\ p # n + 1 BY <2>1, <2>9, <2>15, <2>18
    <3>2. \A j \in 1..(Len(x) + 3) : a + j <= n => d[a + j] = Block(x)[j]
      <4>1. \A j \in 1..(Len(x) + 3) : a + j <= n => a + j \in 1..n BY <2>1, <2>9, <2>14
      <4> QED BY <2>3, <2>10, <4>1
    <3>3. PostBad(d, p)
      <4> HIDE DEF p
      <4>1. /\ a < Len(d) /\ ~(a + (Len(x) + 3) <= Len(d))
            /\ \A j \in 1..(Len(x) + 3) : a + j <= Len(d) => d[a + j] = Block(x)[j]
        BY <2>3, <2>12, <3>1, <3>2
      <4> QED BY <2>2, <2>9, <2>11, <2>15, <4>1, BlockRead
    <3>4. r[p] = <<Null>>
      <4> HIDE DEF p
      <4> QED BY <2>3, <2>16, <3>1, <3>3 DEF PostFrom
    <3>5. PostFields(d) = part \o <<Null>> BY <2>4, <2>8, <3>4
    <3> DEFINE V == Seq(Bytes) \cup {Null}
               o == <<Null>>
    <3>6. part \in Seq(V)
      <4>1. \A i \in 1..Len(part) : part[i] \in V BY <2>13, ElementOfSeq DEF ShortTexts
      <4> HIDE DEF V
      <4> QED BY <2>13, <4>1, SeqOfElements
    <3>7. o \in Seq(V) /\ o # <<>> /\ Last(o) = Null BY DEF Last
    <3>8. PostFields(d) = part \o o BY <3>5
    <3> HIDE DEF V, o
    <3>9. part \o o # <<>> /\ Last(part \o o) = Last(o) BY <3>6, <3>7, LastBehind
    <3>10. FormRefused(PostFields(d)) BY <3>7, <3>8, <3>9 DEF FormRefused
    <3> QED BY <3>10 DEF d
  <2> QED BY <2>17, <2>18
<1> QED BY <1>3, <1>6, <1>7
------------------------------------------------------------------------------
(* What the run picks, and its properties.                                  *)

(* The texts that the run picks are sequences of the length they were       *)
(* picked for.                                                              *)
LEMMA TextsAreSequences ==
  ASSUME NEW S, NEW T, S \subseteq T, NEW m \in Nat, NEW n \in Nat
  PROVE  Texts(S, m, n) \subseteq Seq(T)
<1> SUFFICES ASSUME NEW k \in m..n, NEW s \in [1..k -> S] PROVE s \in Seq(T)
  BY DEF Texts
<1>1. k \in Nat /\ s \in [1..k -> T] OBVIOUS
<1> QED BY <1>1, FunctionIsSeq

(* Each Pick of the run takes inputs to which the theorem on its algorithm  *)
(* applies; the lemmas from here on say so one by one.                      *)
LEMMA BytesPicked ==
  ASSUME PickBytes
  PROVE  alg' = "base64" /\ in' \in Seq(Bytes)
<1>1. {0, 1, 77, 128, 255} \subseteq Bytes BY DEF Bytes
<1>2. Texts({0, 1, 77, 128, 255}, 0, 4) \subseteq Seq(Bytes) BY <1>1, TextsAreSequences
<1> QED BY <1>2 DEF PickBytes, Pick

LEMMA StringsAreChars == Strings \subseteq Seq(CharValues)
<1>1. {48, 57, 45, 65, 97, -61} \subseteq CharValues BY DEF CharValues
<1>2. {48, 57} \subseteq CharValues BY DEF CharValues
<1>3. Texts({48, 57, 45, 65, 97, -61}, 0, 2) \subseteq Seq(CharValues) BY <1>1, TextsAreSequences
<1>4. Texts({48, 57}, 3, 3) \subseteq Seq(CharValues) BY <1>2, TextsAreSequences
<1>5. /\ 57 \in CharValues /\ 48 \in CharValues /\ 97 \in CharValues /\ 127 \in CharValues
      /\ 10 \in CharValues /\ 95 \in CharValues /\ 90 \in CharValues
  BY DEF CharValues
<1>6. <<57, 48, 48, 97>> \in Seq(CharValues) BY <1>5
<1>7. <<48, 48, 48>> \in Seq(CharValues) BY <1>5
<1>8. <<127>> \in Seq(CharValues) BY <1>5
<1>9. <<10>> \in Seq(CharValues) BY <1>5
<1>10. <<95, 90>> \in Seq(CharValues) BY <1>5
<1> QED BY <1>3, <1>4, <1>6, <1>7, <1>8, <1>9, <1>10, ZenonT(30) DEF Strings

LEMMA StringsPicked ==
  ASSUME PickStrings
  PROVE  alg' = "sort" /\ in'[1] \in Strings /\ in'[2] \in Strings
<1>1. PICK a \in Strings, b \in Strings : alg' = "sort" /\ in' = <<a, b>>
  BY DEF PickStrings, Pick
<1> QED BY <1>1

LEMMA KeysArePasswords == Keys \subseteq Passwords
<1>1. {1, 163, 255} \subseteq 1..255 OBVIOUS
<1>2. Texts({1, 163, 255}, 0, 3) \subseteq Seq(1..255) BY <1>1, TextsAreSequences
<1>3. 1 \in 1..255 /\ 163 \in 1..255 /\ 51 \in 1..255 /\ 52 \in 1..255 /\ 255 \in 1..255 OBVIOUS
<1>4. <<255, 163, 51, 52, 255>> \in Seq(1..255) BY <1>3
<1>5. <<1, 1, 1, 1, 1, 1, 1, 163>> \in Seq(1..255) BY <1>3
<1>6. <<255, 255, 163, 52>> \in Seq(1..255) BY <1>3
<1>7. <<163, 52>> \in Seq(1..255) BY <1>3
<1>8. <<255, 52, 163, 52>> \in Seq(1..255) BY <1>3
<1>9. <<1, 255, 255, 255, 163>> \in Seq(1..255) BY <1>3
<1>10. <<52, 163>> \in Seq(1..255) BY <1>3
<1>11. SUFFICES ASSUME NEW k \in Keys PROVE k \in Seq(1..255)
  BY DEF Passwords
<1>12. \/ k \in Texts({1, 163, 255}, 0, 3)
       \/ k = <<255, 163, 51, 52, 255>> \/ k = <<1, 1, 1, 1, 1, 1, 1, 163>>
       \/ k = <<255, 255, 163, 52>> \/ k = <<163, 52>> \/ k = <<52, 163>>
       \/ k = <<255, 52, 163, 52>> \/ k = <<1, 255, 255, 255, 163>>
  BY <1>11, ZenonT(30) DEF Keys
<1>13. CASE k \in Texts({1, 163, 255}, 0, 3) BY <1>2, <1>13, Zenon
<1>14. CASE k = <<255, 163, 51, 52, 255>> BY <1>4, <1>14, Zenon
<1>15. CASE k = <<1, 1, 1, 1, 1, 1, 1, 163>> BY <1>5, <1>15, Zenon
<1>16. CASE k = <<255, 255, 163, 52>> BY <1>6, <1>16, Zenon
<1>17. CASE k = <<163, 52>> BY <1>7, <1>17, Zenon
<1>18. CASE k = <<52, 163>> BY <1>10, <1>18, Zenon
<1>19. CASE k = <<255, 52, 163, 52>> BY <1>8, <1>19, Zenon
<1>20. CASE k = <<1, 255, 255, 255, 163>> BY <1>9, <1>20, Zenon
<1> QED BY <1>12, <1>13, <1>14, <1>15, <1>16, <1>17, <1>18, <1>19, <1>20, ZenonT(30)

LEMMA KeysPicked ==
  ASSUME PickKeys
  PROVE  alg' = "keys" /\ in'[1] \in Passwords /\ in'[2] \in Passwords
<1>1. PICK a \in Keys, b \in Keys : alg' = "keys" /\ in' = <<a, b>>
  BY DEF PickKeys, Pick
<1> QED BY <1>1, KeysArePasswords

LEMMA RandomIsOctets == \A r \in Random16 : r \in Seq(Octets) /\ Len(r) = 16
<1>1. \A i \in 1..16 : (37 * i) % 256 \in Octets BY DEF Octets
<1>2. 0 \in Octets /\ 255 \in Octets BY DEF Octets
<1>3. [i \in 1..16 |-> 0] \in [1..16 -> Octets] BY <1>2
<1>4. [i \in 1..16 |-> 255] \in [1..16 -> Octets] BY <1>2
<1>5. [i \in 1..16 |-> (37 * i) % 256] \in [1..16 -> Octets] BY <1>1
<1>6. Random16 \subseteq [1..16 -> Octets] BY <1>3, <1>4, <1>5 DEF Random16
<1>7. PICK n \in Nat : n = 16 OBVIOUS
<1>8. \A r \in [1..n -> Octets] : r \in Seq(Octets) /\ Len(r) = n BY FunctionIsSeq
<1> QED BY <1>6, <1>7, <1>8

LEMMA PasswordsPicked ==
  ASSUME PickPasswords
  PROVE  /\ alg' = "passwords"
         /\ in'.a \in Passwords /\ in'.b \in Passwords /\ in'.work \in Int
         /\ in'.rand \in Seq(Octets) /\ Len(in'.rand) = 16
<1> DEFINE others == Texts({1, 163}, 0, 3) \cup {<<1, 1, 1, 1, 1, 1, 1, 1, 163>>}
<1>1. others \subseteq Passwords
  <2>1. {1, 163} \subseteq 1..255 OBVIOUS
  <2>2. Texts({1, 163}, 0, 3) \subseteq Seq(1..255) BY <2>1, TextsAreSequences
  <2>3. 1 \in 1..255 /\ 163 \in 1..255 OBVIOUS
  <2>4. <<1, 1, 1, 1, 1, 1, 1, 1, 163>> \in Seq(1..255) BY <2>3
  <2> QED BY <2>2, <2>4 DEF Passwords
<1>2. PICK a \in Keys, rand \in Random16, work \in {0, 12}, b \in others :
        alg' = "passwords" /\ in' = [a |-> a, b |-> b, rand |-> rand, work |-> work]
  BY DEF PickPasswords, Pick
<1> HIDE DEF others
<1>3. in'.a = a /\ in'.b = b /\ in'.rand = rand /\ in'.work = work BY <1>2
<1>4. rand \in Seq(Octets) /\ Len(rand) = 16 BY RandomIsOctets
<1>5. a \in Passwords /\ b \in Passwords BY <1>1, KeysArePasswords
<1>6. work \in Int OBVIOUS
<1>7. alg' = "passwords" BY <1>2
<1> QED BY <1>3, <1>4, <1>5, <1>6, <1>7

Strands == {"$2", "*0", "*1", "$1", "a", "b", "c", "x", "y"}

LEMMA SettingPicked ==
  ASSUME PickSetting
  PROVE  /\ alg' = "setting"
         /\ in'.setting \in SettingTexts(Strands, {NULL}) /\ in'.size \in Nat
<1> DEFINE salts == {[i \in 1..22 |-> 5], [i \in 1..22 |-> 63],
                     [i \in 1..22 |-> IF i = 9 THEN NoLetter ELSE 1]}
<1>1. salts \subseteq [1..22 -> 0..NoLetter]
  BY SMTT(30) DEF NoLetter
<1>2. PICK prefix \in {"$2", "*0", "*1", "$1"}, t \in {"a", "b", "c", "x", "y"},
           cost \in {3, 4, 31, 32}, size \in {2, 3, 60, 61}, salt \in salts :
        /\ alg' = "setting"
        /\ in' = [setting |-> [prefix |-> prefix, subtype |-> t, cost |-> cost,
                               salt |-> salt, hash |-> NULL],
                  size |-> size]
  BY DEF PickSetting, Pick
<1> HIDE DEF salts
<1>3. /\ in'.setting = [prefix |-> prefix, subtype |-> t, cost |-> cost,
                        salt |-> salt, hash |-> NULL]
      /\ in'.size = size
  BY <1>2
<1>4. cost \in Nat /\ size \in Nat OBVIOUS
<1>5. prefix \in Strands /\ t \in Strands BY DEF Strands
<1>6. in'.setting \in SettingTexts(Strands, {NULL})
  BY <1>1, <1>3, <1>4, <1>5 DEF SettingTexts
<1> QED BY <1>2, <1>3, <1>4, <1>6

(* Payloads that count upwards are bytes.                                   *)
LEMMA CountingBytes ==
  ASSUME NEW n \in Nat
  PROVE  [i \in 1..n |-> i % 256] \in Seq(Bytes) /\ Len([i \in 1..n |-> i % 256]) = n
<1> DEFINE s == [i \in 1..n |-> i % 256]
<1>1. \A i \in 1..n : i % 256 \in Bytes BY DEF Bytes
<1>2. s \in [1..n -> Bytes] BY <1>1
<1> HIDE DEF s
<1>3. s \in Seq(Bytes) /\ Len(s) = n BY <1>2, FunctionIsSeq
<1> QED BY <1>3 DEF s

(* The forms in which a frame may give its length.                          *)
LEMMA FormsOf ==
  ASSUME NEW n \in Nat
  PROVE  /\ n < 126 => n < Huge /\ \A f \in {7, 16, 64} : f \in Forms(n)
         /\ n < 65536 => n < Huge /\ \A f \in {16, 64} : f \in Forms(n)
BY SMT DEF Forms, Huge

LEMMA PathPicked ==
  ASSUME PickPath
  PROVE  alg' = "path" /\ in' \in Seq(AnyChars)
<1>1. {"a", ".", "/", "%"} \subseteq AnyChars BY DEF AnyChars, PathChars
<1>2. Texts({"a", ".", "/", "%"}, 0, 6) \subseteq Seq(AnyChars) BY <1>1, TextsAreSequences
<1> QED BY <1>2 DEF PickPath, Pick

LEMMA FramePicked ==
  ASSUME PickFrame
  PROVE  /\ alg' = "frame"
         /\ in'[1] \in Opcodes /\ in'[2] \in Seq(Bytes) /\ Len(in'[2]) < Huge
         /\ in'[3] \in Masks /\ in'[4] \in Forms(Len(in'[2])) /\ in'[5] \in Seq(Bytes)
<1> DEFINE masks == {<<0, 0, 0, 0>>, <<255, 255, 255, 255>>, <<0, 255, 7, 128>>}
<1>1. masks \subseteq Masks
  <2>1. 0 \in Bytes /\ 255 \in Bytes /\ 7 \in Bytes /\ 128 \in Bytes BY DEF Bytes
  <2>2. <<0, 0, 0, 0>> \in Masks BY <2>1 DEF Masks
  <2>3. <<255, 255, 255, 255>> \in Masks BY <2>1 DEF Masks
  <2>4. <<0, 255, 7, 128>> \in Masks BY <2>1, SMTT(30) DEF Masks
  <2> QED BY <2>2, <2>3, <2>4
<1>2. PICK opcode \in {TEXT, CLOSE, PONG}, x \in {0, 129}, mask \in masks :
        LET behind == [i \in 1..14 |-> x]
        IN  \/ \E payload \in Texts({0, 255, 66}, 0, 3), form \in {7, 16, 64} :
                 alg' = "frame" /\ in' = <<opcode, payload, mask, form, behind>>
            \/ \E n \in {126, 255, 256, 300}, form \in {16, 64} :
                 alg' = "frame" /\ in' = <<opcode, [i \in 1..n |-> i % 256], mask, form, behind>>
  BY DEF PickFrame, Pick
<1> DEFINE behind == [i \in 1..14 |-> x]
           Got(p, f) == /\ p \in Seq(Bytes) /\ Len(p) < Huge /\ f \in Forms(Len(p))
                        /\ alg' = "frame" /\ in' = <<opcode, p, mask, f, behind>>
           Framed == \E p, f : Got(p, f)
<1>3. Framed
  <2>1. \/ \E payload \in Texts({0, 255, 66}, 0, 3), form \in {7, 16, 64} :
             alg' = "frame" /\ in' = <<opcode, payload, mask, form, behind>>
        \/ \E n \in {126, 255, 256, 300}, form \in {16, 64} :
             alg' = "frame" /\ in' = <<opcode, [i \in 1..n |-> i % 256], mask, form, behind>>
    BY <1>2
  <2>2. CASE \E payload \in Texts({0, 255, 66}, 0, 3), form \in {7, 16, 64} :
               alg' = "frame" /\ in' = <<opcode, payload, mask, form, behind>>
    <3>0. PICK payload \in Texts({0, 255, 66}, 0, 3), form \in {7, 16, 64} :
            alg' = "frame" /\ in' = <<opcode, payload, mask, form, behind>>
      BY <2>2
    <3>1. {0, 255, 66} \subseteq Bytes BY DEF Bytes
    <3>2. payload \in Seq(Bytes) BY <3>1, TextsAreSequences
    <3>3. Len(payload) \in 0..3
      <4>1. PICK k \in 0..3 : payload \in [1..k -> {0, 255, 66}] BY DEF Texts
      <4>2. k \in Nat OBVIOUS
      <4>3. Len(payload) = k BY <4>1, <4>2, FunctionIsSeq
      <4> QED BY <4>3
    <3>4. form \in Forms(Len(payload)) /\ Len(payload) < Huge
      <4>1. PICK l \in 0..3 : Len(payload) = l BY <3>3
      <4>2. l \in Nat /\ l < 126 OBVIOUS
      <4> QED BY <4>1, <4>2, FormsOf
    <3>5. Got(payload, form) BY <3>0, <3>2, <3>4
    <3> HIDE DEF Got
    <3> QED BY <3>5
  <2>3. CASE \E n \in {126, 255, 256, 300}, form \in {16, 64} :
               alg' = "frame" /\ in' = <<opcode, [i \in 1..n |-> i % 256], mask, form, behind>>
    <3>0. PICK n \in {126, 255, 256, 300}, form \in {16, 64} :
            alg' = "frame" /\ in' = <<opcode, [i \in 1..n |-> i % 256], mask, form, behind>>
      BY <2>3
    <3> DEFINE payload == [i \in 1..n |-> i % 256]
    <3>1. n \in Nat OBVIOUS
    <3>2. payload \in Seq(Bytes) /\ Len(payload) = n BY <3>1, CountingBytes
    <3>3. alg' = "frame" /\ in' = <<opcode, payload, mask, form, behind>> BY <3>0
    <3>4. n < 65536 OBVIOUS
    <3>5. form \in Forms(n) /\ n < Huge BY <3>1, <3>4, FormsOf
    <3> HIDE DEF payload, behind
    <3>6. Got(payload, form) BY <3>2, <3>3, <3>5
    <3> HIDE DEF Got
    <3> QED BY <3>6
  <2> HIDE DEF behind, Framed
  <2> QED BY <2>1, <2>2, <2>3, Zenon
<1>4. behind \in Seq(Bytes)
  <2>1. x \in Bytes BY DEF Bytes
  <2>2. behind \in [1..14 -> Bytes] BY <2>1
  <2>3. 14 \in Nat OBVIOUS
  <2> HIDE DEF behind
  <2>4. PICK k \in Nat : k = 14 OBVIOUS
  <2>5. behind \in [1..k -> Bytes] BY <2>2, <2>4
  <2> QED BY <2>5, FunctionIsSeq
<1>5. opcode \in Opcodes BY DEF Opcodes, TEXT, CLOSE, PONG
<1>6. mask \in Masks BY <1>1
<1>7. PICK payload, form : Got(payload, form) BY <1>3
<1>8. /\ alg' = "frame" /\ in'[1] = opcode /\ in'[2] = payload /\ in'[3] = mask
      /\ in'[4] = form /\ in'[5] = behind
  <2> HIDE DEF behind
  <2> QED BY <1>7
<1>9. payload \in Seq(Bytes) /\ Len(payload) < Huge /\ form \in Forms(Len(payload)) BY <1>7
<1> HIDE DEF behind, masks, Got
<1> QED BY <1>4, <1>5, <1>6, <1>8, <1>9

LEMMA ReplyPicked ==
  ASSUME PickReply
  PROVE  /\ alg' = "reply"
         /\ in'[1] \in Opcodes /\ in'[2] \in Seq(Bytes) /\ Len(in'[2]) < Limit
         /\ in'[3] \in Nat
<1>1. PICK n \in {0, 1, 4, 125, 126, 127, 128, 255, 256, 257, 290}, opcode \in {TEXT, PING} :
        Pick("reply", <<opcode, [i \in 1..n |-> i % 256], 300>>)
  BY DEF PickReply
<1> DEFINE message == [i \in 1..n |-> i % 256]
<1>2. n \in Nat /\ n < Limit BY SMT DEF Limit
<1>3. message \in Seq(Bytes) /\ Len(message) = n BY <1>2, CountingBytes
<1>4. opcode \in Opcodes BY DEF Opcodes, TEXT, PING
<1>5. Pick("reply", <<opcode, message, 300>>) BY <1>1
<1> HIDE DEF message
<1>6. alg' = "reply" /\ in'[1] = opcode /\ in'[2] = message /\ in'[3] = 300
  BY <1>5 DEF Pick
<1> QED BY <1>2, <1>3, <1>4, <1>6

LEMMA FormPicked ==
  ASSUME PickForm
  PROVE  alg' = "form" /\ in' \in Seq(FormLetters)
<1>1. Texts(FormLetters, 0, 5) \subseteq Seq(FormLetters) BY TextsAreSequences
<1> QED BY <1>1 DEF PickForm, Pick

LEMMA PostPicked ==
  ASSUME PickPost
  PROVE  alg' = "post" /\ in' \in Seq(Bytes)
<1>1. {0, 1, 2, 3} \subseteq Bytes BY DEF Bytes
<1>2. Texts({0, 1, 2, 3}, 0, 6) \subseteq Seq(Bytes) BY <1>1, TextsAreSequences
<1> QED BY <1>2 DEF PickPost, Pick

LEMMA ShortText ==
  ASSUME NEW g \in Seq(Bytes), Len(g) < 65536
  PROVE  g \in ShortTexts
BY DEF ShortTexts

LEMMA ShortFunction ==
  ASSUME NEW n \in Nat, n < 65536, NEW g \in [1..n -> Bytes]
  PROVE  g \in ShortTexts
<1>1. g \in Seq(Bytes) /\ Len(g) = n BY FunctionIsSeq
<1>2. Len(g) < 65536 BY <1>1
<1>3. g \in Seq(Bytes) BY <1>1
<1> QED BY <1>2, <1>3, ShortText

Threes(n) == [i \in 1..n |-> 3]

LEMMA ThreesShort ==
  ASSUME NEW n \in Nat, n < 65536
  PROVE  Threes(n) \in ShortTexts
<1> DEFINE g == Threes(n)
<1>1. 3 \in Bytes BY DEF Bytes
<1>2. g \in [1..n -> Bytes] BY <1>1 DEF Threes
<1> HIDE DEF g
<1>3. g \in ShortTexts BY <1>2, ShortFunction
<1> QED BY <1>3 DEF g

LEMMA PostTextsPicked ==
  ASSUME PickPostTexts
  PROVE  alg' = "fields" /\ in' \in Seq(ShortTexts)
<1> DEFINE long == Threes(256)
<1>1. 0 \in Bytes /\ 1 \in Bytes /\ 2 \in Bytes /\ 3 \in Bytes BY DEF Bytes
<1>2. <<>> \in ShortTexts
  <2>1. <<>> \in Seq(Bytes) /\ Len(<<>>) = 0 OBVIOUS
  <2> QED BY <2>1 DEF ShortTexts
<1>3. <<1>> \in ShortTexts
  <2>1. <<1>> \in Seq(Bytes) /\ Len(<<1>>) = 1 BY <1>1
  <2> QED BY <2>1 DEF ShortTexts
<1>4. <<0, 2>> \in ShortTexts
  <2>1. <<0, 2>> \in Seq(Bytes) /\ Len(<<0, 2>>) = 2 BY <1>1
  <2> QED BY <2>1 DEF ShortTexts
<1>5. long \in ShortTexts
  <2>1. 256 \in Nat /\ 256 < 65536 OBVIOUS
  <2> QED BY <2>1, ThreesShort
<1>6. {<<>>, <<1>>, <<0, 2>>, long} \subseteq ShortTexts BY <1>2, <1>3, <1>4, <1>5
<1>7. Texts({<<>>, <<1>>, <<0, 2>>, long}, 0, 3) \subseteq Seq(ShortTexts)
  <2> DEFINE G == {<<>>, <<1>>, <<0, 2>>, long}
  <2>1. G \subseteq ShortTexts BY <1>6
  <2> HIDE DEF G
  <2>2. Texts(G, 0, 3) \subseteq Seq(ShortTexts) BY <2>1, TextsAreSequences
  <2> QED BY <2>2 DEF G
<1>8. PickPostTexts => \E s \in Texts({<<>>, <<1>>, <<0, 2>>, long}, 0, 3) : Pick("fields", s)
  BY DEF PickPostTexts, Threes
<1> HIDE DEF long
<1> QED BY <1>7, <1>8 DEF Pick

(* The requests of the run are well written.                                *)
LEMMA RequestsWellWritten ==
  ASSUME NEW q \in Requests
  PROVE  WellWritten(q, Alphabet)
<1> DEFINE M == Plain(Alphabet)
           F == FieldsOf(M)
<1>1. Words \subseteq M /\ ":" \in M /\ SP \in M
  <2>1. Words \cap Controls = {} BY AlphabetAssumption DEF Words, Controls, Invalid, CR, LF
  <2> QED BY <2>1, LetterApart DEF Plain, Alphabet
<1>2. /\ "/" \in M /\ "x" \in M /\ "GET" \in M /\ "POST" \in M /\ "HTTP" \in M
      /\ "Content-Length" \in M /\ "Cookie" \in M
      /\ \A n \in {"0", "2", "3", "4", "9"} : n \in M
  BY <1>1 DEF Words
<1>3. SP \notin Words /\ ":" \notin Words BY DEF Words, SP
<1> HIDE DEF M
<1>4. /\ \A x \in Words \cup {":"} : x \in M \ {SP} /\ <<x>> \in Seq(M \ {SP})
      /\ \A x \in Words : x \in M \ {":"} /\ <<x>> \in Seq(M \ {":"})
  <2>1. \A x \in Words \cup {":"} : x \in M \ {SP} BY <1>1, <1>3 DEF SP
  <2>2. \A x \in Words : x \in M \ {":"} BY <1>1, <1>3
  <2> QED BY <2>1, <2>2
<1>5. q.method \in Seq(M \ {SP}) /\ q.protocol \in Seq(M \ {SP})
  <2>1. q.method = <<"GET">> \/ q.method = <<"POST">> BY DEF Requests
  <2>2. q.protocol = <<"HTTP">> BY DEF Requests
  <2>3. "GET" \in Words /\ "POST" \in Words /\ "HTTP" \in Words BY DEF Words
  <2> QED BY <2>1, <2>2, <2>3, <1>4
<1>6. q.path \in Seq(M) /\ q.path # <<>> /\ q.path[1] = "/"
  <2>1. q.path = <<"/">> \/ q.path = <<"/", "x", SP, "x">> BY DEF Requests
  <2>2. <<"/">> \in Seq(M) /\ <<"/">> # <<>> /\ <<"/">>[1] = "/" BY <1>2
  <2> DEFINE p == <<"/", "x", SP, "x">>
  <2>3. p \in Seq(M) /\ p # <<>> /\ p[1] = "/" BY <1>1, <1>2
  <2> HIDE DEF p
  <2>4. q.path = <<"/">> \/ q.path = p BY <2>1 DEF p
  <2> QED BY <2>2, <2>3, <2>4
<1>7. q.eol \in LineEndings BY DEF Requests, LineEndings
<1>8. ASSUME NEW f \in Fields PROVE f \in F
  <2>1. <<>> \in Seq({SP}) /\ <<SP, SP>> \in Seq({SP}) OBVIOUS
  <2>2. ASSUME NEW name \in Seq(M \ {":"}), NEW value \in Seq(M), NEW blanks \in Seq({SP}),
               value[1] # SP
        PROVE  <<name, value, blanks>> \in F
    BY <2>2 DEF FieldsOf
  <2> HIDE DEF F
  <2>3. CASE f = <<<<"Cookie">>, <<"x", ":", "x">>, <<>>>>
    <3> DEFINE v == <<"x", ":", "x">>
    <3>1. v \in Seq(M) /\ v[1] = "x" BY <1>1, <1>2
    <3>2. "x" # SP BY DEF SP
    <3>3. <<"Cookie">> \in Seq(M \ {":"})
      <4>1. "Cookie" \in Words BY DEF Words
      <4> QED BY <4>1, <1>4
    <3> HIDE DEF v
    <3>4. <<<<"Cookie">>, v, <<>>>> \in F BY <3>1, <3>2, <3>3, <2>1, <2>2
    <3> QED BY <3>4, <2>3 DEF v
  <2>4. ASSUME NEW n \in {"0", "2", "3", "4", "9"}, NEW blanks \in {<<>>, <<SP, SP>>},
               f = <<<<"Content-Length">>, <<n>>, blanks>>
        PROVE  f \in F
    <3>1. n \in Words /\ "Content-Length" \in Words BY DEF Words
    <3>2. <<"Content-Length">> \in Seq(M \ {":"}) BY <3>1, <1>4
    <3> DEFINE v == <<n>>
    <3>3. v \in Seq(M) /\ v[1] # SP BY <3>1, <1>1, <1>3
    <3>4. blanks \in Seq({SP}) BY <2>1
    <3> HIDE DEF v
    <3>5. <<<<"Content-Length">>, v, blanks>> \in F BY <3>2, <3>3, <3>4, <2>2
    <3> QED BY <3>5, <2>4 DEF v
  <2> QED BY <2>3, <2>4 DEF Fields
<1>9. q.header \in Seq(F)
  <2>1. PICK n \in 0..2 : q.header \in [1..n -> Fields] BY DEF Requests, Texts
  <2> HIDE DEF F
  <2>2. q.header \in [1..n -> F] /\ n \in Nat BY <2>1, <1>8
  <2> QED BY <2>2, FunctionIsSeq
<1> QED BY <1>5, <1>6, <1>7, <1>9 DEF WellWritten, M

(* A request as its client writes it is a text of the alphabet.             *)
LEMMA WrittenTyped ==
  ASSUME NEW q \in Requests
  PROVE  Written(q) \in Seq(Alphabet)
<1>1. {SP, ":", CR, LF} \subseteq Alphabet BY DEF Alphabet
<1> QED BY <1>1, RequestsWellWritten, WrittenParsed

LEMMA ReadPicked ==
  ASSUME PickRead
  PROVE  alg' = "read" /\ in'.sent \in Seq(Alphabet) /\ in'.short \in Nat
<1>1. PICK q \in Requests, body \in {<<>>, <<"x", "x", "x">>}, short \in {0, 1, 9} :
        LET sent == Written(q) \o body
        IN  \E n \in 1..Len(sent), c \in {LF, CR, NUL, SP} :
              /\ alg' = "read"
              /\ in' = [sent |-> [sent EXCEPT ![n] = c], short |-> short]
  BY DEF PickRead, Pick
<1> DEFINE sent == Written(q) \o body
<1>2. body \in Seq(Alphabet)
  <2>1. "x" \in Alphabet BY DEF Alphabet, Words
  <2>2. <<"x", "x", "x">> \in Seq(Alphabet) BY <2>1
  <2>3. <<>> \in Seq(Alphabet) OBVIOUS
  <2> QED BY <2>2, <2>3
<1>3. sent \in Seq(Alphabet) BY <1>2, WrittenTyped, ConcatProperties
<1>4. PICK n \in 1..Len(sent), c \in {LF, CR, NUL, SP} :
        alg' = "read" /\ in' = [sent |-> [sent EXCEPT ![n] = c], short |-> short]
  BY <1>1
<1> HIDE DEF sent
<1>5. c \in Alphabet BY DEF Alphabet, Words
<1>6. [sent EXCEPT ![n] = c] \in Seq(Alphabet)
  <2> DEFINE t == [sent EXCEPT ![n] = c]
  <2>1. sent \in [1..Len(sent) -> Alphabet] /\ Len(sent) \in Nat BY <1>3, LenProperties
  <2>2. t \in [1..Len(sent) -> Alphabet] BY <1>5, <2>1
  <2> HIDE DEF t
  <2>3. t \in Seq(Alphabet) BY <2>1, <2>2, SeqDef
  <2> QED BY <2>3 DEF t
<1>7. in'.sent = [sent EXCEPT ![n] = c] /\ in'.short = short /\ alg' = "read" BY <1>4
<1>8. short \in Nat OBVIOUS
<1> QED BY <1>6, <1>7, <1>8

LEMMA CutPicked ==
  ASSUME PickCut
  PROVE  alg' = "read" /\ in'.sent \in Seq(Alphabet) /\ in'.short \in Nat
<1>1. PICK q \in Requests : \E n \in 1..Len(Written(q)) :
        alg' = "read" /\ in' = [sent |-> SubSeq(Written(q), 1, n), short |-> 9]
  BY DEF PickCut, Pick
<1>2. PICK n \in 1..Len(Written(q)) :
        alg' = "read" /\ in' = [sent |-> SubSeq(Written(q), 1, n), short |-> 9]
  BY <1>1
<1>3. Written(q) \in Seq(Alphabet) BY WrittenTyped
<1> DEFINE w == Written(q)
<1>4. in'.sent = SubSeq(w, 1, n) /\ in'.short = 9 /\ alg' = "read" BY <1>2
<1> HIDE DEF w
<1>5. w \in Seq(Alphabet) /\ n \in 1..Len(w) BY <1>3 DEF w
<1>6. PICK one \in Nat : one = 1 OBVIOUS
<1>7. one \in 1..(Len(w) + 1) /\ n \in 0..Len(w) /\ one <= n + 1 BY <1>5, <1>6, LenProperties
<1>8. SubSeq(w, one, n) \in Seq(Alphabet) BY <1>5, <1>7, PartIs
<1> QED BY <1>4, <1>6, <1>8

(* What earlier requests left is a text of the alphabet as long as the      *)
(* buffer.                                                                  *)
LEMMA StalesTyped ==
  Stales \in SUBSET Seq(Alphabet) /\ \A s \in Stales : Len(s) = Size
<1>1. NUL \in Alphabet /\ LF \in Alphabet /\ "x" \in Alphabet BY DEF Alphabet, Words
<1>2. Size \in Nat BY RequestAssumption
<1>3. [i \in 1..Size |-> NUL] \in [1..Size -> Alphabet] BY <1>1
<1>4. [i \in 1..Size |-> LF] \in [1..Size -> Alphabet] BY <1>1
<1>5. [i \in 1..Size |-> IF i % 5 = 0 THEN LF ELSE "x"] \in [1..Size -> Alphabet] BY <1>1
<1>6. Stales \subseteq [1..Size -> Alphabet] BY <1>3, <1>4, <1>5 DEF Stales
<1>7. \A s \in [1..Size -> Alphabet] : s \in Seq(Alphabet) /\ Len(s) = Size
  BY <1>2, FunctionIsSeq
<1> QED BY <1>6, <1>7

LEMMA RequestPicked ==
  ASSUME PickRequest
  PROVE  /\ alg' = "request" /\ in'.q \in Requests /\ in'.body \in Seq(Alphabet)
         /\ in'.stale \in Seq(Alphabet) /\ Len(in'.stale) = Size
<1>1. PICK q \in Requests, stale \in Stales,
           body \in Texts({"x", LF}, 0, 1) \cup
                   {<<"x", "x", "x">>, <<"x", LF, "x", "x", "x">>} :
        alg' = "request" /\ in' = [q |-> q, body |-> body, stale |-> stale]
  BY DEF PickRequest, Pick
<1>2. "x" \in Alphabet /\ LF \in Alphabet BY DEF Alphabet, Words
<1>3. body \in Seq(Alphabet)
  <2>1. CASE body \in Texts({"x", LF}, 0, 1)
    <3>1. PICK k \in 0..1 : body \in [1..k -> {"x", LF}] BY <2>1 DEF Texts
    <3>2. body \in [1..k -> Alphabet] /\ k \in Nat BY <3>1, <1>2
    <3> QED BY <3>2, FunctionIsSeq
  <2>2. CASE body = <<"x", "x", "x">> BY <2>2, <1>2
  <2>3. CASE body = <<"x", LF, "x", "x", "x">> BY <2>3, <1>2
  <2> QED BY <2>1, <2>2, <2>3
<1>4. stale \in Seq(Alphabet) /\ Len(stale) = Size BY StalesTyped
<1>5. in'.q = q /\ in'.body = body /\ in'.stale = stale BY <1>1
<1> QED BY <1>1, <1>3, <1>4, <1>5

LEMMA MimesPicked ==
  ASSUME PickMimes
  PROVE  alg' = "mimes" /\ in' \in Seq(MimeLetters)
<1>1. PICK s \in Texts(MimeLetters, 0, 5) : alg' = "mimes" /\ in' = s
  BY DEF PickMimes, Pick
<1>2. s \in Seq(MimeLetters)
  <2> HIDE DEF MimeLetters
  <2>1. PICK k \in 0..5 : s \in [1..k -> MimeLetters] BY DEF Texts
  <2>2. k \in Nat OBVIOUS
  <2> QED BY <2>1, <2>2, FunctionIsSeq
<1> QED BY <1>1, <1>2

(* What the run picks satisfies the hypotheses of the theorems. *)
Picked ==
  /\ alg = "base64" => in \in Seq(Bytes)
  /\ alg = "sort" => in[1] \in Strings /\ in[2] \in Strings
  /\ alg = "request" =>
       /\ in.q \in Requests /\ in.body \in Seq(Alphabet)
       /\ in.stale \in Seq(Alphabet) /\ Len(in.stale) = Size
  /\ alg = "read" => in.sent \in Seq(Alphabet) /\ in.short \in Nat
  /\ alg = "form" => in \in Seq(FormLetters)
  /\ alg = "post" => in \in Seq(Bytes)
  /\ alg = "fields" => in \in Seq(ShortTexts)
  /\ alg = "path" => in \in Seq(AnyChars)
  /\ alg = "mimes" => in \in Seq(MimeLetters)
  /\ alg = "frame" =>
       /\ in[1] \in Opcodes /\ in[2] \in Seq(Bytes) /\ Len(in[2]) < Huge
       /\ in[3] \in Masks /\ in[4] \in Forms(Len(in[2])) /\ in[5] \in Seq(Bytes)
  /\ alg = "reply" =>
       /\ in[1] \in Opcodes /\ in[2] \in Seq(Bytes) /\ Len(in[2]) < Limit
       /\ in[3] \in Nat
  /\ alg = "passwords" =>
       /\ in.a \in Passwords /\ in.b \in Passwords /\ in.work \in Int
       /\ in.rand \in Seq(Octets) /\ Len(in.rand) = 16
  /\ alg = "keys" => in[1] \in Passwords /\ in[2] \in Passwords
  /\ alg = "setting" =>
       in.setting \in SettingTexts(Strands, {NULL}) /\ in.size \in Nat

(* The run picks nothing else.                                              *)
LEMMA AlwaysPicked == Spec => []Picked
<1>1. Init => Picked
  BY DEF Init, Picked
<1>2. Picked /\ [Next]_<<alg, in>> => Picked'
  <2> SUFFICES ASSUME Picked, [Next]_<<alg, in>> PROVE Picked'
    OBVIOUS
  <2>1. CASE PickBytes
    BY <2>1, BytesPicked DEF Picked
  <2>2. CASE PickStrings
    BY <2>2, StringsPicked DEF Picked
  <2>3. CASE PickRead
    BY <2>3, ReadPicked DEF Picked
  <2>4. CASE PickCut
    BY <2>4, CutPicked DEF Picked
  <2>5. CASE PickFrame
    BY <2>5, FramePicked DEF Picked
  <2>6. CASE PickReply
    BY <2>6, ReplyPicked DEF Picked
  <2>7. CASE PickPasswords
    BY <2>7, PasswordsPicked DEF Picked
  <2>8. CASE PickKeys
    BY <2>8, KeysPicked DEF Picked
  <2>9. CASE PickSetting
    BY <2>9, SettingPicked DEF Picked
  <2>10. CASE PickRequest
    BY <2>10, RequestPicked DEF Picked
  <2>11. CASE PickForm
    BY <2>11, FormPicked DEF Picked
  <2>12. CASE PickPost
    BY <2>12, PostPicked DEF Picked
  <2>13. CASE PickPostTexts
    BY <2>13, PostTextsPicked DEF Picked
  <2>14. CASE PickAccept
    BY <2>14 DEF PickAccept, Pick, Picked
  <2>15. CASE PickList
    BY <2>15 DEF PickList, Pick, Picked
  <2>16. CASE PickHandshake
    BY <2>16 DEF PickHandshake, Pick, Picked
  <2>17. CASE PickPath
    BY <2>17, PathPicked DEF Picked
  <2>18. CASE PickMimes
    BY <2>18, MimesPicked DEF Picked
  <2>19. CASE UNCHANGED <<alg, in>>
    BY <2>19 DEF Picked
  <2> QED
    BY <2>1, <2>2, <2>3, <2>4, <2>5, <2>6, <2>7, <2>8, <2>9, <2>10, <2>11, <2>12, <2>13,
       <2>14, <2>15, <2>16, <2>17, <2>18, <2>19 DEF Next
<1> QED
  BY <1>1, <1>2, PTL DEF Spec

(* base64_decode() gives every sequence of bytes that base64_encode() took  *)
(* back, with a zero for each '=', and stays inside its vector.             *)
THEOREM Base64Holds ==
  /\ \A s \in Seq(Bytes) : Base64RoundTrip(s)
  /\ Spec => []Base64Exact
<1>1. \A s \in Seq(Bytes) : Base64RoundTrip(s)
  BY Base64RoundTrips
<1>2. Picked => Base64Exact
  BY <1>1 DEF Picked, Base64Exact
<1> QED
  BY <1>1, <1>2, AlwaysPicked, PTL

(* lex_str_less() orders any strings weakly, as std::sort() requires,       *)
(* whatever number is the largest that std::from_chars() reads.             *)
THEOREM SortOrderHolds ==
  /\ \A strings \in SUBSET Seq(CharValues), UMax \in Nat :
       \A a, b \in strings : StrictWeakOrder(a, b, strings, UMax)
  /\ Spec => []SortOrder
<1>1. \A strings \in SUBSET Seq(CharValues) :
       \A a, b \in strings : \A UMax : StrictWeakOrder(a, b, strings, UMax)
  BY LessIsStrictWeakOrder
<1>2. \A strings \in SUBSET Seq(CharValues), UMax \in Nat :
       \A a, b \in strings : StrictWeakOrder(a, b, strings, UMax)
  BY <1>1
<1>3. Picked => SortOrder
  BY <1>1, StringsAreChars DEF Picked, SortOrder
<1> QED
  BY <1>2, <1>3, AlwaysPicked, PTL

(* http::request reads every request that a client writes well as it was    *)
(* written, for any letters, length, end of lines and blanks before values, *)
(* whatever the buffer held: its line, its fields in order and its body.    *)
THEOREM RequestsReadHolds ==
  /\ \A S : {SP, ":", CR, LF} \subseteq S =>
       \A q : WellWritten(q, S) =>
         \A body, stale \in Seq(S) : Len(stale) = Size => ReadAsWritten(q, body, stale)
  /\ Spec => []RequestsRead
<1>1. \A S : {SP, ":", CR, LF} \subseteq S =>
       \A q : WellWritten(q, S) =>
         \A body, stale \in Seq(S) : Len(stale) = Size => ReadAsWritten(q, body, stale)
  BY EveryRequestRead
<1>2. Picked => RequestsRead
  <2> SUFFICES ASSUME Picked, alg = "request" PROVE ReadAsWritten(in.q, in.body, in.stale)
    BY DEF RequestsRead
  <2>1. /\ in.q \in Requests /\ in.body \in Seq(Alphabet)
        /\ in.stale \in Seq(Alphabet) /\ Len(in.stale) = Size
    BY DEF Picked
  <2>2. WellWritten(in.q, Alphabet)
    BY <2>1, RequestsWellWritten
  <2>3. {SP, ":", CR, LF} \subseteq Alphabet
    BY DEF Alphabet
  <2> QED
    BY <1>1, <2>1, <2>2, <2>3
<1> QED
  BY <1>1, <1>2, AlwaysPicked, PTL

(* form_data reads any text as the pieces between '&' that it is made of,   *)
(* with a path and a '?' before it or without; post_form_data() accepts     *)
(* only what encodes some texts, gives those back, and takes what was cut   *)
(* off for whole only between two of them.                                  *)
THEOREM FormsReadHolds ==
  /\ \A S : {"/", "a", "?", NUL} \subseteq S /\ Null \notin Seq(S) =>
       \A str \in Seq(S) : FormAsPieces(str)
  /\ \A data \in Seq(Bytes) : \A fields : PostFormExact(data, fields)
  /\ \A texts \in Seq(ShortTexts) : PostFormRoundTrip(texts)
  /\ Spec => []FormsRead
<1>1. \A S : {"/", "a", "?", NUL} \subseteq S /\ Null \notin Seq(S) =>
       \A str \in Seq(S) : FormAsPieces(str)
  BY FormsArePieces
<1>2. \A data \in Seq(Bytes) : \A fields : PostFormExact(data, fields)
  BY PostFormsExact
<1>3. \A texts \in Seq(ShortTexts) : PostFormRoundTrip(texts)
  BY PostFormsRead
<1>4. Picked => FormsRead
  <2> DEFINE S == FormLetters \cup {"/"}
  <2>1. {"/", "a", "?", NUL} \subseteq S
    BY DEF FormLetters
  <2>2. Null \notin Seq(S)
    BY NullTextAssumption
  <2>3. \A str \in Seq(FormLetters) : str \in Seq(S)
    <3> SUFFICES ASSUME NEW str \in Seq(FormLetters) PROVE str \in Seq(S)
      OBVIOUS
    <3>1. \A i \in 1..Len(str) : str[i] \in S
      BY ElementOfSeq
    <3> HIDE DEF S
    <3> QED
      BY <3>1, SeqOfElements
  <2> HIDE DEF S
  <2>4. Picked /\ alg = "form" => FormAsPieces(in)
    BY <1>1, <2>1, <2>2, <2>3 DEF Picked
  <2>5. Picked /\ alg = "post" => PostFormExact(in, <<<<1>>, <<2>>>>)
    BY <1>2 DEF Picked
  <2>6. Picked /\ alg = "fields" => PostFormRoundTrip(in)
    BY <1>3 DEF Picked
  <2> QED
    BY <2>4, <2>5, <2>6 DEF FormsRead
<1> QED
  BY <1>1, <1>2, <1>3, <1>4, AlwaysPicked, PTL

(* What an earlier request left in the worker's buffer has no influence on  *)
(* one whose header was read whole, whatever was sent and left: the scan    *)
(* stops at the empty line, and the body ends where the read did.           *)
THEOREM StaleHarmlessHolds ==
  /\ \A S : \A sent \in Seq(S), nread \in 0..Size, stales \in SUBSET Seq(S), short \in Nat :
       nread <= Len(sent) /\ (\A s \in stales : Len(s) = Size) =>
         StaleIgnored(sent, nread, short, stales)
  /\ Spec => []StaleHarmless
<1>1. \A S : \A sent \in Seq(S), nread \in 0..Size, stales \in SUBSET Seq(S), short \in Nat :
       nread <= Len(sent) /\ (\A s \in stales : Len(s) = Size) =>
         StaleIgnored(sent, nread, short, stales)
  BY StaleNeverRead
<1>2. Picked => StaleHarmless
  <2> SUFFICES ASSUME Picked, alg = "read"
               PROVE  StaleIgnored(in.sent, Nread(in.sent), in.short, Stales)
    BY DEF StaleHarmless
  <2> DEFINE sent == in.sent
             short == in.short
             nread == Nread(sent)
  <2>1. sent \in Seq(Alphabet) /\ short \in Nat
    BY DEF Picked
  <2> HIDE DEF sent, short
  <2>2. Len(sent) \in Nat /\ Size \in Nat
    BY <2>1, LenProperties, RequestAssumption
  <2>3. nread \in 0..Size /\ nread <= Len(sent)
    BY <2>2 DEF Nread
  <2> HIDE DEF nread
  <2>4. StaleIgnored(sent, nread, short, Stales)
    BY <2>1, <2>3, StalesTyped, StaleNeverRead
  <2> QED
    BY <2>4 DEF sent, short, nread
<1> QED
  BY <1>1, <1>2, AlwaysPicked, PTL

(* A request that fills the buffer is refused properly, or its second       *)
(* buffer is as long as its Content-Length says, and only a short second    *)
(* read leaves a part of that unfilled: whatever is sent that is not taken  *)
(* for what malloc() returned.                                              *)
THEOREM BodiesAccountedHolds ==
  /\ \A S : Garbage \notin S =>
       \A sent \in Seq(S), short \in Nat : Size <= Len(sent) => BodyAccounted(sent, short)
  /\ Spec => []BodiesAccounted
<1>1. \A S : Garbage \notin S =>
       \A sent \in Seq(S), short \in Nat : Size <= Len(sent) => BodyAccounted(sent, short)
  BY EveryBodyAccounted
<1>2. Picked => BodiesAccounted
  <2> SUFFICES ASSUME Picked, alg = "read", Len(in.sent) >= Size
               PROVE  BodyAccounted(in.sent, in.short)
    BY DEF BodiesAccounted
  <2>1. in.sent \in Seq(Alphabet) /\ in.short \in Nat
    BY DEF Picked
  <2>2. Len(in.sent) \in Nat /\ Size \in Nat
    BY <2>1, LenProperties, RequestAssumption
  <2>3. Size <= Len(in.sent)
    BY <2>2
  <2> QED
    BY <1>1, <2>1, <2>3, AlphabetAssumption
<1> QED
  BY <1>1, <1>2, AlwaysPicked, PTL

(* The check of a file's path accepts exactly the paths of the characters   *)
(* it lists without a component of dots alone, however long; none of them   *)
(* leads out of the directory.                                              *)
THEOREM PathsInsideHolds ==
  /\ \A path \in Seq(AnyChars) : PathStaysInside(path)
  /\ Spec => []PathsInside
<1>1. \A path \in Seq(AnyChars) : PathStaysInside(path)
  BY PathsStayInside
<1>2. Picked => PathsInside
  BY <1>1 DEF Picked, PathsInside
<1> QED
  BY <1>1, <1>2, AlwaysPicked, PTL

(* mimes_dict has the key and the trimmed value of every line of its file,  *)
(* and throws at a line with a key alone, however long the file is, if it    *)
(* has no comments and its last line is complete.                           *)
THEOREM MimesReadHolds ==
  /\ \A S : NUL \notin S => \A text \in Seq(S) : MimesOfLines(text)
  /\ Spec => []MimesRead
<1>1. ASSUME NEW S, NUL \notin S, NEW text \in Seq(S) PROVE MimesOfLines(text)
  BY <1>1, MimesAreLines
<1>2. Picked => MimesRead
  BY <1>1, TableAssumption DEF Picked, MimesRead
<1>3. \A S : NUL \notin S => \A text \in Seq(S) : MimesOfLines(text)
  BY <1>1
<1> QED
  BY <1>2, <1>3, AlwaysPicked, PTL

(* parse_frame() understands every frame of a peer whatever is behind it,   *)
(* and a peer those of send_frame() up to 125 bytes, as all are that the    *)
(* server sends; which longer ones a peer misreads is said exactly.         *)
THEOREM FramesUnderstoodHolds ==
  /\ \A opcode \in Opcodes, payload \in Seq(Bytes), mask \in Masks, behind \in Seq(Bytes) :
       Len(payload) < Huge =>
         \A form \in Forms(Len(payload)) :
           FrameUnderstood(opcode, payload, mask, form, behind)
  /\ \A opcode \in Opcodes, message \in Seq(Bytes), size \in Nat :
       Len(message) < Limit => ReplyUnderstood(opcode, message, size)
  /\ Spec => []FramesUnderstood
<1>1. \A opcode \in Opcodes, payload \in Seq(Bytes), mask \in Masks, behind \in Seq(Bytes) :
       Len(payload) < Huge =>
         \A form \in Forms(Len(payload)) :
           FrameUnderstood(opcode, payload, mask, form, behind)
  BY EveryFrameUnderstood
<1>2. \A opcode \in Opcodes, message \in Seq(Bytes), size \in Nat :
       Len(message) < Limit => ReplyUnderstood(opcode, message, size)
  BY EveryReplyUnderstood
<1>3. Picked => FramesUnderstood
  <2>1. Picked /\ alg = "frame" => FrameUnderstood(in[1], in[2], in[3], in[4], in[5])
    BY <1>1 DEF Picked
  <2>2. Picked /\ alg = "reply" => ReplyUnderstood(in[1], in[2], in[3])
    BY <1>2 DEF Picked
  <2> QED
    BY <2>1, <2>2 DEF FramesUnderstood
<1> QED
  BY <1>1, <1>2, <1>3, AlwaysPicked, PTL

(* bcrypt_check() accepts the password that bcrypt_hash() was given and no  *)
(* other that differs in a char that counts, for any salt and cost.         *)
THEOREM PasswordsToldHolds ==
  /\ \A pw, other \in Passwords, rand \in Seq(Octets), work \in Int :
       Len(rand) = 16 => HashTellsPasswords(pw, other, rand, work)
  /\ Spec => []PasswordsTold
<1>1. \A pw, other \in Passwords, rand \in Seq(Octets), work \in Int :
       Len(rand) = 16 => HashTellsPasswords(pw, other, rand, work)
  BY HashesTellPasswords
<1>2. Picked => PasswordsTold
  BY <1>1 DEF Picked, PasswordsTold
<1> QED
  BY <1>1, <1>2, AlwaysPicked, PTL

(* Hashes of the correct and of the buggy algorithm stay apart for all      *)
(* passwords, however many words of key they fill.                          *)
THEOREM SafetyMeasuredHolds ==
  /\ \A pw, buggy \in Passwords : SafetyMeasure(pw, buggy)
  /\ Spec => []SafetyMeasured
<1>1. \A pw, buggy \in Passwords : SafetyMeasure(pw, buggy)
  BY SafetyMeasureHolds
<1>2. Picked => SafetyMeasured
  BY <1>1 DEF Picked, SafetyMeasured
<1> QED
  BY <1>1, <1>2, AlwaysPicked, PTL

(* A failing crypt() never returns the stored hash, whatever was stored.    *)
THEOREM FailuresNeverMatchHolds ==
  /\ \A strings, behind, pw :
       \A setting \in SettingTexts(strings, behind), size \in Nat :
         FailureNeverMatches(pw, setting, size)
  /\ Spec => []FailuresNeverMatch
<1>1. \A strings, behind, pw :
       \A setting \in SettingTexts(strings, behind), size \in Nat :
         FailureNeverMatches(pw, setting, size)
  BY NoFailureMatches
<1>2. Picked => FailuresNeverMatch
  BY <1>1 DEF Picked, FailuresNeverMatch
<1> QED
  BY <1>1, <1>2, AlwaysPicked, PTL

=============================================================================
