------------------------------- MODULE UsersProofs -------------------------------
(***************************************************************************)
(* Proofs about Users for any processes, names, cookies and table sizes:    *)
(* types and bounds for every constant; that the indexes are exact if the   *)
(* caller does not go on after an exception, as user.cc does not; that the  *)
(* file agrees with memory and keeps every reported user if, moreover,      *)
(* write() is never short.                                                  *)
(***************************************************************************)
EXTENDS Users, Integers, FiniteSetTheorems, SequenceTheorems, TLAPS

------------------------------------------------------------------------------
(* What sorting, binary search and insertion do to the indexes of Users,    *)
(* for sequences of any length and any keys.  The arguments count: the      *)
(* place of an element is the number of elements before it, and a set of    *)
(* positions closed downwards is 1..c for its cardinality c, so no lemma    *)
(* needs induction over the sequence.                                       *)

(* Keys for every element of a sequence of numbers. *)
Keyed(s, key) == \A i \in DOMAIN s : key[s[i]] \in Nat

(* There are n positions in a sequence of length n. *)
LEMMA IntervalCounts ==
  ASSUME NEW n \in Nat
  PROVE  IsFiniteSet(1..n) /\ Cardinality(1..n) = n
<1>1. CASE n = 0
  <2>1. 1..n = {}
    BY <1>1
  <2> QED BY <1>1, <2>1, FS_EmptySet
<1>2. CASE n > 0
  <2>1. ~(1 > n) /\ n - 1 + 1 = n
    BY <1>2
  <2>2. /\ IsFiniteSet(1..n)
        /\ Cardinality(1..n) = IF 1 > n THEN 0 ELSE n - 1 + 1
    BY FS_Interval
  <2> QED BY <2>1, <2>2
<1> QED BY <1>1, <1>2

LEMMA PositionsCount ==
  ASSUME NEW n \in Nat, NEW S \in SUBSET (1..n)
  PROVE  IsFiniteSet(S) /\ Cardinality(S) \in 0..n
<1>1. IsFiniteSet(1..n) /\ Cardinality(1..n) = n
  BY IntervalCounts
<1>2. IsFiniteSet(S) /\ Cardinality(S) <= n
  BY <1>1, FS_Subset
<1> QED BY <1>2, FS_CardinalityType

(* A set of positions with all positions below each is an initial segment.  *)
LEMMA InitialSegment ==
  ASSUME NEW n \in Nat, NEW S \in SUBSET (1..n),
         \A i \in S : \A j \in 1..i : j \in S
  PROVE  Cardinality(S) \in 0..n /\ S = 1..Cardinality(S)
<1> DEFINE c == Cardinality(S)
<1>1. IsFiniteSet(S) /\ c \in 0..n
  BY PositionsCount
<1>2. ASSUME NEW i \in S PROVE i \in 1..c
  <2>1. 1..i \subseteq S /\ i \in Nat
    OBVIOUS
  <2>2. Cardinality(1..i) = i
    BY <2>1, IntervalCounts
  <2>3. Cardinality(1..i) <= c
    BY <2>1, <1>1, FS_Subset
  <2> QED BY <2>1, <2>2, <2>3, <1>1
<1>3. IsFiniteSet(1..c) /\ Cardinality(1..c) = c
  BY <1>1, IntervalCounts
<1>4. S = 1..c
  BY <1>1, <1>2, <1>3, FS_Subset
<1> QED BY <1>1, <1>4

------------------------------------------------------------------------------
(* Positions are strictly ordered by key, and by number where keys tie. *)
LEMMA BeforeOrders ==
  ASSUME NEW s \in Seq(Nat), NEW key, Keyed(s, key)
  PROVE  /\ \A i \in DOMAIN s : ~Before(s, key, i, i)
         /\ \A i, j \in DOMAIN s : i # j => Before(s, key, i, j) \/ Before(s, key, j, i)
         /\ \A i, j, k \in DOMAIN s :
              Before(s, key, i, j) /\ Before(s, key, j, k) => Before(s, key, i, k)
<1>1. DOMAIN s \subseteq Nat
  BY LenProperties
<1> QED BY <1>1 DEF Before, Keyed

(* A place is a position, and whatever is before another has a lower place. *)
LEMMA PlaceMonotonic ==
  ASSUME NEW s \in Seq(Nat), NEW key, Keyed(s, key)
  PROVE  /\ \A i \in DOMAIN s : Place(s, key, i) \in DOMAIN s
         /\ \A i, j \in DOMAIN s :
              Before(s, key, i, j) => Place(s, key, i) < Place(s, key, j)
<1> DEFINE below(i) == {j \in DOMAIN s : Before(s, key, j, i)}
<1>1. /\ DOMAIN s = 1..Len(s) /\ Len(s) \in Nat
      /\ IsFiniteSet(DOMAIN s) /\ Cardinality(DOMAIN s) = Len(s)
  <2>1. DOMAIN s = 1..Len(s) /\ Len(s) \in Nat
    BY LenProperties
  <2> QED BY <2>1, IntervalCounts
<1>2. ASSUME NEW i \in DOMAIN s
      PROVE  /\ IsFiniteSet(below(i)) /\ Cardinality(below(i)) \in Nat
             /\ Place(s, key, i) = 1 + Cardinality(below(i))
  <2>1. below(i) \in SUBSET DOMAIN s
    OBVIOUS
  <2> QED BY <2>1, <1>1, FS_Subset, FS_CardinalityType DEF Place
<1>3. ASSUME NEW i \in DOMAIN s PROVE Place(s, key, i) \in DOMAIN s
  <2>1. below(i) \subseteq DOMAIN s \ {i}
    BY BeforeOrders
  <2>2. IsFiniteSet(DOMAIN s \ {i}) /\ Cardinality(DOMAIN s \ {i}) = Len(s) - 1
    BY <1>1, FS_RemoveElement
  <2>3. Cardinality(below(i)) <= Len(s) - 1
    BY <2>1, <2>2, FS_Subset
  <2>4. Place(s, key, i) = 1 + Cardinality(below(i)) /\ Cardinality(below(i)) \in Nat
    BY <1>2
  <2> HIDE DEF below
  <2> QED BY <1>1, <2>3, <2>4
<1>4. ASSUME NEW i \in DOMAIN s, NEW j \in DOMAIN s, Before(s, key, i, j)
      PROVE  Place(s, key, i) < Place(s, key, j)
  <2>1. below(i) \subseteq below(j) /\ i \in below(j) /\ i \notin below(i)
    BY <1>4, BeforeOrders
  <2>2. /\ Cardinality(below(i)) <= Cardinality(below(j))
        /\ Cardinality(below(i)) # Cardinality(below(j))
    BY <2>1, <1>2, FS_Subset
  <2>3. /\ Place(s, key, i) = 1 + Cardinality(below(i)) /\ Cardinality(below(i)) \in Nat
        /\ Place(s, key, j) = 1 + Cardinality(below(j)) /\ Cardinality(below(j)) \in Nat
    BY <1>2
  <2> HIDE DEF below
  <2> QED BY <2>2, <2>3
<1> QED BY <1>3, <1>4

(* Each position of the sorted sequence is the place of exactly one element. *)
LEMMA PlaceBijective ==
  ASSUME NEW s \in Seq(Nat), NEW key, Keyed(s, key)
  PROVE  /\ \A i, j \in DOMAIN s : Place(s, key, i) = Place(s, key, j) => i = j
         /\ \A k \in DOMAIN s : \E i \in DOMAIN s : Place(s, key, i) = k
<1> DEFINE place == [i \in DOMAIN s |-> Place(s, key, i)]
<1>1. DOMAIN s = 1..Len(s) /\ Len(s) \in Nat /\ IsFiniteSet(DOMAIN s)
  <2>1. DOMAIN s = 1..Len(s) /\ Len(s) \in Nat
    BY LenProperties
  <2> QED BY <2>1, IntervalCounts
<1>2. ASSUME NEW i \in DOMAIN s, NEW j \in DOMAIN s, i # j
      PROVE  Place(s, key, i) # Place(s, key, j)
  <2>1. Place(s, key, i) \in Nat /\ Place(s, key, j) \in Nat
    BY <1>1, PlaceMonotonic
  <2>2. Place(s, key, i) < Place(s, key, j) \/ Place(s, key, j) < Place(s, key, i)
    BY <1>2, BeforeOrders, PlaceMonotonic
  <2> QED BY <2>1, <2>2
<1>3. place \in Injection(DOMAIN s, DOMAIN s)
  <2>1. place \in [DOMAIN s -> DOMAIN s]
    BY PlaceMonotonic
  <2> QED BY <2>1, <1>2 DEF Injection, IsInjective
<1>4. place \in Surjection(DOMAIN s, DOMAIN s)
  BY <1>3, <1>1, FS_Injection
<1>5. \A k \in DOMAIN s : \E i \in DOMAIN s : place[i] = k
  BY <1>4 DEF Surjection
<1> QED BY <1>2, <1>5

------------------------------------------------------------------------------
(* std::sort() permutes: the result lists the same elements, and as many. *)
LEMMA SortPermutes ==
  ASSUME NEW s \in Seq(Nat), NEW key, Keyed(s, key)
  PROVE  /\ SortBy(s, key) \in Seq(Nat)
         /\ Len(SortBy(s, key)) = Len(s)
         /\ Range(SortBy(s, key)) = Range(s)
<1> DEFINE t == SortBy(s, key)
           at(k) == CHOOSE i \in DOMAIN s : Place(s, key, i) = k
<1>1. DOMAIN s = 1..Len(s) /\ Len(s) \in Nat /\ \A i \in DOMAIN s : s[i] \in Nat
  BY LenProperties, ElementOfSeq
<1>2. \A k \in DOMAIN s : at(k) \in DOMAIN s /\ Place(s, key, at(k)) = k
  BY PlaceBijective
<1>3. t = [k \in DOMAIN s |-> s[at(k)]]
  BY DEF SortBy
<1>4. \A k \in DOMAIN s : Place(s, key, k) \in DOMAIN s /\ at(Place(s, key, k)) = k
  BY <1>2, PlaceMonotonic, PlaceBijective
<1> HIDE DEF t, at
<1>5. t \in [1..Len(s) -> Nat]
  BY <1>1, <1>2, <1>3
<1>6. t \in Seq(Nat) /\ Len(t) = Len(s)
  BY <1>1, <1>5
<1>7. Range(t) = Range(s)
  <2>1. \A k \in DOMAIN s : t[k] = s[at(k)]
    BY <1>3
  <2>2. \A i \in DOMAIN s : s[i] = t[Place(s, key, i)]
    BY <2>1, <1>4
  <2>3. DOMAIN t = DOMAIN s
    BY <1>3
  <2> QED BY <2>1, <2>2, <2>3, <1>2, <1>4 DEF Range
<1> QED BY <1>6, <1>7 DEF t

(* ... and sorts: keys that differ come in increasing order. *)
LEMMA SortIncreases ==
  ASSUME NEW s \in Seq(Nat), NEW key, Keyed(s, key),
         \A i, j \in DOMAIN s : i # j => key[s[i]] # key[s[j]]
  PROVE  \A i, j \in 1..Len(s) :
           i < j => key[SortBy(s, key)[i]] < key[SortBy(s, key)[j]]
<1> DEFINE t == SortBy(s, key)
           at(k) == CHOOSE i \in DOMAIN s : Place(s, key, i) = k
<1>1. DOMAIN s = 1..Len(s) /\ Len(s) \in Nat
  BY LenProperties
<1>2. \A k \in DOMAIN s : at(k) \in DOMAIN s /\ Place(s, key, at(k)) = k
  BY PlaceBijective
<1>3. \A k \in DOMAIN s : t[k] = s[at(k)]
  BY DEF SortBy
<1> HIDE DEF t, at
<1>4. ASSUME NEW i \in DOMAIN s, NEW j \in DOMAIN s, i < j
      PROVE  key[t[i]] < key[t[j]]
  <2>1. at(i) # at(j) /\ ~Before(s, key, at(j), at(i))
    <3>1. Place(s, key, at(i)) = i /\ Place(s, key, at(j)) = j /\ i \in Nat /\ j \in Nat
      BY <1>1, <1>2
    <3>2. ~(j < i) /\ i # j
      BY <3>1, <1>4
    <3> QED BY <3>1, <3>2, <1>2, PlaceMonotonic
  <2>2. Before(s, key, at(i), at(j))
    BY <2>1, <1>2, BeforeOrders
  <2>3. key[s[at(i)]] < key[s[at(j)]]
    BY <2>1, <2>2, <1>2 DEF Before
  <2> QED BY <2>3, <1>3
<1> QED BY <1>1, <1>4 DEF t

------------------------------------------------------------------------------
(* Along increasing keys, std::lower_bound() and std::upper_bound() find    *)
(* where the smaller keys end: everything before is smaller, or not larger. *)
LEMMA BoundsSplit ==
  ASSUME NEW n \in Nat, NEW keys \in [1..n -> Nat], NEW k \in Nat,
         \A i, j \in 1..n : i < j => keys[i] < keys[j]
  PROVE  /\ LowerBound(keys, k) \in 1..(n + 1)
         /\ UpperBound(keys, k) \in 1..(n + 1)
         /\ \A i \in 1..n : keys[i] < k <=> i < LowerBound(keys, k)
         /\ \A i \in 1..n : keys[i] <= k <=> i < UpperBound(keys, k)
<1> DEFINE L == {i \in 1..n : keys[i] < k}
           U == {i \in 1..n : keys[i] <= k}
<1>1. DOMAIN keys = 1..n /\ \A i \in 1..n : keys[i] \in Nat
  OBVIOUS
<1>2. LowerBound(keys, k) = 1 + Cardinality(L)
  BY <1>1 DEF LowerBound
<1>3. UpperBound(keys, k) = 1 + Cardinality(U)
  BY <1>1 DEF UpperBound
<1>4. Cardinality(L) \in 0..n /\ L = 1..Cardinality(L)
  <2>1. ASSUME NEW i \in L, NEW j \in 1..i PROVE j \in L
    <3>1. i \in 1..n /\ j \in 1..n /\ (j = i \/ j < i)
      OBVIOUS
    <3> QED BY <3>1, <1>1
  <2> HIDE DEF L
  <2>2. L \in SUBSET (1..n)
    BY DEF L
  <2> QED BY <2>1, <2>2, InitialSegment
<1>5. Cardinality(U) \in 0..n /\ U = 1..Cardinality(U)
  <2>1. ASSUME NEW i \in U, NEW j \in 1..i PROVE j \in U
    <3>1. i \in 1..n /\ j \in 1..n /\ (j = i \/ j < i)
      OBVIOUS
    <3> QED BY <3>1, <1>1
  <2> HIDE DEF U
  <2>2. U \in SUBSET (1..n)
    BY DEF U
  <2> QED BY <2>1, <2>2, InitialSegment
<1>6. /\ \A i \in 1..n : keys[i] < k <=> i \in L
      /\ \A i \in 1..n : keys[i] <= k <=> i \in U
  OBVIOUS
<1> HIDE DEF L, U
<1>7. /\ \A i \in 1..n : i \in L <=> i < 1 + Cardinality(L)
      /\ \A i \in 1..n : i \in U <=> i < 1 + Cardinality(U)
  BY <1>4, <1>5
<1> QED BY <1>2, <1>3, <1>4, <1>5, <1>6, <1>7

(* The bounds lie within the sequence or one past its end, sorted or not. *)
LEMMA BoundsWithin ==
  ASSUME NEW n \in Nat, NEW keys, DOMAIN keys = 1..n, NEW k
  PROVE  LowerBound(keys, k) \in 1..(n + 1) /\ UpperBound(keys, k) \in 1..(n + 1)
<1> DEFINE L == {i \in 1..n : keys[i] < k}
           U == {i \in 1..n : keys[i] <= k}
<1>1. LowerBound(keys, k) = 1 + Cardinality(L) /\ UpperBound(keys, k) = 1 + Cardinality(U)
  BY DEF LowerBound, UpperBound
<1>2. L \in SUBSET (1..n) /\ U \in SUBSET (1..n)
  OBVIOUS
<1> HIDE DEF L, U
<1>3. Cardinality(L) \in 0..n /\ Cardinality(U) \in 0..n
  BY <1>2, PositionsCount
<1> QED BY <1>1, <1>3

------------------------------------------------------------------------------
(* What append_user() followed by rotate_right() does, element by element. *)
LEMMA InsertAtElements ==
  ASSUME NEW s \in Seq(Nat), NEW i \in 1..(Len(s) + 1), NEW u \in Nat
  PROVE  /\ InsertAt(s, i, u) \in Seq(Nat)
         /\ Len(InsertAt(s, i, u)) = Len(s) + 1
         /\ \A j \in 1..(Len(s) + 1) :
              InsertAt(s, i, u)[j] = IF j < i THEN s[j] ELSE IF j = i THEN u ELSE s[j - 1]
         /\ Range(InsertAt(s, i, u)) = Range(s) \cup {u}
<1> DEFINE a == SubSeq(s, 1, i - 1)
           b == SubSeq(s, i, Len(s))
           t == InsertAt(s, i, u)
<1>1. Len(s) \in Nat /\ i \in Nat /\ DOMAIN s = 1..Len(s) /\ \A j \in 1..Len(s) : s[j] \in Nat
  BY LenProperties, ElementOfSeq
<1>2. /\ a \in Seq(Nat) /\ Len(a) = i - 1
      /\ \A j \in 1..(i - 1) : a[j] = s[j]
  BY <1>1
<1>3. /\ b \in Seq(Nat) /\ Len(b) = Len(s) - i + 1
      /\ \A j \in 1..(Len(s) - i + 1) : b[j] = s[j + i - 1]
  BY <1>1
<1>4. t = a \o <<u>> \o b
  BY DEF InsertAt
<1> HIDE DEF a, b, t
<1>5. /\ a \o <<u>> \in Seq(Nat) /\ Len(a \o <<u>>) = i
      /\ \A j \in 1..i : (a \o <<u>>)[j] = IF j < i THEN s[j] ELSE u
  BY <1>1, <1>2
<1>6. t \in Seq(Nat) /\ Len(t) = Len(s) + 1
  BY <1>1, <1>3, <1>4, <1>5
<1>7. ASSUME NEW j \in 1..(Len(s) + 1)
      PROVE  t[j] = IF j < i THEN s[j] ELSE IF j = i THEN u ELSE s[j - 1]
  <2>1. CASE j <= i
    BY <2>1, <1>1, <1>3, <1>4, <1>5
  <2>2. CASE j > i
    <3> DEFINE ab == a \o <<u>>
    <3>a. ab \in Seq(Nat) /\ Len(ab) = i /\ t = ab \o b
      BY <1>4, <1>5
    <3> HIDE DEF ab
    <3>b. j \in 1..(Len(ab) + Len(b)) /\ ~(j <= Len(ab)) /\ j - i \in 1..(Len(s) - i + 1)
      BY <2>2, <3>a, <1>1, <1>3
    <3>1. t[j] = b[j - i] /\ j - i \in 1..(Len(s) - i + 1)
      BY <3>a, <3>b, <1>3, ConcatProperties
    <3>2. j - i + i - 1 = j - 1
      BY <1>1
    <3> QED BY <3>1, <3>2, <2>2, <1>1, <1>3
  <2> QED BY <2>1, <2>2, <1>1
<1>8. Range(t) = Range(s) \cup {u}
  <2>1. DOMAIN t = 1..(Len(s) + 1)
    BY <1>6
  <2>2. ASSUME NEW j \in DOMAIN t PROVE t[j] \in Range(s) \cup {u}
    <3>1. t[j] = IF j < i THEN s[j] ELSE IF j = i THEN u ELSE s[j - 1]
      BY <2>1, <1>7
    <3>2. CASE j < i
      BY <3>1, <3>2, <2>1, <1>1 DEF Range
    <3>3. CASE j = i
      BY <3>1, <3>3, <1>1
    <3>4. CASE j > i
      <4>1. j - 1 \in DOMAIN s /\ t[j] = s[j - 1]
        BY <3>1, <3>4, <2>1, <1>1
      <4> QED BY <4>1 DEF Range
    <3> QED BY <3>2, <3>3, <3>4, <2>1, <1>1
  <2>3. ASSUME NEW j \in DOMAIN s PROVE s[j] \in Range(t)
    <3>1. CASE j < i
      BY <3>1, <2>1, <1>1, <1>7 DEF Range
    <3>2. CASE j >= i
      <4>1. j + 1 \in DOMAIN t /\ t[j + 1] = s[j]
        BY <3>2, <2>1, <1>1, <1>7
      <4> QED BY <4>1 DEF Range
    <3> QED BY <3>1, <3>2, <1>1
  <2>4. u \in Range(t)
    <3>1. i \in DOMAIN t /\ t[i] = u
      BY <2>1, <1>1, <1>7
    <3> QED BY <3>1 DEF Range
  <2> QED BY <2>2, <2>3, <2>4 DEF Range
<1> QED BY <1>6, <1>7, <1>8 DEF t

LEMMA InsertAtRange ==
  ASSUME NEW s \in Seq(Nat), NEW i \in 1..(Len(s) + 1), NEW u \in Nat,
         NEW t, t = InsertAt(s, i, u)
  PROVE  t \in Seq(Nat) /\ Len(t) = Len(s) + 1 /\ Range(t) = Range(s) \cup {u}
BY InsertAtElements

(* An element put after the smaller keys and before the larger ones leaves   *)
(* the keys increasing.                                                      *)
LEMMA InsertOrdered ==
  ASSUME NEW s \in Seq(Nat), NEW b \in 1..(Len(s) + 1), NEW u \in Nat, NEW key,
         \A i, j \in 1..Len(s) : i < j => key[s[i]] < key[s[j]],
         \A i \in 1..Len(s) : i < b => key[s[i]] < key[u],
         \A i \in 1..Len(s) : i >= b => key[u] < key[s[i]]
  PROVE  \A i, j \in 1..(Len(s) + 1) :
           i < j => key[InsertAt(s, b, u)[i]] < key[InsertAt(s, b, u)[j]]
<1> DEFINE n == Len(s)
           t == InsertAt(s, b, u)
<1>1. n \in Nat /\ b \in 1..(n + 1)
  BY LenProperties
<1>2. \A j \in 1..(n + 1) :
        t[j] = IF j < b THEN s[j] ELSE IF j = b THEN u ELSE s[j - 1]
  BY InsertAtElements
<1>3. /\ \A i, j \in 1..n : i < j => key[s[i]] < key[s[j]]
      /\ \A i \in 1..n : i < b => key[s[i]] < key[u]
      /\ \A i \in 1..n : i >= b => key[u] < key[s[i]]
  OBVIOUS
<1> HIDE DEF n, t
<1>4. ASSUME NEW i \in 1..(n + 1), NEW j \in 1..(n + 1), i < j
      PROVE  key[t[i]] < key[t[j]]
  <2>1. CASE j < b
    <3>1. i \in 1..n /\ j \in 1..n /\ t[i] = s[i] /\ t[j] = s[j]
      BY <2>1, <1>4, <1>1, <1>2
    <3> QED BY <3>1, <1>3, <1>4
  <2>2. CASE i < b /\ j = b
    <3>1. i \in 1..n /\ t[i] = s[i] /\ t[j] = u
      BY <2>2, <1>4, <1>1, <1>2
    <3> QED BY <3>1, <2>2, <1>3
  <2>3. CASE i < b /\ j > b
    <3>1. i \in 1..n /\ j - 1 \in 1..n /\ t[i] = s[i] /\ t[j] = s[j - 1] /\ i < j - 1
      BY <2>3, <1>4, <1>1, <1>2
    <3> QED BY <3>1, <1>3
  <2>4. CASE i = b /\ j > b
    <3>1. j - 1 \in 1..n /\ t[i] = u /\ t[j] = s[j - 1] /\ j - 1 >= b
      BY <2>4, <1>4, <1>1, <1>2
    <3> QED BY <3>1, <1>3
  <2>5. CASE i > b
    <3>1. i - 1 \in 1..n /\ j - 1 \in 1..n /\ t[i] = s[i - 1] /\ t[j] = s[j - 1]
          /\ i - 1 < j - 1
      BY <2>5, <1>4, <1>1, <1>2
    <3> QED BY <3>1, <1>3
  <2> QED BY <2>1, <2>2, <2>3, <2>4, <2>5, <1>4, <1>1
<1> QED BY <1>4 DEF n, t

(* upper_bound() over the keys finds such a place for a key of its own. *)
LEMMA InsertIncreases ==
  ASSUME NEW s \in Seq(Nat), NEW key, NEW u \in Nat, Keyed(s, key), key[u] \in Nat,
         \A i, j \in DOMAIN s : i < j => key[s[i]] < key[s[j]],
         \A i \in DOMAIN s : key[s[i]] # key[u],
         NEW keys, keys = [i \in DOMAIN s |-> key[s[i]]]
  PROVE  LET t == InsertAt(s, UpperBound(keys, key[u]), u)
         IN  \A i, j \in 1..(Len(s) + 1) : i < j => key[t[i]] < key[t[j]]
<1> DEFINE n == Len(s)
           b == UpperBound(keys, key[u])
<1>1. n \in Nat /\ DOMAIN s = 1..n
  BY LenProperties
<1>2. keys \in [1..n -> Nat] /\ \A i \in 1..n : keys[i] = key[s[i]]
  BY <1>1 DEF Keyed
<1>3. \A i, j \in 1..n : i < j => keys[i] < keys[j]
  BY <1>1, <1>2
<1> HIDE DEF n
<1>4. /\ b \in 1..(n + 1)
      /\ \A i \in 1..n : keys[i] <= key[u] <=> i < b
  BY <1>1, <1>2, <1>3, BoundsSplit
<1> HIDE DEF b
<1>5. ASSUME NEW i \in 1..n
      PROVE  (i < b => key[s[i]] < key[u]) /\ (i >= b => key[u] < key[s[i]])
  <2>1. key[s[i]] # key[u]
    BY <1>1
  <2>2. key[s[i]] \in Nat /\ i \in Nat /\ b \in Nat
    BY <1>1, <1>4 DEF Keyed
  <2>3. key[s[i]] <= key[u] <=> i < b
    BY <1>2, <1>4
  <2> QED BY <2>1, <2>2, <2>3
<1>6. b \in 1..(Len(s) + 1) /\ DOMAIN s = 1..Len(s)
  BY <1>1, <1>4 DEF n
<1>7. /\ \A i \in 1..Len(s) : i < b => key[s[i]] < key[u]
      /\ \A i \in 1..Len(s) : i >= b => key[u] < key[s[i]]
  BY <1>5 DEF n
<1>8. \A i, j \in 1..Len(s) : i < j => key[s[i]] < key[s[j]]
  BY <1>6
<1>9. \A i, j \in 1..(Len(s) + 1) :
        i < j => key[InsertAt(s, b, u)[i]] < key[InsertAt(s, b, u)[j]]
  BY <1>6, <1>7, <1>8, InsertOrdered
<1> QED BY <1>9 DEF b

------------------------------------------------------------------------------
(* A set of positions that is not empty has a last one. *)
LEMMA LastPosition ==
  ASSUME NEW n \in Nat, NEW S \in SUBSET (1..n), S # {}
  PROVE  \E c \in S : \A d \in S : d <= c
<1> DEFINE D == {i \in 1..n : \E c \in S : i <= c}
           l == Cardinality(D)
<1>1. D \in SUBSET (1..n) /\ \A i \in D : \A j \in 1..i : j \in D
  <2>1. ASSUME NEW i \in D, NEW j \in 1..i PROVE j \in D
    <3>1. PICK c \in S : i <= c
      OBVIOUS
    <3>2. i \in 1..n /\ j \in 1..n /\ c \in Nat /\ j <= c
      BY <3>1
    <3> QED BY <3>2
  <2> QED BY <2>1
<1>2. S \subseteq D
  OBVIOUS
<1>3. \A i \in D : \E c \in S : i <= c
  OBVIOUS
<1> HIDE DEF D
<1>4. l \in 0..n /\ D = 1..l
  BY <1>1, InitialSegment
<1> HIDE DEF l
<1>5. l \in D
  <2>1. \E c \in S : c \in 1..l
    BY <1>2, <1>4
  <2> QED BY <2>1, <1>4
<1>6. PICK c \in S : l <= c
  BY <1>3, <1>5
<1>7. \A d \in S : d <= c
  BY <1>2, <1>4, <1>6
<1> QED BY <1>7

(* Twice a power of two is one. *)
LEMMA DoublePower ==
  ASSUME NEW c \in Nat \ {0}, IsPowerOfTwo(c)
  PROVE  IsPowerOfTwo(2 * c)
<1> SUFFICES ASSUME NEW a \in 1..(2 * c), NEW b \in 1..(2 * c), a * b = 2 * c,
                    ~(a % 2 = 0)
             PROVE  a = 1
  BY DEF IsPowerOfTwo
<1>1. a \in Nat \ {0} /\ b \in Nat \ {0}
  OBVIOUS
<1>2. PICK k \in Nat : a = 2 * k + 1
  <2>1. a = 2 * (a \div 2) + 1 /\ a \div 2 \in Nat
    BY <1>1
  <2> QED BY <2>1
<1>3. PICK j \in Nat : b = 2 * j \/ b = 2 * j + 1
  <2>1. b \div 2 \in Nat /\ (b = 2 * (b \div 2) \/ b = 2 * (b \div 2) + 1)
    BY <1>1
  <2> QED BY <2>1
<1>4. b = 2 * j
  <2>1. SUFFICES ASSUME b = 2 * j + 1 PROVE FALSE
    BY <1>3
  <2>2. a * b = 2 * (k * (2 * j + 1) + j) + 1
    BY <1>2, <2>1
  <2>3. k * (2 * j + 1) + j \in Nat
    OBVIOUS
  <2>4. \A x, y \in Nat : 2 * x + 1 # 2 * y
    OBVIOUS
  <2> HIDE <1>2
  <2> QED BY <2>2, <2>3, <2>4
<1>5. a * j = c
  <2>1. a * b = 2 * (a * j) /\ a * j \in Nat
    BY <1>1, <1>4
  <2>2. \A x, y \in Nat : 2 * x = 2 * y => x = y
    OBVIOUS
  <2> QED BY <2>1, <2>2
<1>6. a \in 1..c /\ j \in 1..c
  <2>1. j # 0
    BY <1>1, <1>4
  <2>2. j <= a * j /\ a <= a * j
    BY <1>1, <2>1
  <2> QED BY <1>1, <1>5, <2>1, <2>2
<1> QED BY <1>5, <1>6 DEF IsPowerOfTwo

(* std::bit_ceil() of a positive number exists: the last power of two up to  *)
(* it is the number itself, or half of the result.                           *)
LEMMA BitCeilRounds ==
  ASSUME NEW n \in Nat \ {0}
  PROVE  BitCeil(n) \in n..(2 * n - 1) /\ IsPowerOfTwo(BitCeil(n))
<1> DEFINE P == {c \in 1..n : IsPowerOfTwo(c)}
<1>1. 1 \in P
  BY DEF IsPowerOfTwo
<1>2. PICK c \in P : \A d \in P : d <= c
  BY <1>1, LastPosition
<1>3. c \in 1..n /\ IsPowerOfTwo(c)
  OBVIOUS
<1>4. \E x \in n..(2 * n - 1) : IsPowerOfTwo(x)
  <2>1. CASE c = n
    BY <2>1, <1>3
  <2>2. CASE c < n
    <3>1. IsPowerOfTwo(2 * c) /\ 2 * c \in Nat /\ 2 * c > c
      BY <1>3, DoublePower
    <3>2. 2 * c \notin P
      BY <1>2, <1>3, <3>1
    <3>3. 2 * c > n
      BY <3>1, <3>2, <1>3
    <3>4. 2 * c \in n..(2 * n - 1)
      BY <3>3, <2>2, <1>3
    <3> QED BY <3>1, <3>4
  <2> QED BY <2>1, <2>2, <1>3
<1> QED BY <1>4 DEF BitCeil

------------------------------------------------------------------------------
(* One process has the table open. *)
OneOpen == \A p, q \in Procs : st[p] # "off" /\ st[q] # "off" => p = q

(* The first n entries of both indexes: all records, in order. *)
Indexed(p) ==
  LET n == Counted(p)
  IN  /\ u_len[p] = n
      /\ Len(by_name[p]) = n /\ Len(by_cookie[p]) = n
      /\ Range(by_name[p]) = 1..n /\ Range(by_cookie[p]) = 1..n
      /\ Increasing(NamesAlong(p)) /\ Increasing(CookiesAlong(p))

(* The record being created shares its name and cookie with no other. *)
Fresh(p) ==
  \A i \in 1..f_len[p] :
    m[p][i].name # m[p][user[p]].name /\ m[p][i].cookie # m[p][user[p]].cookie

(* In the file, complete records differ in name and in cookie. *)
Distinct(f) ==
  \A i, j \in DOMAIN f :
    i # j /\ f[i] # Torn /\ f[j] # Torn => f[i].name # f[j].name /\ f[i].cookie # f[j].cookie

(* Records of the file that memory counts, or has written. *)
Written(p) == f_len[p] + (IF st[p] \in {"sync", "index", "commit"} THEN 1 ELSE 0)

(* The file has each record as memory has it, or an incomplete one, or, for  *)
(* the user being reset, under the name that memory has.                     *)
Mirrors(p) ==
  /\ Len(file) = Written(p) /\ off[p] = Written(p)
  /\ \A i \in DOMAIN file :
       \/ file[i] = m[p][i]
       \/ file[i] = Torn /\ "short" \in Faults
       \/ st[p] = "pwrite" /\ i = user[p] /\ file[i] # Torn /\ file[i].name = m[p][i].name

Open(p) ==
  /\ st[p] = "commit" \/ ~wild[p]
  /\ Indexed(p)
  /\ st[p] \in {"write", "sync", "index"} => Fresh(p)
  /\ Mirrors(p)

TableInv ==
  /\ OneOpen
  /\ Distinct(file) /\ Distinct(synced)
  /\ \A p \in Procs : st[p] # "off" => Open(p)

------------------------------------------------------------------------------
(* Every reported user is in f, with a password it may have. *)
AckedIn(f) ==
  \A n \in Names :
    acked[n] # {} =>
      \E i \in DOMAIN f : f[i] # Torn /\ f[i].name = n /\ f[i].pw \in acked[n]

(* Once fsync() has returned, and until the user is reported. *)
Kept(p) ==
  /\ st[p] \in {"index", "commit"} => synced = file
  /\ st[p] \in Resetting =>
       LET r == m[p][user[p]] IN acked[r.name] = {} \/ r.pw \in acked[r.name]

AckedInv == AckedIn(file) /\ AckedIn(synced) /\ \A p \in Procs : Kept(p)

------------------------------------------------------------------------------
(* Types and bounds *)

LEMMA ProcTypes ==
  ASSUME TypeOK, NEW p \in Procs
  PROVE  /\ m[p] \in Seq(Record) /\ Len(m[p]) \in Nat /\ DOMAIN m[p] = 1..Len(m[p])
         /\ f_len[p] \in Nat /\ f_len[p] <= Len(m[p])
         /\ u_len[p] \in Nat /\ off[p] \in Nat /\ user[p] \in Nat
         /\ by_name[p] \in Seq(Nat) /\ Len(by_name[p]) \in Nat
         /\ DOMAIN by_name[p] = 1..Len(by_name[p])
         /\ by_cookie[p] \in Seq(Nat) /\ Len(by_cookie[p]) \in Nat
         /\ DOMAIN by_cookie[p] = 1..Len(by_cookie[p])
<1>1. /\ m[p] \in Seq(Record) /\ by_name[p] \in Seq(Nat) /\ by_cookie[p] \in Seq(Nat)
      /\ f_len[p] \in Nat /\ u_len[p] \in Nat /\ off[p] \in Nat /\ user[p] \in Nat
  BY DEF TypeOK, Types
<1>2. f_len[p] <= Len(m[p])
  BY DEF TypeOK, Bounds
<1> QED BY <1>1, <1>2, LenProperties

LEMMA ProcBounds ==
  ASSUME TypeOK, NEW p \in Procs
  PROVE  /\ st[p] \in Creating => user[p] = f_len[p] + 1 /\ Len(m[p]) = f_len[p] + 1
         /\ st[p] \in Resetting => user[p] \in 1..f_len[p]
         /\ st[p] # "commit" => Counted(p) = f_len[p]
         /\ st[p] = "commit" => Counted(p) = f_len[p] + 1
         /\ Range(by_name[p]) \subseteq 1..Counted(p)
         /\ Range(by_cookie[p]) \subseteq 1..Counted(p)
<1>1. f_len[p] \in Nat
  BY ProcTypes
<1>2. /\ st[p] # "commit" => Counted(p) = f_len[p]
      /\ st[p] = "commit" => Counted(p) = f_len[p] + 1
  BY <1>1 DEF Counted
<1> QED BY <1>2 DEF TypeOK, Bounds

(* A record found by name is one the index lists, and has that name. *)
LEMMA FoundIsListed ==
  ASSUME NEW p \in Procs, NEW n, FindByName(p, n) # 0
  PROVE  /\ FindByName(p, n) \in Range(by_name[p])
         /\ m[p][FindByName(p, n)].name = n
<1> DEFINE i == LowerBound(NamesAlong(p), n)
<1>1. i \in DOMAIN by_name[p] /\ NamesAlong(p)[i] = n /\ FindByName(p, n) = by_name[p][i]
  BY DEF FindByName
<1> HIDE DEF i
<1> QED BY <1>1 DEF Range, NamesAlong

(* The image with the record that new_user() puts after those that count. *)
LEMMA CreatedImage ==
  ASSUME TypeOK, NEW p \in Procs, NEW r \in Record,
         NEW image, image = Append(SubSeq(m[p], 1, f_len[p]), r)
  PROVE  /\ image \in Seq(Record) /\ Len(image) = f_len[p] + 1
         /\ \A i \in 1..f_len[p] : image[i] = m[p][i]
         /\ image[f_len[p] + 1] = r
<1>1. m[p] \in Seq(Record) /\ f_len[p] \in Nat /\ f_len[p] <= Len(m[p])
  BY DEF TypeOK, Types, Bounds
<1>2. SubSeq(m[p], 1, f_len[p]) \in Seq(Record) /\ Len(SubSeq(m[p], 1, f_len[p])) = f_len[p]
      /\ \A i \in 1..f_len[p] : SubSeq(m[p], 1, f_len[p])[i] = m[p][i]
  BY <1>1
<1> QED BY <1>1, <1>2

LEMMA RecordFields ==
  ASSUME NEW image \in Seq(Record), NEW i \in 1..Len(image)
  PROVE  /\ image[i] \in Record
         /\ image[i].name \in Names /\ image[i].name \in Nat
         /\ image[i].cookie \in Cookies /\ image[i].cookie \in Nat
         /\ image[i].pw \in Pws
<1>1. image[i] \in Record
  BY ElementOfSeq
<1>2. \A r \in Record : r.name \in Names /\ r.cookie \in Cookies /\ r.pw \in Pws
  BY DEF Record
<1>3. Names \subseteq Nat /\ Cookies \subseteq Nat
  BY UsersAssumption
<1> QED BY <1>1, <1>2, <1>3

(* The index by cookie, sorted over an image that holds all it lists. *)
LEMMA SortedByCookie ==
  ASSUME NEW s \in Seq(Nat), NEW image \in Seq(Record), Range(s) \subseteq 1..Len(image),
         NEW t, t = SortByCookie(s, image)
  PROVE  t \in Seq(Nat) /\ Len(t) = Len(s) /\ Range(t) = Range(s)
<1> DEFINE key == [i \in DOMAIN image |-> image[i].cookie]
<1>1. Keyed(s, key)
  <2>1. \A i \in 1..Len(image) : image[i].cookie \in Nat
    BY RecordFields
  <2>2. DOMAIN image = 1..Len(image)
    BY LenProperties
  <2> QED BY <2>1, <2>2 DEF Keyed, Range
<1>2. t = SortBy(s, key)
  BY DEF SortByCookie
<1> HIDE DEF key
<1> QED BY <1>1, <1>2, SortPermutes

LEMMA SortedByName ==
  ASSUME NEW s \in Seq(Nat), NEW image \in Seq(Record), Range(s) \subseteq 1..Len(image),
         NEW t, t = SortByName(s, image)
  PROVE  t \in Seq(Nat) /\ Len(t) = Len(s) /\ Range(t) = Range(s)
<1> DEFINE key == [i \in DOMAIN image |-> image[i].name]
<1>1. Keyed(s, key)
  <2>1. \A i \in 1..Len(image) : image[i].name \in Nat
    BY RecordFields
  <2>2. DOMAIN image = 1..Len(image)
    BY LenProperties
  <2> QED BY <2>1, <2>2 DEF Keyed, Range
<1>2. t = SortBy(s, key)
  BY DEF SortByName
<1> HIDE DEF key
<1> QED BY <1>1, <1>2, SortPermutes

LEMMA InitTypes == Init => TypeOK
<1> SUFFICES ASSUME Init PROVE TypeOK
  OBVIOUS
<1>1. Types
  <2>1. wild \in [Procs -> BOOLEAN]
    BY DEF Init
  <2>2. acked \in [Names -> SUBSET Pws]
    BY DEF Init
  <2> QED BY <2>1, <2>2, UsersAssumption DEF Init, Types
<1>2. ASSUME NEW p \in Procs PROVE Bounds(p)
  BY DEF Init, Bounds, Creating, Resetting, Range, Counted
<1> QED BY <1>1, <1>2 DEF TypeOK

(* The other processes keep theirs. *)
OthersAlike(p) ==
  \A q \in Procs \ {p} :
    /\ st'[q] = st[q] /\ user'[q] = user[q] /\ m'[q] = m[q] /\ f_len'[q] = f_len[q]
    /\ by_name'[q] = by_name[q] /\ by_cookie'[q] = by_cookie[q]

LEMMA OthersBounded ==
  ASSUME TypeOK, NEW p \in Procs, OthersAlike(p), Bounds(p)'
  PROVE  \A q \in Procs : Bounds(q)'
<1> SUFFICES ASSUME NEW q \in Procs \ {p} PROVE Bounds(q)'
  OBVIOUS
<1> QED BY DEF OthersAlike, TypeOK, Bounds, Counted

LEMMA LoadTypes ==
  ASSUME TypeOK, NEW p \in Procs, Load(p) PROVE TypeOK'
<1> USE DEF TypeOK, Load, Step
<1> DEFINE all == [i \in 1..Len(file) |-> i]
<1>1. file \in Seq(Record) /\ Len(file) \in Nat
  <2>1. file \in Seq(Record \cup {Torn}) /\ \A i \in DOMAIN file : file[i] # Torn
    BY DEF Types
  <2>2. \A i \in 1..Len(file) : file[i] \in Record
    BY <2>1
  <2> QED BY <2>1, <2>2
<1>2. all \in Seq(Nat) /\ Len(all) = Len(file) /\ Range(all) = 1..Len(file)
  BY <1>1 DEF Range
<1> HIDE DEF all
<1>3. by_name'[p] = SortByName(all, file) /\ by_cookie'[p] = SortByCookie(all, file)
  BY DEF Types, all
<1>4. /\ by_name'[p] \in Seq(Nat) /\ Range(by_name'[p]) = 1..Len(file)
      /\ by_cookie'[p] \in Seq(Nat) /\ Range(by_cookie'[p]) = 1..Len(file)
  <2> HIDE DEF TypeOK, Load, Step
  <2>1. Range(all) \subseteq 1..Len(file)
    BY <1>2
  <2>2. by_name'[p] \in Seq(Nat) /\ Range(by_name'[p]) = 1..Len(file)
    BY <1>1, <1>2, <1>3, <2>1, SortedByName
  <2>3. by_cookie'[p] \in Seq(Nat) /\ Range(by_cookie'[p]) = 1..Len(file)
    BY <1>1, <1>2, <1>3, <2>1, SortedByCookie
  <2> QED BY <2>2, <2>3
<1>5. by_name' \in [Procs -> Seq(Nat)] /\ by_cookie' \in [Procs -> Seq(Nat)]
  BY <1>4 DEF Types
<1>6. u_cap' \in [Procs -> Nat]
  <2>1. CASE MinCap >= Len(file)
    BY <2>1, UsersAssumption DEF Types
  <2>2. CASE ~(MinCap >= Len(file))
    <3>1. Len(file) \in Nat \ {0}
      BY <2>2, <1>1, UsersAssumption
    <3>2. BitCeil(Len(file)) \in Nat
      BY <3>1, BitCeilRounds
    <3> QED BY <3>2, <2>2 DEF Types
  <2> QED BY <2>1, <2>2
<1>7. Types'
  <2>1. m' \in [Procs -> Seq(Record)]
    BY <1>1 DEF Types
  <2>2. st' \in [Procs -> {"off", "ready", "write", "sync", "index", "commit",
                           "pwrite", "psync"}]
    BY DEF Types
  <2>3. u_len' \in [Procs -> Nat] /\ f_len' \in [Procs -> Nat] /\ off' \in [Procs -> Nat]
    BY <1>1 DEF Types
  <2>4. file' = file /\ synced' = synced /\ user' = user /\ wild' = wild /\ acked' = acked
    BY DEF disk
  <2> QED BY <1>5, <1>6, <2>1, <2>2, <2>3, <2>4 DEF Types
<1>8. Bounds(p)'
  <2>1. m'[p] = file /\ f_len'[p] = Len(file) /\ st'[p] = "ready"
    BY DEF Types
  <2> HIDE DEF TypeOK, Load, Step
  <2> QED BY <2>1, <1>1, <1>4 DEF Bounds, Counted, Creating, Resetting
<1>9. OthersAlike(p)
  BY DEF OthersAlike, Types
<1> QED BY <1>7, <1>8, <1>9, OthersBounded

LEMMA ForgetTypes ==
  ASSUME TypeOK, NEW P \in SUBSET Procs, Forget(P),
         file' \in Seq(Record \cup {Torn}), synced' \in Seq(Record \cup {Torn}),
         acked' = acked
  PROVE  TypeOK'
<1>1. Types'
  <2>1. /\ wild' \in [Procs -> BOOLEAN]
        /\ st' \in [Procs -> {"off", "ready", "write", "sync", "index", "commit",
                              "pwrite", "psync"}]
    BY DEF TypeOK, Types, Forget
  <2>2. /\ m' \in [Procs -> Seq(Record)]
        /\ by_name' \in [Procs -> Seq(Nat)] /\ by_cookie' \in [Procs -> Seq(Nat)]
    BY DEF TypeOK, Types, Forget
  <2>3. /\ user' \in [Procs -> Nat] /\ u_len' \in [Procs -> Nat]
        /\ f_len' \in [Procs -> Nat] /\ off' \in [Procs -> Nat]
        /\ u_cap' \in [Procs -> Nat]
    BY UsersAssumption DEF TypeOK, Types, Forget
  <2>4. acked' \in [Names -> SUBSET Pws]
    BY DEF TypeOK, Types
  <2> QED BY <2>1, <2>2, <2>3, <2>4 DEF Types
<1>2. ASSUME NEW q \in Procs PROVE Bounds(q)'
  <2>1. CASE q \in P
    <3>1. /\ st'[q] = "off" /\ m'[q] = <<>> /\ f_len'[q] = 0
          /\ by_name'[q] = <<>> /\ by_cookie'[q] = <<>>
      BY <2>1 DEF Forget
    <3> QED BY <3>1 DEF Bounds, Creating, Resetting, Range, Counted
  <2>2. CASE q \notin P
    <3>1. /\ st'[q] = st[q] /\ m'[q] = m[q] /\ f_len'[q] = f_len[q] /\ user'[q] = user[q]
          /\ by_name'[q] = by_name[q] /\ by_cookie'[q] = by_cookie[q]
      BY <2>2 DEF Forget
    <3>2. Bounds(q)
      BY DEF TypeOK
    <3> QED BY <3>1, <3>2 DEF Bounds, Counted
  <2> QED BY <2>1, <2>2
<1> QED BY <1>1, <1>2 DEF TypeOK

LEMMA ExitTypes ==
  ASSUME TypeOK, NEW p \in Procs, Exit(p) PROVE TypeOK'
<1>1. Forget({p}) /\ file' = file /\ synced' = synced /\ acked' = acked
  BY DEF Exit, disk
<1> QED BY <1>1, ForgetTypes DEF TypeOK, Types

LEMMA CrashTypes ==
  ASSUME TypeOK, Crash PROVE TypeOK'
<1>1. Forget(Procs) /\ acked' = acked /\ synced' = file'
  BY DEF Crash
<1>2. file' \in Seq(Record \cup {Torn})
  <2>1. CASE file' \in {synced, file}
    BY <2>1 DEF TypeOK, Types
  <2>2. CASE file' = Append(synced, Torn)
    <3>1. synced \in Seq(Record \cup {Torn}) /\ Torn \in Record \cup {Torn}
      BY DEF TypeOK, Types
    <3> QED BY <2>2, <3>1, AppendProperties
  <2> QED BY <2>1, <2>2 DEF Crash
<1> QED BY <1>1, <1>2, ForgetTypes

LEMMA WroteTypes ==
  ASSUME Types, NEW p \in Procs, NEW r \in Record \cup {Torn}, WriteRecord(p, r)
  PROVE  file' \in Seq(Record \cup {Torn}) /\ off' \in [Procs -> Nat]
<1>1. file \in Seq(Record \cup {Torn}) /\ off \in [Procs -> Nat]
  BY DEF Types
<1>2. CASE off[p] = Len(file)
  <2>1. file' = Append(file, r)
    BY <1>2 DEF WriteRecord
  <2> QED BY <1>1, <2>1, AppendProperties DEF WriteRecord
<1>3. CASE off[p] # Len(file)
  <2>1. file' = [file EXCEPT ![off[p] + 1] = r]
    BY <1>3 DEF WriteRecord
  <2>2. off' \in [Procs -> Nat]
    BY <1>1 DEF WriteRecord
  <2>3. CASE off[p] + 1 \in 1..Len(file)
    BY <1>1, <2>1, <2>2, <2>3, ExceptSeq
  <2>4. CASE off[p] + 1 \notin 1..Len(file)
    <3>1. file' = file
      <4>1. off[p] + 1 \notin DOMAIN file
        BY <1>1, <2>4, LenProperties
      <4> QED BY <1>1, <2>1, <4>1
    <3> QED BY <1>1, <2>2, <3>1
  <2> QED BY <2>3, <2>4
<1> QED BY <1>2, <1>3

LEMMA WriteTypes ==
  ASSUME TypeOK, NEW p \in Procs, Write(p) PROVE TypeOK'
<1>1. /\ st[p] = "write" /\ st' = [st EXCEPT ![p] = "sync"]
      /\ synced' = synced /\ user' = user /\ m' = m /\ f_len' = f_len /\ acked' = acked
      /\ u_len' = u_len /\ by_name' = by_name /\ by_cookie' = by_cookie
      /\ u_cap' = u_cap /\ wild' = wild
  BY DEF Write, Step, index
<1>2. m[p][user[p]] \in Record
  <2>1. m[p] \in Seq(Record) /\ user[p] \in 1..Len(m[p])
    BY <1>1 DEF TypeOK, Types, Bounds, Creating
  <2> QED BY <2>1, ElementOfSeq
<1>3. PICK r \in Record \cup {Torn} : WriteRecord(p, r)
  BY <1>2 DEF Write
<1>4. Types'
  <2>1. file' \in Seq(Record \cup {Torn}) /\ off' \in [Procs -> Nat]
    BY <1>3, WroteTypes DEF TypeOK
  <2>2. wild' \in [Procs -> BOOLEAN] /\ acked' \in [Names -> SUBSET Pws]
    BY <1>1 DEF TypeOK, Types
  <2> QED BY <1>1, <2>1, <2>2 DEF TypeOK, Types
<1>5. Bounds(p)'
  <2>1. Bounds(p) /\ st'[p] = "sync"
    BY <1>1 DEF TypeOK, Types
  <2> QED BY <1>1, <2>1 DEF Bounds, Counted, Creating, Resetting
<1>6. OthersAlike(p)
  BY <1>1 DEF OthersAlike, TypeOK, Types
<1> QED BY <1>4, <1>5, <1>6, OthersBounded DEF TypeOK

LEMMA CreateFailsTypes ==
  ASSUME TypeOK, NEW p \in Procs, CreateFails(p) PROVE TypeOK'
<1>1. file' = file /\ synced' = synced /\ acked' = acked
  BY DEF CreateFails, disk
<1>2. CASE Retries
  <2>1. /\ st[p] \in {"write", "sync"}
        /\ st' = [st EXCEPT ![p] = "ready"] /\ user' = [user EXCEPT ![p] = 0]
        /\ m' = m /\ f_len' = f_len /\ off' = off
        /\ u_len' = u_len /\ by_name' = by_name /\ by_cookie' = by_cookie
        /\ u_cap' = u_cap /\ wild' = wild
    BY <1>2 DEF CreateFails, FailedStep, index
  <2>2. Types'
    <3>1. wild' \in [Procs -> BOOLEAN] /\ acked' \in [Names -> SUBSET Pws]
      BY <1>1, <2>1 DEF TypeOK, Types
    <3> QED BY <1>1, <2>1, <3>1 DEF TypeOK, Types
  <2>3. Bounds(p)'
    <3>1. Bounds(p) /\ st'[p] = "ready"
      BY <2>1 DEF TypeOK, Types
    <3> QED BY <2>1, <3>1 DEF Bounds, Counted, Creating, Resetting
  <2>4. OthersAlike(p)
    BY <2>1 DEF OthersAlike, TypeOK, Types
  <2> QED BY <2>2, <2>3, <2>4, OthersBounded DEF TypeOK
<1>3. CASE ~Retries
  <2>1. Forget({p})
    BY <1>3 DEF CreateFails
  <2> QED BY <1>1, <2>1, ForgetTypes DEF TypeOK, Types
<1> QED BY <1>2, <1>3

LEMMA SyncTypes ==
  ASSUME TypeOK, NEW p \in Procs, Sync(p) PROVE TypeOK'
<1>1. /\ st[p] = "sync" /\ st' = [st EXCEPT ![p] = "index"]
      /\ synced' = file /\ file' = file /\ user' = user /\ m' = m /\ f_len' = f_len
      /\ off' = off /\ acked' = acked
      /\ u_len' = u_len /\ by_name' = by_name /\ by_cookie' = by_cookie
      /\ u_cap' = u_cap /\ wild' = wild
  BY DEF Sync, Step, index
<1>2. Types'
  <2>1. wild' \in [Procs -> BOOLEAN] /\ acked' \in [Names -> SUBSET Pws]
    BY <1>1 DEF TypeOK, Types
  <2> QED BY <1>1, <2>1 DEF TypeOK, Types
<1>3. Bounds(p)'
  <2>1. Bounds(p) /\ st'[p] = "index"
    BY <1>1 DEF TypeOK, Types
  <2> QED BY <1>1, <2>1 DEF Bounds, Counted, Creating, Resetting
<1>4. OthersAlike(p)
  BY <1>1 DEF OthersAlike, TypeOK, Types
<1> QED BY <1>2, <1>3, <1>4, OthersBounded DEF TypeOK

LEMMA IndexTypes ==
  ASSUME TypeOK, NEW p \in Procs, Index(p) PROVE TypeOK'
<1> DEFINE u == user[p]
           i == UpperBound(NamesAlong(p), m[p][u].name)
           j == UpperBound(CookiesAlong(p), m[p][u].cookie)
<1>1. /\ st[p] = "index" /\ st' = [st EXCEPT ![p] = "commit"]
      /\ by_name' = [by_name EXCEPT ![p] = InsertAt(@, i, u)]
      /\ by_cookie' = [by_cookie EXCEPT ![p] = InsertAt(@, j, u)]
      /\ u_len' = [u_len EXCEPT ![p] = @ + 1]
      /\ u_cap' = [u_cap EXCEPT ![p] = IF u_len[p] = @ THEN 2 * @ ELSE @]
      /\ wild' = [wild EXCEPT ![p] = Moves /\ u_len[p] = u_cap[p]]
      /\ file' = file /\ synced' = synced /\ user' = user /\ m' = m /\ f_len' = f_len
      /\ off' = off /\ acked' = acked
  BY DEF Index, Step, disk
<1>2. /\ u = f_len[p] + 1 /\ u \in Nat /\ Len(m[p]) = f_len[p] + 1 /\ f_len[p] \in Nat
      /\ by_name[p] \in Seq(Nat) /\ by_cookie[p] \in Seq(Nat)
      /\ Range(by_name[p]) \subseteq 1..f_len[p] /\ Range(by_cookie[p]) \subseteq 1..f_len[p]
  BY <1>1, ProcTypes, ProcBounds DEF Creating
<1>3. i \in 1..(Len(by_name[p]) + 1) /\ j \in 1..(Len(by_cookie[p]) + 1)
  <2>1. /\ DOMAIN by_name[p] = 1..Len(by_name[p]) /\ Len(by_name[p]) \in Nat
        /\ DOMAIN by_cookie[p] = 1..Len(by_cookie[p]) /\ Len(by_cookie[p]) \in Nat
    BY <1>2, LenProperties
  <2>2. /\ DOMAIN NamesAlong(p) = 1..Len(by_name[p])
        /\ DOMAIN CookiesAlong(p) = 1..Len(by_cookie[p])
    BY <2>1 DEF NamesAlong, CookiesAlong
  <2> QED BY <2>1, <2>2, BoundsWithin
<1> HIDE DEF i, j, u
<1>0. \A s \in Seq(Nat) : \A k \in 1..(Len(s) + 1) : \A w \in Nat :
        InsertAt(s, k, w) \in Seq(Nat) /\ Range(InsertAt(s, k, w)) = Range(s) \cup {w}
  BY InsertAtRange
<1>4. /\ InsertAt(by_name[p], i, u) \in Seq(Nat)
      /\ Range(InsertAt(by_name[p], i, u)) = Range(by_name[p]) \cup {u}
  BY <1>0, <1>2, <1>3
<1>5. /\ InsertAt(by_cookie[p], j, u) \in Seq(Nat)
      /\ Range(InsertAt(by_cookie[p], j, u)) = Range(by_cookie[p]) \cup {u}
  BY <1>0, <1>2, <1>3
<1>6. Types'
  <2>1. by_name' \in [Procs -> Seq(Nat)] /\ by_cookie' \in [Procs -> Seq(Nat)]
    BY <1>1, <1>4, <1>5 DEF TypeOK, Types
  <2>2. wild' \in [Procs -> BOOLEAN]
    <3>1. (Moves /\ u_len[p] = u_cap[p]) \in BOOLEAN
      OBVIOUS
    <3> QED BY <3>1, <1>1 DEF TypeOK, Types
  <2>3. u_cap' \in [Procs -> Nat] /\ u_len' \in [Procs -> Nat]
    <3>1. u_cap \in [Procs -> Nat] /\ u_len \in [Procs -> Nat]
      BY DEF TypeOK, Types
    <3>2. u_len[p] + 1 \in Nat /\ 2 * u_cap[p] \in Nat /\ u_cap[p] \in Nat
      BY <3>1
    <3>3. u_len' = [u_len EXCEPT ![p] = u_len[p] + 1]
      BY <1>1
    <3>4. u_cap' = [u_cap EXCEPT ![p] = IF u_len[p] = u_cap[p] THEN 2 * u_cap[p] ELSE u_cap[p]]
      BY <1>1
    <3>5. (IF u_len[p] = u_cap[p] THEN 2 * u_cap[p] ELSE u_cap[p]) \in Nat
      BY <3>2
    <3> QED BY <3>1, <3>2, <3>3, <3>4, <3>5
  <2>4. st' \in [Procs -> {"off", "ready", "write", "sync", "index", "commit",
                           "pwrite", "psync"}]
    BY <1>1 DEF TypeOK, Types
  <2>5. acked' \in [Names -> SUBSET Pws]
    BY <1>1 DEF TypeOK, Types
  <2> QED BY <1>1, <2>1, <2>2, <2>3, <2>4, <2>5 DEF TypeOK, Types
<1>7. Bounds(p)'
  <2>1. Bounds(p) /\ st'[p] = "commit"
    BY <1>1 DEF TypeOK, Types
  <2>2. /\ by_name'[p] = InsertAt(by_name[p], i, u)
        /\ by_cookie'[p] = InsertAt(by_cookie[p], j, u)
    BY <1>1 DEF TypeOK, Types
  <2>3. user'[p] = f_len'[p] + 1 /\ Len(m'[p]) = f_len'[p] + 1 /\ f_len'[p] <= Len(m'[p])
    BY <1>1, <1>2 DEF u
  <2>4. Counted(p)' = f_len[p] + 1
    BY <1>1, <2>1 DEF Counted
  <2>5. Range(by_name'[p]) \subseteq 1..Counted(p)' /\ Range(by_cookie'[p]) \subseteq 1..Counted(p)'
    <3>1. 1..f_len[p] \cup {u} \subseteq 1..(f_len[p] + 1)
      BY <1>2
    <3> QED BY <1>2, <1>4, <1>5, <2>2, <2>4, <3>1
  <2> QED BY <2>1, <2>3, <2>5 DEF Bounds, Resetting
<1>8. OthersAlike(p)
  BY <1>1 DEF OthersAlike, TypeOK, Types
<1> QED BY <1>6, <1>7, <1>8, OthersBounded DEF TypeOK

LEMMA CommitTypes ==
  ASSUME TypeOK, NEW p \in Procs, Commit(p) PROVE TypeOK'
<1>1. /\ st[p] = "commit" /\ st' = [st EXCEPT ![p] = "ready"]
      /\ f_len' = [f_len EXCEPT ![p] = @ + 1]
      /\ acked' = [acked EXCEPT ![m[p][user[p]].name] = {m[p][user[p]].pw}]
      /\ user' = [user EXCEPT ![p] = 0]
      /\ file' = file /\ synced' = synced /\ m' = m /\ off' = off
      /\ u_len' = u_len /\ by_name' = by_name /\ by_cookie' = by_cookie
      /\ u_cap' = u_cap /\ wild' = wild
  BY DEF Commit, Step, disk, index
<1>2. m[p] \in Seq(Record) /\ user[p] \in 1..Len(m[p])
  BY <1>1 DEF TypeOK, Types, Bounds, Creating
<1>3. Types'
  <2>1. acked' \in [Names -> SUBSET Pws]
    BY <1>1, <1>2, RecordFields DEF TypeOK, Types
  <2>2. wild' \in [Procs -> BOOLEAN]
    BY <1>1 DEF TypeOK, Types
  <2> QED BY <1>1, <2>1, <2>2 DEF TypeOK, Types
<1>4. Bounds(p)'
  <2>1. Bounds(p) /\ st'[p] = "ready" /\ f_len'[p] = f_len[p] + 1 /\ f_len[p] \in Nat
    BY <1>1 DEF TypeOK, Types
  <2> QED BY <1>1, <2>1 DEF Bounds, Counted, Creating, Resetting
<1>5. OthersAlike(p)
  BY <1>1 DEF OthersAlike, TypeOK, Types
<1> QED BY <1>3, <1>4, <1>5, OthersBounded DEF TypeOK

LEMMA CreateTypes ==
  ASSUME TypeOK, NEW p \in Procs, NEW n \in Names, NEW pw \in Pws, NEW c \in Cookies,
         Create(p, n, pw, c)
  PROVE  TypeOK'
<1> DEFINE r == [name |-> n, cookie |-> c, pw |-> pw]
<1>1. /\ st[p] = "ready" /\ st' = [st EXCEPT ![p] = "write"]
      /\ m' = [m EXCEPT ![p] = Append(SubSeq(@, 1, f_len[p]), r)]
      /\ user' = [user EXCEPT ![p] = f_len[p] + 1]
      /\ by_cookie' = [by_cookie EXCEPT ![p] = SortByCookie(@, m'[p])]
      /\ file' = file /\ synced' = synced /\ u_len' = u_len /\ f_len' = f_len /\ off' = off
      /\ by_name' = by_name /\ u_cap' = u_cap /\ wild' = wild /\ acked' = acked
  BY DEF Create, Step, disk
<1>2. r \in Record
  BY DEF Record
<1> HIDE DEF r
<1>3. m'[p] = Append(SubSeq(m[p], 1, f_len[p]), r)
  BY <1>1 DEF TypeOK, Types
<1>4. m'[p] \in Seq(Record) /\ Len(m'[p]) = f_len[p] + 1 /\ f_len[p] \in Nat
  BY <1>2, <1>3, CreatedImage, ProcTypes
<1>5. by_cookie[p] \in Seq(Nat) /\ Range(by_cookie[p]) \subseteq 1..f_len[p]
      /\ Range(by_name[p]) \subseteq 1..f_len[p]
  BY <1>1, ProcTypes, ProcBounds
<1>6. by_cookie'[p] \in Seq(Nat) /\ Range(by_cookie'[p]) = Range(by_cookie[p])
  <2>1. by_cookie'[p] = SortByCookie(by_cookie[p], m'[p])
    BY <1>1 DEF TypeOK, Types
  <2>2. Range(by_cookie[p]) \subseteq 1..Len(m'[p])
    BY <1>4, <1>5
  <2> QED BY <1>4, <1>5, <2>1, <2>2, SortedByCookie
<1>7. Types'
  <2>1. m' \in [Procs -> Seq(Record)]
    BY <1>1, <1>3, <1>4 DEF TypeOK, Types
  <2>2. by_cookie' \in [Procs -> Seq(Nat)]
    BY <1>1, <1>6 DEF TypeOK, Types
  <2>3. st' \in [Procs -> {"off", "ready", "write", "sync", "index", "commit",
                           "pwrite", "psync"}]
    BY <1>1 DEF TypeOK, Types
  <2>4. user' \in [Procs -> Nat]
    BY <1>1, <1>4 DEF TypeOK, Types
  <2>5. wild' \in [Procs -> BOOLEAN] /\ acked' \in [Names -> SUBSET Pws]
    BY <1>1 DEF TypeOK, Types
  <2> QED BY <1>1, <2>1, <2>2, <2>3, <2>4, <2>5 DEF TypeOK, Types
<1>8. Bounds(p)'
  <2>1. st'[p] = "write" /\ user'[p] = f_len[p] + 1 /\ f_len'[p] = f_len[p]
    BY <1>1 DEF TypeOK, Types
  <2> QED BY <1>1, <1>4, <1>5, <1>6, <2>1 DEF Bounds, Counted, Creating, Resetting
<1>9. OthersAlike(p)
  BY <1>1 DEF OthersAlike, TypeOK, Types
<1> QED BY <1>7, <1>8, <1>9, OthersBounded DEF TypeOK

(* A record with another password and another cookie. *)
LEMMA RecordChanged ==
  ASSUME NEW r \in Record, NEW pw, NEW c
  PROVE  [r EXCEPT !.pw = pw, !.cookie = c] = [name |-> r.name, cookie |-> c, pw |-> pw]
<1>1. r = [name |-> r.name, cookie |-> r.cookie, pw |-> r.pw]
  BY DEF Record
<1>2. [r EXCEPT !.pw = pw] = [name |-> r.name, cookie |-> r.cookie, pw |-> pw]
  BY <1>1
<1>3. \A a, b, d : [[name |-> a, cookie |-> b, pw |-> d] EXCEPT !.cookie = c]
                     = [name |-> a, cookie |-> c, pw |-> d]
  OBVIOUS
<1>4. [[r EXCEPT !.pw = pw] EXCEPT !.cookie = c]
        = [[name |-> r.name, cookie |-> r.cookie, pw |-> pw] EXCEPT !.cookie = c]
  BY <1>2, Zenon
<1>5. [[r EXCEPT !.pw = pw] EXCEPT !.cookie = c] = [name |-> r.name, cookie |-> c, pw |-> pw]
  BY <1>3, <1>4, Zenon
<1> QED BY <1>5

(* The image with one user's hash and cookie changed. *)
LEMMA ResetImage ==
  ASSUME TypeOK, NEW p \in Procs, NEW n \in Names, NEW pw \in Pws, NEW c \in Cookies,
         Reset(p, n, pw, c), NEW u, u = FindByName(p, n)
  PROVE  /\ st[p] = "ready" /\ u \in 1..f_len[p] /\ u \in DOMAIN m[p] /\ m[p][u].name = n
         /\ m' = [m EXCEPT ![p] = m'[p]]
         /\ m'[p] \in Seq(Record) /\ Len(m'[p]) = Len(m[p])
         /\ m'[p][u] = [name |-> n, cookie |-> c, pw |-> pw]
         /\ \A i \in 1..Len(m[p]) : i # u => m'[p][i] = m[p][i]
<1>1. st[p] = "ready" /\ u # 0
  BY DEF Reset, Step
<1>2. u \in Range(by_name[p]) /\ m[p][u].name = n
  BY <1>1, FoundIsListed
<1>3. /\ u \in 1..f_len[p] /\ f_len[p] <= Len(m[p]) /\ f_len[p] \in Nat
      /\ m[p] \in Seq(Record) /\ Len(m[p]) \in Nat
  BY <1>1, <1>2, ProcTypes, ProcBounds
<1>4. u \in 1..Len(m[p]) /\ DOMAIN m[p] = 1..Len(m[p])
  BY <1>3
<1>5. m' = [m EXCEPT ![p] = [m[p] EXCEPT ![u] = [m[p][u] EXCEPT !.pw = pw, !.cookie = c]]]
  BY DEF Reset
<1>6. m[p][u] \in Record
  BY <1>3, <1>4, ElementOfSeq
<1>7. [m[p][u] EXCEPT !.pw = pw, !.cookie = c] = [name |-> n, cookie |-> c, pw |-> pw]
  <2>1. \A r \in Record : [r EXCEPT !.pw = pw, !.cookie = c]
                            = [name |-> r.name, cookie |-> c, pw |-> pw]
    BY RecordChanged, Zenon
  <2> QED BY <1>2, <1>6, <2>1
<1>8. [name |-> n, cookie |-> c, pw |-> pw] \in Record
  BY DEF Record
<1>9. m'[p] = [m[p] EXCEPT ![u] = [name |-> n, cookie |-> c, pw |-> pw]]
  BY <1>5, <1>7 DEF TypeOK, Types
<1>10. m' = [m EXCEPT ![p] = m'[p]]
  BY <1>5, <1>7, <1>9
<1>11. /\ m'[p] \in Seq(Record) /\ Len(m'[p]) = Len(m[p])
       /\ m'[p][u] = [name |-> n, cookie |-> c, pw |-> pw]
       /\ \A i \in 1..Len(m[p]) : i # u => m'[p][i] = m[p][i]
  BY <1>3, <1>4, <1>8, <1>9, ExceptSeq
<1> QED BY <1>1, <1>2, <1>3, <1>4, <1>10, <1>11

LEMMA ResetTypes ==
  ASSUME TypeOK, NEW p \in Procs, NEW n \in Names, NEW pw \in Pws, NEW c \in Cookies,
         Reset(p, n, pw, c)
  PROVE  TypeOK'
<1> DEFINE u == FindByName(p, n)
<1>1. /\ st' = [st EXCEPT ![p] = "pwrite"]
      /\ user' = [user EXCEPT ![p] = u]
      /\ by_cookie' = [by_cookie EXCEPT ![p] = SortByCookie(@, m'[p])]
      /\ acked' = [acked EXCEPT ![n] = IF @ = {} THEN {} ELSE @ \cup {pw}]
      /\ file' = file /\ synced' = synced /\ u_len' = u_len /\ f_len' = f_len /\ off' = off
      /\ by_name' = by_name /\ u_cap' = u_cap /\ wild' = wild
  BY DEF Reset, Step, disk
<1> HIDE DEF u
<1>2. /\ st[p] = "ready" /\ u \in 1..f_len[p]
      /\ m' = [m EXCEPT ![p] = m'[p]]
      /\ m'[p] \in Seq(Record) /\ Len(m'[p]) = Len(m[p])
  BY ResetImage DEF u
<1>3. /\ by_cookie[p] \in Seq(Nat) /\ Range(by_cookie[p]) \subseteq 1..f_len[p]
      /\ f_len[p] \in Nat /\ f_len[p] <= Len(m[p]) /\ Len(m[p]) \in Nat
      /\ Range(by_name[p]) \subseteq 1..f_len[p]
  BY <1>2, ProcTypes, ProcBounds
<1>4. by_cookie'[p] \in Seq(Nat) /\ Range(by_cookie'[p]) = Range(by_cookie[p])
  <2>1. by_cookie'[p] = SortByCookie(by_cookie[p], m'[p])
    BY <1>1 DEF TypeOK, Types
  <2>2. Range(by_cookie[p]) \subseteq 1..Len(m'[p])
    BY <1>2, <1>3
  <2> QED BY <1>2, <1>3, <2>1, <2>2, SortedByCookie
<1>5. Types'
  <2>1. m' \in [Procs -> Seq(Record)]
    BY <1>2 DEF TypeOK, Types
  <2>2. by_cookie' \in [Procs -> Seq(Nat)]
    BY <1>1, <1>4 DEF TypeOK, Types
  <2>3. st' \in [Procs -> {"off", "ready", "write", "sync", "index", "commit",
                           "pwrite", "psync"}]
    BY <1>1 DEF TypeOK, Types
  <2>4. user' \in [Procs -> Nat]
    BY <1>1, <1>2, <1>3 DEF TypeOK, Types
  <2>5. wild' \in [Procs -> BOOLEAN] /\ acked' \in [Names -> SUBSET Pws]
    BY <1>1 DEF TypeOK, Types
  <2> QED BY <1>1, <2>1, <2>2, <2>3, <2>4, <2>5 DEF TypeOK, Types
<1>6. Bounds(p)'
  <2>1. st'[p] = "pwrite" /\ user'[p] = u /\ f_len'[p] = f_len[p]
    BY <1>1 DEF TypeOK, Types
  <2> QED BY <1>1, <1>2, <1>3, <1>4, <2>1 DEF Bounds, Counted, Creating, Resetting
<1>7. OthersAlike(p)
  <2>1. \A q \in Procs \ {p} : m'[q] = m[q]
    BY <1>2 DEF TypeOK, Types
  <2> QED BY <1>1, <2>1 DEF OthersAlike, TypeOK, Types
<1> QED BY <1>5, <1>6, <1>7, OthersBounded DEF TypeOK

LEMMA PwriteTypes ==
  ASSUME TypeOK, NEW p \in Procs, Pwrite(p) PROVE TypeOK'
<1> DEFINE u == user[p]
           x == IF file[u] = Torn THEN Torn
                ELSE [file[u] EXCEPT !.pw = m[p][u].pw, !.cookie = m[p][u].cookie]
<1>1. /\ st[p] = "pwrite" /\ st' = [st EXCEPT ![p] = "psync"] /\ u \in DOMAIN file
      /\ file' = [file EXCEPT ![u] = x]
      /\ synced' = synced /\ user' = user /\ m' = m /\ f_len' = f_len /\ off' = off
      /\ acked' = acked
      /\ u_len' = u_len /\ by_name' = by_name /\ by_cookie' = by_cookie
      /\ u_cap' = u_cap /\ wild' = wild
  BY DEF Pwrite, Step, index
<1>2. file \in Seq(Record \cup {Torn}) /\ u \in 1..Len(file)
  <2>1. file \in Seq(Record \cup {Torn})
    BY DEF TypeOK, Types
  <2> QED BY <2>1, <1>1, LenProperties
<1>3. u \in 1..Len(m[p]) /\ m[p] \in Seq(Record)
  <2>1. u \in 1..f_len[p]
    BY <1>1, ProcBounds DEF Resetting
  <2> QED BY <2>1, ProcTypes
<1>4. x \in Record \cup {Torn}
  <2>1. CASE file[u] = Torn
    BY <2>1
  <2>2. CASE file[u] # Torn
    <3>1. file[u] \in Record
      BY <1>2, <2>2, ElementOfSeq
    <3>2. m[p][u].pw \in Pws /\ m[p][u].cookie \in Cookies
      BY <1>3, RecordFields
    <3>3. [file[u] EXCEPT !.pw = m[p][u].pw, !.cookie = m[p][u].cookie] \in Record
      BY <3>1, <3>2 DEF Record
    <3> QED BY <2>2, <3>3
  <2> QED BY <2>1, <2>2
<1> HIDE DEF x
<1>5. Types'
  <2>1. file' \in Seq(Record \cup {Torn})
    BY <1>1, <1>2, <1>4, ExceptSeq
  <2>2. wild' \in [Procs -> BOOLEAN] /\ acked' \in [Names -> SUBSET Pws]
    BY <1>1 DEF TypeOK, Types
  <2> QED BY <1>1, <2>1, <2>2 DEF TypeOK, Types
<1>6. Bounds(p)'
  <2>1. Bounds(p) /\ st'[p] = "psync"
    BY <1>1 DEF TypeOK, Types
  <2> QED BY <1>1, <2>1 DEF Bounds, Counted, Creating, Resetting
<1>7. OthersAlike(p)
  BY <1>1 DEF OthersAlike, TypeOK, Types
<1> QED BY <1>5, <1>6, <1>7, OthersBounded DEF TypeOK

LEMMA PsyncTypes ==
  ASSUME TypeOK, NEW p \in Procs, Psync(p) PROVE TypeOK'
<1>1. /\ st[p] = "psync" /\ st' = [st EXCEPT ![p] = "ready"]
      /\ synced' = file /\ file' = file
      /\ acked' = [acked EXCEPT ![m[p][user[p]].name] = {m[p][user[p]].pw}]
      /\ user' = [user EXCEPT ![p] = 0] /\ m' = m /\ f_len' = f_len /\ off' = off
      /\ u_len' = u_len /\ by_name' = by_name /\ by_cookie' = by_cookie
      /\ u_cap' = u_cap /\ wild' = wild
  BY DEF Psync, Step, index
<1>2. m[p] \in Seq(Record) /\ user[p] \in 1..Len(m[p])
  BY <1>1, ProcTypes, ProcBounds DEF Resetting
<1>3. Types'
  <2>1. acked' \in [Names -> SUBSET Pws]
    BY <1>1, <1>2, RecordFields DEF TypeOK, Types
  <2>2. wild' \in [Procs -> BOOLEAN]
    BY <1>1 DEF TypeOK, Types
  <2> QED BY <1>1, <2>1, <2>2 DEF TypeOK, Types
<1>4. Bounds(p)'
  <2>1. Bounds(p) /\ st'[p] = "ready"
    BY <1>1 DEF TypeOK, Types
  <2> QED BY <1>1, <2>1 DEF Bounds, Counted, Creating, Resetting
<1>5. OthersAlike(p)
  BY <1>1 DEF OthersAlike, TypeOK, Types
<1> QED BY <1>3, <1>4, <1>5, OthersBounded DEF TypeOK

(* ResetCookie() is Reset() with the password that the user has. *)
LEMMA ResetCookieIsReset ==
  ASSUME TypeOK, NEW p \in Procs, NEW n \in Names, NEW c \in Cookies, ResetCookie(p, n, c)
  PROVE  \E pw \in Pws : Reset(p, n, pw, c)
<1> DEFINE u == FindByName(p, n)
<1>1. u # 0 /\ Reset(p, n, m[p][u].pw, c)
  BY DEF ResetCookie
<1>2. u \in Range(by_name[p])
  BY <1>1, FoundIsListed
<1>3. st[p] = "ready"
  BY <1>1 DEF Reset, Step
<1> HIDE DEF u
<1>4. u \in 1..Len(m[p]) /\ m[p] \in Seq(Record)
  <2>1. Counted(p) = f_len[p] /\ u \in 1..Counted(p)
    BY <1>2, <1>3, ProcBounds
  <2> QED BY <2>1, ProcTypes
<1> QED BY <1>1, <1>4, RecordFields

(* Every step is one of these. *)
LEMMA NextCases ==
  ASSUME TypeOK, Next
  PROVE  \/ Crash
         \/ \E p \in Procs :
              \/ Alone(p) /\ Load(p)
              \/ Exit(p) \/ Write(p) \/ CreateFails(p) \/ Sync(p) \/ Index(p) \/ Commit(p)
              \/ Pwrite(p) \/ Psync(p)
              \/ \E n \in Names, c \in Cookies, pw \in Pws :
                   Create(p, n, pw, c) \/ Reset(p, n, pw, c)
<1> SUFFICES ASSUME NEW p \in Procs, NEW n \in Names, NEW c \in Cookies,
                    \/ \E pw \in Pws : Create(p, n, pw, c) \/ ResetPw(p, n, pw, c)
                    \/ ResetCookie(p, n, c)
             PROVE  \E pw \in Pws : Create(p, n, pw, c) \/ Reset(p, n, pw, c)
  BY DEF Next
<1> QED BY ResetCookieIsReset DEF ResetPw

LEMMA NextTypes == TypeOK /\ [Next]_vars => TypeOK'
<1>1. ASSUME TypeOK, Next PROVE TypeOK'
  <2>1. CASE Crash
    BY <1>1, <2>1, CrashTypes
  <2>2. ASSUME NEW p \in Procs, Alone(p) /\ Load(p) PROVE TypeOK'
    BY <1>1, <2>2, LoadTypes
  <2>3. ASSUME NEW p \in Procs, Exit(p) \/ Write(p) \/ CreateFails(p) \/ Sync(p) PROVE TypeOK'
    BY <1>1, <2>3, ExitTypes, WriteTypes, CreateFailsTypes, SyncTypes
  <2>4. ASSUME NEW p \in Procs, Index(p) \/ Commit(p) \/ Pwrite(p) \/ Psync(p) PROVE TypeOK'
    BY <1>1, <2>4, IndexTypes, CommitTypes, PwriteTypes, PsyncTypes
  <2>5. ASSUME NEW p \in Procs, NEW n \in Names, NEW c \in Cookies, NEW pw \in Pws,
               Create(p, n, pw, c) \/ Reset(p, n, pw, c)
        PROVE  TypeOK'
    BY <1>1, <2>5, CreateTypes, ResetTypes
  <2> QED BY <1>1, <2>1, <2>2, <2>3, <2>4, <2>5, NextCases
<1>2. ASSUME TypeOK, UNCHANGED vars PROVE TypeOK'
  <2>1. Types'
    BY <1>2 DEF TypeOK, Types, vars, disk, index
  <2>2. ASSUME NEW p \in Procs PROVE Bounds(p)'
    BY <1>2 DEF TypeOK, Bounds, Counted, vars, index
  <2> QED BY <2>1, <2>2 DEF TypeOK
<1> QED BY <1>1, <1>2

(* Every variable keeps its type, whatever fails and whoever retries, and   *)
(* every record that an index names, or a call is about to write, is in the *)
(* image.                                                                   *)
THEOREM TypeCorrect == Spec => []TypeOK
<1> QED BY InitTypes, NextTypes, PTL DEF Spec

------------------------------------------------------------------------------
(* Indexes and file *)

LEMMA SortedByNameIncreases ==
  ASSUME NEW s \in Seq(Nat), NEW image \in Seq(Record), Range(s) \subseteq 1..Len(image),
         \A i, j \in 1..Len(s) : i # j => image[s[i]].name # image[s[j]].name,
         NEW t, t = SortByName(s, image)
  PROVE  \A i, j \in 1..Len(s) : i < j => image[t[i]].name < image[t[j]].name
<1> DEFINE key == [i \in DOMAIN image |-> image[i].name]
<1>1. DOMAIN image = 1..Len(image) /\ DOMAIN s = 1..Len(s)
  BY LenProperties
<1>2. \A i \in 1..Len(image) : key[i] = image[i].name /\ key[i] \in Nat
  BY <1>1, RecordFields
<1>3. \A i \in 1..Len(s) : s[i] \in 1..Len(image)
  BY <1>1 DEF Range
<1>4. t = SortBy(s, key)
  BY DEF SortByName
<1>5. t \in Seq(Nat) /\ Len(t) = Len(s) /\ \A i \in 1..Len(s) : t[i] \in 1..Len(image)
  <2>1. t \in Seq(Nat) /\ Len(t) = Len(s) /\ Range(t) = Range(s)
    BY SortedByName
  <2>2. DOMAIN t = 1..Len(s)
    BY <2>1, LenProperties
  <2> QED BY <2>1, <2>2 DEF Range
<1> HIDE DEF key
<1>6. Keyed(s, key) /\ \A i, j \in DOMAIN s : i # j => key[s[i]] # key[s[j]]
  BY <1>1, <1>2, <1>3 DEF Keyed
<1>7. \A i, j \in 1..Len(s) : i < j => key[SortBy(s, key)[i]] < key[SortBy(s, key)[j]]
  BY <1>6, SortIncreases
<1>8. \A i, j \in 1..Len(s) : i < j => key[t[i]] < key[t[j]]
  BY <1>4, <1>7
<1>9. \A i \in 1..Len(s) : key[t[i]] = image[t[i]].name
  BY <1>2, <1>5
<1> QED BY <1>8, <1>9

LEMMA SortedByCookieIncreases ==
  ASSUME NEW s \in Seq(Nat), NEW image \in Seq(Record), Range(s) \subseteq 1..Len(image),
         \A i, j \in 1..Len(s) : i # j => image[s[i]].cookie # image[s[j]].cookie,
         NEW t, t = SortByCookie(s, image)
  PROVE  \A i, j \in 1..Len(s) : i < j => image[t[i]].cookie < image[t[j]].cookie
<1> DEFINE key == [i \in DOMAIN image |-> image[i].cookie]
<1>1. DOMAIN image = 1..Len(image) /\ DOMAIN s = 1..Len(s)
  BY LenProperties
<1>2. \A i \in 1..Len(image) : key[i] = image[i].cookie /\ key[i] \in Nat
  BY <1>1, RecordFields
<1>3. \A i \in 1..Len(s) : s[i] \in 1..Len(image)
  BY <1>1 DEF Range
<1>4. t = SortBy(s, key)
  BY DEF SortByCookie
<1>5. t \in Seq(Nat) /\ Len(t) = Len(s) /\ \A i \in 1..Len(s) : t[i] \in 1..Len(image)
  <2>1. t \in Seq(Nat) /\ Len(t) = Len(s) /\ Range(t) = Range(s)
    BY SortedByCookie
  <2>2. DOMAIN t = 1..Len(s)
    BY <2>1, LenProperties
  <2> QED BY <2>1, <2>2 DEF Range
<1> HIDE DEF key
<1>6. Keyed(s, key) /\ \A i, j \in DOMAIN s : i # j => key[s[i]] # key[s[j]]
  BY <1>1, <1>2, <1>3 DEF Keyed
<1>7. \A i, j \in 1..Len(s) : i < j => key[SortBy(s, key)[i]] < key[SortBy(s, key)[j]]
  BY <1>6, SortIncreases
<1>8. \A i, j \in 1..Len(s) : i < j => key[t[i]] < key[t[j]]
  BY <1>4, <1>7
<1>9. \A i \in 1..Len(s) : key[t[i]] = image[t[i]].cookie
  BY <1>2, <1>5
<1> QED BY <1>8, <1>9

(* What Indexed() says, with the keys read from the image. *)
LEMMA IndexedFacts ==
  ASSUME TypeOK, NEW p \in Procs, Indexed(p), NEW n, n = Counted(p)
  PROVE  /\ n \in Nat /\ n <= Len(m[p]) /\ u_len[p] = n
         /\ by_name[p] \in Seq(Nat) /\ Len(by_name[p]) = n
         /\ by_cookie[p] \in Seq(Nat) /\ Len(by_cookie[p]) = n
         /\ \A i \in 1..n : by_name[p][i] \in 1..n /\ by_cookie[p][i] \in 1..n
         /\ \A k \in 1..n : \E i \in 1..n : by_name[p][i] = k
         /\ \A k \in 1..n : \E i \in 1..n : by_cookie[p][i] = k
         /\ \A i, j \in 1..n :
              i < j => m[p][by_name[p][i]].name < m[p][by_name[p][j]].name
         /\ \A i, j \in 1..n :
              i < j => m[p][by_cookie[p][i]].cookie < m[p][by_cookie[p][j]].cookie
<1>1. n \in Nat /\ n <= Len(m[p])
  BY ProcTypes, ProcBounds DEF Creating
<1>2. /\ u_len[p] = n
      /\ by_name[p] \in Seq(Nat) /\ Len(by_name[p]) = n /\ DOMAIN by_name[p] = 1..n
      /\ by_cookie[p] \in Seq(Nat) /\ Len(by_cookie[p]) = n /\ DOMAIN by_cookie[p] = 1..n
  BY ProcTypes DEF Indexed
<1>3. Range(by_name[p]) = 1..n /\ Range(by_cookie[p]) = 1..n
  BY DEF Indexed
<1>4. /\ \A i \in 1..n : by_name[p][i] \in 1..n
      /\ \A k \in 1..n : \E i \in 1..n : by_name[p][i] = k
  BY <1>2, <1>3 DEF Range
<1>5. /\ \A i \in 1..n : by_cookie[p][i] \in 1..n
      /\ \A k \in 1..n : \E i \in 1..n : by_cookie[p][i] = k
  BY <1>2, <1>3 DEF Range
<1>6. \A i, j \in 1..n : i < j => m[p][by_name[p][i]].name < m[p][by_name[p][j]].name
  BY <1>2 DEF Indexed, Increasing, NamesAlong
<1>7. \A i, j \in 1..n : i < j => m[p][by_cookie[p][i]].cookie < m[p][by_cookie[p][j]].cookie
  BY <1>2 DEF Indexed, Increasing, CookiesAlong
<1> QED BY <1>1, <1>2, <1>4, <1>5, <1>6, <1>7

(* Indexed users differ in name and in cookie. *)
LEMMA KeysDiffer ==
  ASSUME TypeOK, NEW p \in Procs, Indexed(p)
  PROVE  \A i, j \in 1..Counted(p) :
           i # j => m[p][i].name # m[p][j].name /\ m[p][i].cookie # m[p][j].cookie
<1> DEFINE n == Counted(p)
<1>1. n \in Nat /\ n <= Len(m[p]) /\ m[p] \in Seq(Record)
  BY IndexedFacts, ProcTypes
<1>2. \A i \in 1..n : m[p][i].name \in Nat /\ m[p][i].cookie \in Nat
  <2>1. Len(m[p]) \in Nat
    BY ProcTypes
  <2>2. \A i \in 1..n : i \in 1..Len(m[p])
    BY <1>1, <2>1
  <2> QED BY <1>1, <2>2, RecordFields
<1> SUFFICES ASSUME NEW i \in 1..n, NEW j \in 1..n, i # j
             PROVE  m[p][i].name # m[p][j].name /\ m[p][i].cookie # m[p][j].cookie
  OBVIOUS
<1>3. m[p][i].name # m[p][j].name
  <2>1. PICK a \in 1..n : by_name[p][a] = i
    BY IndexedFacts
  <2>2. PICK b \in 1..n : by_name[p][b] = j
    BY IndexedFacts
  <2>3. a < b \/ b < a
    BY <2>1, <2>2, <1>1
  <2>4. m[p][i].name < m[p][j].name \/ m[p][j].name < m[p][i].name
    BY <2>1, <2>2, <2>3, IndexedFacts
  <2> QED BY <2>4, <1>2
<1>4. m[p][i].cookie # m[p][j].cookie
  <2>1. PICK a \in 1..n : by_cookie[p][a] = i
    BY IndexedFacts
  <2>2. PICK b \in 1..n : by_cookie[p][b] = j
    BY IndexedFacts
  <2>3. a < b \/ b < a
    BY <2>1, <2>2, <1>1
  <2>4. m[p][i].cookie < m[p][j].cookie \/ m[p][j].cookie < m[p][i].cookie
    BY <2>1, <2>2, <2>3, IndexedFacts
  <2> QED BY <2>4, <1>2
<1> QED BY <1>3, <1>4

(* Two places of the index by cookie hold different cookies. *)
LEMMA CookiesAlongDiffer ==
  ASSUME TypeOK, NEW p \in Procs, Indexed(p), NEW n, n = Counted(p)
  PROVE  \A i, j \in 1..n : i # j => m[p][by_cookie[p][i]].cookie # m[p][by_cookie[p][j]].cookie
<1> SUFFICES ASSUME NEW i \in 1..n, NEW j \in 1..n, i # j
             PROVE  m[p][by_cookie[p][i]].cookie # m[p][by_cookie[p][j]].cookie
  OBVIOUS
<1> DEFINE a == by_cookie[p][i]
           b == by_cookie[p][j]
<1>1. n \in Nat /\ a \in 1..n /\ b \in 1..n
  BY IndexedFacts
<1>2. m[p][a].cookie < m[p][b].cookie \/ m[p][b].cookie < m[p][a].cookie
  <2>1. i < j \/ j < i
    BY <1>1
  <2> QED BY <2>1, IndexedFacts
<1> HIDE DEF a, b
<1>3. a # b
  <2>1. a \in 1..Len(m[p]) /\ m[p] \in Seq(Record)
    <3>1. n <= Len(m[p]) /\ Len(m[p]) \in Nat /\ m[p] \in Seq(Record)
      BY IndexedFacts, ProcTypes
    <3> QED BY <1>1, <3>1
  <2>2. m[p][a].cookie \in Nat
    BY <2>1, RecordFields
  <2> QED BY <1>2, <2>2
<1>4. m[p][a].cookie # m[p][b].cookie
  BY <1>1, <1>3, KeysDiffer
<1> QED BY <1>4 DEF a, b

(* A name or cookie that binary search does not find, no indexed user has. *)
LEMMA NotFound ==
  ASSUME TypeOK, NEW p \in Procs, Indexed(p), NEW k \in Nat
  PROVE  /\ FindByName(p, k) = 0 => \A u \in 1..Counted(p) : m[p][u].name # k
         /\ FindByCookie(p, k) = 0 => \A u \in 1..Counted(p) : m[p][u].cookie # k
<1> DEFINE n == Counted(p)
<1>1. /\ n \in Nat /\ n <= Len(m[p]) /\ m[p] \in Seq(Record) /\ Len(m[p]) \in Nat
      /\ DOMAIN by_name[p] = 1..n /\ DOMAIN by_cookie[p] = 1..n
  BY IndexedFacts, ProcTypes
<1>2. \A u \in 1..n : m[p][u].name \in Nat /\ m[p][u].cookie \in Nat
  <2>1. \A u \in 1..n : u \in 1..Len(m[p])
    BY <1>1
  <2> QED BY <1>1, <2>1, RecordFields
<1>3. /\ \A u \in 1..n : \E i \in 1..n : by_name[p][i] = u
      /\ \A u \in 1..n : \E i \in 1..n : by_cookie[p][i] = u
  BY IndexedFacts
<1>4. \A i, j \in 1..n : i < j => m[p][by_name[p][i]].name < m[p][by_name[p][j]].name
  BY IndexedFacts
<1>5. \A i, j \in 1..n : i < j => m[p][by_cookie[p][i]].cookie < m[p][by_cookie[p][j]].cookie
  BY IndexedFacts
<1>6. ASSUME NEW u \in 1..n, m[p][u].name = k PROVE FindByName(p, k) # 0
  <2> DEFINE keys == NamesAlong(p)
             l == LowerBound(keys, k)
  <2>1. \A i \in 1..n : by_name[p][i] \in 1..n /\ keys[i] = m[p][by_name[p][i]].name
    BY <1>1, IndexedFacts DEF NamesAlong
  <2>2. keys \in [1..n -> Nat]
    BY <1>1, <1>2, <2>1 DEF NamesAlong
  <2>3. \A i, j \in 1..n : i < j => keys[i] < keys[j]
    BY <2>1, <1>4
  <2>4. PICK a \in 1..n : by_name[p][a] = u
    BY <1>3
  <2>5. keys[a] = k
    BY <1>6, <2>1, <2>4
  <2> HIDE DEF keys, n
  <2>6. l \in 1..(n + 1) /\ \A i \in 1..n : keys[i] < k <=> i < l
    BY <1>1, <2>2, <2>3, BoundsSplit
  <2> HIDE DEF l
  <2>7. l <= a
    BY <1>1, <2>2, <2>5, <2>6
  <2>8. l \in 1..n /\ keys[l] = k
    <3>1. l \in 1..n
      BY <1>1, <2>6, <2>7
    <3>2. ~(keys[l] < k) /\ (l = a \/ keys[l] < k)
      BY <1>1, <2>3, <2>5, <2>6, <2>7, <3>1
    <3> QED BY <2>5, <3>1, <3>2
  <2>9. FindByName(p, k) = by_name[p][l]
    BY <1>1, <2>8 DEF FindByName, l, keys
  <2>10. by_name[p][l] \in 1..n
    BY <2>1, <2>8
  <2> QED BY <2>9, <2>10, <1>1
<1>7. ASSUME NEW u \in 1..n, m[p][u].cookie = k PROVE FindByCookie(p, k) # 0
  <2> DEFINE keys == CookiesAlong(p)
             l == LowerBound(keys, k)
  <2>1. \A i \in 1..n : by_cookie[p][i] \in 1..n /\ keys[i] = m[p][by_cookie[p][i]].cookie
    BY <1>1, IndexedFacts DEF CookiesAlong
  <2>2. keys \in [1..n -> Nat]
    BY <1>1, <1>2, <2>1 DEF CookiesAlong
  <2>3. \A i, j \in 1..n : i < j => keys[i] < keys[j]
    BY <2>1, <1>5
  <2>4. PICK a \in 1..n : by_cookie[p][a] = u
    BY <1>3
  <2>5. keys[a] = k
    BY <1>7, <2>1, <2>4
  <2> HIDE DEF keys, n
  <2>6. l \in 1..(n + 1) /\ \A i \in 1..n : keys[i] < k <=> i < l
    BY <1>1, <2>2, <2>3, BoundsSplit
  <2> HIDE DEF l
  <2>7. l <= a
    BY <1>1, <2>2, <2>5, <2>6
  <2>8. l \in 1..n /\ keys[l] = k
    <3>1. l \in 1..n
      BY <1>1, <2>6, <2>7
    <3>2. ~(keys[l] < k) /\ (l = a \/ keys[l] < k)
      BY <1>1, <2>3, <2>5, <2>6, <2>7, <3>1
    <3> QED BY <2>5, <3>1, <3>2
  <2>9. FindByCookie(p, k) = by_cookie[p][l]
    BY <1>1, <2>8 DEF FindByCookie, l, keys
  <2>10. by_cookie[p][l] \in 1..n
    BY <2>1, <2>8
  <2> QED BY <2>9, <2>10, <1>1
<1> QED BY <1>6, <1>7

(* The other way round: what an index must be after a step. *)
LEMMA IndexedAfter ==
  ASSUME TypeOK', NEW p \in Procs, NEW n \in Nat, n = Counted(p)', u_len'[p] = n,
         Len(by_name'[p]) = n, Len(by_cookie'[p]) = n,
         Range(by_name'[p]) = 1..n, Range(by_cookie'[p]) = 1..n,
         \A i, j \in 1..n :
           i < j => m'[p][by_name'[p][i]].name < m'[p][by_name'[p][j]].name,
         \A i, j \in 1..n :
           i < j => m'[p][by_cookie'[p][i]].cookie < m'[p][by_cookie'[p][j]].cookie
  PROVE  Indexed(p)'
<1>1. DOMAIN by_name'[p] = 1..n /\ DOMAIN by_cookie'[p] = 1..n
  <2>1. by_name'[p] \in Seq(Nat) /\ by_cookie'[p] \in Seq(Nat)
    BY DEF TypeOK, Types
  <2> QED BY <2>1, LenProperties
<1>2. Increasing(NamesAlong(p))'
  BY <1>1 DEF Increasing, NamesAlong
<1>3. Increasing(CookiesAlong(p))'
  BY <1>1 DEF Increasing, CookiesAlong
<1> QED BY <1>2, <1>3 DEF Indexed

LEMMA IndexedKept ==
  ASSUME NEW p \in Procs, Indexed(p), Counted(p)' = Counted(p), u_len'[p] = u_len[p],
         by_name'[p] = by_name[p], by_cookie'[p] = by_cookie[p], m'[p] = m[p]
  PROVE  Indexed(p)'
<1>1. NamesAlong(p)' = NamesAlong(p) /\ CookiesAlong(p)' = CookiesAlong(p)
  BY DEF NamesAlong, CookiesAlong
<1> QED BY <1>1 DEF Indexed, Increasing

(* A file that mirrors indexed users holds each name and cookie once. *)
LEMMA MirrorDistinct ==
  ASSUME TypeOK, NEW p \in Procs, Indexed(p), NEW f, DOMAIN f \subseteq 1..Counted(p),
         \A i \in DOMAIN f : f[i] = m[p][i] \/ f[i] = Torn
  PROVE  Distinct(f)
BY KeysDiffer DEF Distinct

(* A step of the one process that has the table open, or opens it. *)
LEMMA StaysOpen ==
  ASSUME TypeOK, TableInv, NEW p \in Procs, NEW x,
         st[p] # "off" \/ Alone(p), st' = [st EXCEPT ![p] = x],
         Distinct(file'), Distinct(synced'), Open(p)'
  PROVE  TableInv'
<1>1. \A q \in Procs \ {p} : st[q] = "off"
  BY DEF TableInv, OneOpen, Alone
<1>2. \A q \in Procs \ {p} : st'[q] = "off"
  BY <1>1 DEF TypeOK, Types
<1>3. OneOpen'
  BY <1>2 DEF OneOpen
<1>4. Distinct(file)' /\ Distinct(synced)'
  BY DEF Distinct
<1> QED BY <1>2, <1>3, <1>4 DEF TableInv

(* A step after which no process has it open. *)
LEMMA Closes ==
  ASSUME \A q \in Procs : st'[q] = "off", Distinct(file'), Distinct(synced')
  PROVE  TableInv'
<1>1. Distinct(file)' /\ Distinct(synced)'
  BY DEF Distinct
<1> QED BY <1>1 DEF TableInv, OneOpen

LEMMA InitTable == Init => TableInv
BY DEF Init, TableInv, OneOpen, Distinct

LEMMA LoadTable ==
  ASSUME TypeOK, TypeOK', TableInv, NEW p \in Procs, Alone(p), Load(p) PROVE TableInv'
<1> DEFINE all == [i \in 1..Len(file) |-> i]
           n == Len(file)
<1>1. /\ st[p] = "off" /\ ~wild[p] /\ st' = [st EXCEPT ![p] = "ready"]
      /\ file' = file /\ synced' = synced /\ wild' = wild
      /\ \A i \in DOMAIN file : file[i] # Torn
  BY DEF Load, Step, disk
<1>2. /\ m'[p] = file /\ u_len'[p] = n /\ f_len'[p] = n /\ off'[p] = n /\ st'[p] = "ready"
      /\ by_name'[p] = SortByName(all, file) /\ by_cookie'[p] = SortByCookie(all, file)
  BY DEF Load, Step, TypeOK, Types
<1>3. file \in Seq(Record) /\ n \in Nat /\ DOMAIN file = 1..n
  <2>1. m'[p] \in Seq(Record)
    BY DEF TypeOK, Types
  <2> QED BY <1>2, <2>1, LenProperties
<1>4. /\ all \in Seq(Nat) /\ Len(all) = n /\ Range(all) = 1..n
      /\ \A i \in 1..n : all[i] = i
  BY <1>3 DEF Range
<1>5. \A i, j \in 1..n : i # j => file[i].name # file[j].name /\ file[i].cookie # file[j].cookie
  BY <1>1, <1>3 DEF TableInv, Distinct
<1> HIDE DEF all, n
<1>6. n = Len(file)
  BY DEF n
<1>7. /\ Len(by_name'[p]) = n /\ Range(by_name'[p]) = 1..n
      /\ \A i, j \in 1..n : i < j => file[by_name'[p][i]].name < file[by_name'[p][j]].name
  <2>1. Len(by_name'[p]) = n /\ Range(by_name'[p]) = 1..n
    BY <1>2, <1>3, <1>4, <1>6, SortedByName
  <2>2. \A i, j \in 1..Len(all) : i # j => file[all[i]].name # file[all[j]].name
    BY <1>4, <1>5
  <2>3. \A i, j \in 1..Len(all) : i < j => file[by_name'[p][i]].name < file[by_name'[p][j]].name
    BY <1>2, <1>3, <1>4, <1>6, <2>2, SortedByNameIncreases
  <2> QED BY <1>4, <2>1, <2>3
<1>8. /\ Len(by_cookie'[p]) = n /\ Range(by_cookie'[p]) = 1..n
      /\ \A i, j \in 1..n : i < j => file[by_cookie'[p][i]].cookie < file[by_cookie'[p][j]].cookie
  <2>1. Len(by_cookie'[p]) = n /\ Range(by_cookie'[p]) = 1..n
    BY <1>2, <1>3, <1>4, <1>6, SortedByCookie
  <2>2. \A i, j \in 1..Len(all) : i # j => file[all[i]].cookie # file[all[j]].cookie
    BY <1>4, <1>5
  <2>3. \A i, j \in 1..Len(all) : i < j => file[by_cookie'[p][i]].cookie < file[by_cookie'[p][j]].cookie
    BY <1>2, <1>3, <1>4, <1>6, <2>2, SortedByCookieIncreases
  <2> QED BY <1>4, <2>1, <2>3
<1>9. Counted(p)' = n
  BY <1>2, <1>3 DEF Counted
<1>10. Indexed(p)'
  BY <1>2, <1>3, <1>7, <1>8, <1>9, IndexedAfter
<1>11. Mirrors(p)'
  <2>1. Written(p)' = n
    BY <1>2, <1>3 DEF Written
  <2>2. \A i \in DOMAIN file' : file'[i] = m'[p][i]
    BY <1>1, <1>2
  <2> QED BY <1>1, <1>2, <1>6, <2>1, <2>2 DEF Mirrors
<1>12. Open(p)'
  BY <1>1, <1>2, <1>10, <1>11 DEF Open
<1> QED BY <1>1, <1>12, StaysOpen DEF TableInv

LEMMA ExitTable ==
  ASSUME TypeOK, TableInv, NEW p \in Procs, st[p] # "off", Forget({p}),
         file' = file, synced' = synced
  PROVE  TableInv'
<1>1. \A q \in Procs : st'[q] = "off"
  BY DEF Forget, TableInv, OneOpen
<1> QED BY <1>1, Closes DEF TableInv

LEMMA CrashTable ==
  ASSUME TypeOK, TableInv, Crash PROVE TableInv'
<1>1. (\A q \in Procs : st'[q] = "off") /\ synced' = file'
  BY DEF Crash, Forget
<1>2. Distinct(file')
  <2>1. CASE file' \in {synced, file}
    BY <2>1 DEF TableInv
  <2>2. CASE file' = Append(synced, Torn)
    <3>1. synced \in Seq(Record \cup {Torn})
      BY DEF TypeOK, Types
    <3>2. /\ DOMAIN file' = 1..(Len(synced) + 1) /\ Len(synced) \in Nat
          /\ DOMAIN synced = 1..Len(synced)
          /\ \A i \in 1..Len(synced) : file'[i] = synced[i]
          /\ file'[Len(synced) + 1] = Torn
      BY <2>2, <3>1
    <3>3. \A i \in DOMAIN file' : file'[i] # Torn => i \in DOMAIN synced /\ file'[i] = synced[i]
      BY <3>2
    <3> QED BY <3>3 DEF TableInv, Distinct
  <2> QED BY <2>1, <2>2 DEF Crash
<1> QED BY <1>1, <1>2, Closes

LEMMA WriteTable ==
  ASSUME TypeOK, TypeOK', TableInv, NEW p \in Procs, Write(p) PROVE TableInv'
<1> DEFINE n == f_len[p]
<1>1. /\ st[p] = "write" /\ st' = [st EXCEPT ![p] = "sync"] /\ ~wild[p] /\ st'[p] = "sync"
      /\ synced' = synced /\ user' = user /\ m' = m /\ f_len' = f_len
      /\ u_len' = u_len /\ by_name' = by_name /\ by_cookie' = by_cookie /\ wild' = wild
  BY DEF Write, Step, index, TypeOK, Types
<1>2. Open(p)
  BY <1>1 DEF TableInv
<1>3. /\ n \in Nat /\ user[p] = n + 1 /\ Counted(p) = n /\ off[p] = n /\ Len(file) = n
      /\ file \in Seq(Record \cup {Torn}) /\ off[p] = Len(file)
  <2>1. Written(p) = n /\ n \in Nat
    BY <1>1, ProcTypes DEF Written
  <2> QED BY <1>1, <1>2, <2>1, ProcBounds DEF Open, Mirrors, Creating, TypeOK, Types
<1>4. PICK r \in {m[p][n + 1], Torn} :
        WriteRecord(p, r) /\ (r = Torn => "short" \in Faults \/ r = m[p][n + 1])
  BY <1>3 DEF Write
<1>5. file' = Append(file, r) /\ off' = [off EXCEPT ![p] = @ + 1]
  BY <1>3, <1>4 DEF WriteRecord
<1>6. /\ DOMAIN file = 1..n /\ DOMAIN file' = 1..(n + 1) /\ Len(file') = n + 1
      /\ \A i \in 1..n : file'[i] = file[i]
      /\ file'[n + 1] = r
  <2>1. r \in Record \cup {Torn}
    <3>1. n + 1 \in 1..Len(m[p]) /\ m[p] \in Seq(Record)
      BY <1>1, <1>3, ProcTypes, ProcBounds DEF Creating
    <3> QED BY <1>4, <3>1, ElementOfSeq
  <2> QED BY <1>3, <1>5, <2>1
<1>7. off'[p] = n + 1
  BY <1>3, <1>5 DEF TypeOK, Types
<1>8. \A i \in 1..n : file[i] = m[p][i] \/ (file[i] = Torn /\ "short" \in Faults)
  BY <1>1, <1>2, <1>6 DEF Open, Mirrors
<1> HIDE DEF n
<1>9. Distinct(file')
  <2>1. \A i \in 1..n : /\ m[p][i].name # m[p][n + 1].name
                        /\ m[p][i].cookie # m[p][n + 1].cookie
    BY <1>1, <1>2, <1>3 DEF Open, Fresh, n
  <2>2. \A i, j \in 1..n : i # j => m[p][i].name # m[p][j].name /\ m[p][i].cookie # m[p][j].cookie
    BY <1>2, <1>3, KeysDiffer DEF Open
  <2>3. \A i \in DOMAIN file' : i \in 1..n \/ i = n + 1
    BY <1>3, <1>6
  <2>4. \A i \in DOMAIN file' : file'[i] # Torn => file'[i] = m[p][i]
    BY <1>4, <1>6, <1>8, <2>3
  <2> QED BY <2>1, <2>2, <2>3, <2>4 DEF Distinct
<1>10. Indexed(p)'
  <2>1. Counted(p)' = Counted(p)
    BY <1>1 DEF Counted
  <2> QED BY <1>1, <1>2, <2>1, IndexedKept DEF Open
<1>11. Mirrors(p)'
  <2>1. Written(p)' = n + 1
    BY <1>1 DEF Written, n
  <2>2. \A i \in DOMAIN file' : file'[i] = m[p][i] \/ (file'[i] = Torn /\ "short" \in Faults)
    <3>1. \A i \in DOMAIN file' : i \in 1..n \/ i = n + 1
      BY <1>3, <1>6
    <3> QED BY <1>4, <1>6, <1>8, <3>1
  <2> QED BY <1>1, <1>6, <1>7, <2>1, <2>2 DEF Mirrors
<1>12. Fresh(p)'
  BY <1>1, <1>2 DEF Open, Fresh
<1>13. Open(p)'
  BY <1>1, <1>10, <1>11, <1>12 DEF Open
<1> QED BY <1>1, <1>9, <1>13, StaysOpen DEF TableInv

LEMMA SyncTable ==
  ASSUME TypeOK, TypeOK', TableInv, NEW p \in Procs, Sync(p) PROVE TableInv'
<1>1. /\ st[p] = "sync" /\ st' = [st EXCEPT ![p] = "index"] /\ ~wild[p] /\ st'[p] = "index"
      /\ synced' = file /\ file' = file /\ user' = user /\ m' = m /\ f_len' = f_len
      /\ off' = off
      /\ u_len' = u_len /\ by_name' = by_name /\ by_cookie' = by_cookie /\ wild' = wild
  BY DEF Sync, Step, index, TypeOK, Types
<1>2. Open(p)
  BY <1>1 DEF TableInv
<1>3. Indexed(p)'
  <2>1. Counted(p)' = Counted(p)
    BY <1>1 DEF Counted
  <2> QED BY <1>1, <1>2, <2>1, IndexedKept DEF Open
<1>4. Mirrors(p)'
  <2>1. Written(p)' = Written(p)
    BY <1>1 DEF Written
  <2> QED BY <1>1, <1>2, <2>1 DEF Open, Mirrors
<1>5. Fresh(p)'
  BY <1>1, <1>2 DEF Open, Fresh
<1>6. Open(p)'
  BY <1>1, <1>3, <1>4, <1>5 DEF Open
<1> QED BY <1>1, <1>6, StaysOpen DEF TableInv

LEMMA IndexTable ==
  ASSUME TypeOK, TypeOK', TableInv, NEW p \in Procs, Index(p) PROVE TableInv'
<1> DEFINE n == f_len[p]
           u == user[p]
           names == [i \in DOMAIN m[p] |-> m[p][i].name]
           cookies == [i \in DOMAIN m[p] |-> m[p][i].cookie]
<1>1. /\ st[p] = "index" /\ st' = [st EXCEPT ![p] = "commit"] /\ st'[p] = "commit"
      /\ by_name'[p] = InsertAt(by_name[p], UpperBound(NamesAlong(p), m[p][u].name), u)
      /\ by_cookie'[p] = InsertAt(by_cookie[p], UpperBound(CookiesAlong(p), m[p][u].cookie), u)
      /\ u_len'[p] = u_len[p] + 1
      /\ file' = file /\ synced' = synced /\ user' = user /\ m' = m /\ f_len' = f_len
      /\ off' = off
  BY DEF Index, Step, disk, TypeOK, Types
<1>2. Open(p)
  BY <1>1 DEF TableInv
<1>3. /\ n \in Nat /\ Counted(p) = n /\ Counted(p)' = n + 1 /\ u = n + 1 /\ Len(m[p]) = n + 1
      /\ m[p] \in Seq(Record) /\ DOMAIN m[p] = 1..(n + 1)
  <2>1. n \in Nat /\ Counted(p) = n /\ u = n + 1 /\ Len(m[p]) = n + 1
    BY <1>1, ProcTypes, ProcBounds DEF Creating
  <2>2. Counted(p)' = n + 1
    BY <1>1, <2>1 DEF Counted
  <2> QED BY <2>1, <2>2, ProcTypes
<1>4. /\ by_name[p] \in Seq(Nat) /\ Len(by_name[p]) = n /\ DOMAIN by_name[p] = 1..n
      /\ by_cookie[p] \in Seq(Nat) /\ Len(by_cookie[p]) = n /\ DOMAIN by_cookie[p] = 1..n
      /\ Range(by_name[p]) = 1..n /\ Range(by_cookie[p]) = 1..n
      /\ u_len[p] = n
  BY <1>2, <1>3, ProcTypes DEF Open, Indexed
<1>5. \A i \in 1..(n + 1) : /\ names[i] = m[p][i].name /\ names[i] \in Nat
                            /\ cookies[i] = m[p][i].cookie /\ cookies[i] \in Nat
  BY <1>3, RecordFields
<1>6. \A i \in 1..n : by_name[p][i] \in 1..n /\ by_cookie[p][i] \in 1..n
  BY <1>4 DEF Range
<1>7. \A i, j \in 1..n : /\ i < j => m[p][by_name[p][i]].name < m[p][by_name[p][j]].name
                         /\ i < j => m[p][by_cookie[p][i]].cookie < m[p][by_cookie[p][j]].cookie
  BY <1>2, <1>3, IndexedFacts DEF Open
<1>8. \A i \in 1..n : m[p][i].name # m[p][u].name /\ m[p][i].cookie # m[p][u].cookie
  BY <1>1, <1>2 DEF Open, Fresh
<1>9. /\ NamesAlong(p) = [i \in DOMAIN by_name[p] |-> m[p][by_name[p][i]].name]
      /\ CookiesAlong(p) = [i \in DOMAIN by_cookie[p] |-> m[p][by_cookie[p][i]].cookie]
  BY DEF NamesAlong, CookiesAlong
<1> HIDE DEF n, u, names, cookies
<1>10. u \in 1..(n + 1) /\ u \in Nat /\ \A i \in 1..n : i \in 1..(n + 1)
  BY <1>3
<1>11. NamesAlong(p) = [i \in DOMAIN by_name[p] |-> names[by_name[p][i]]]
  BY <1>4, <1>5, <1>6, <1>9, <1>10
<1>12. CookiesAlong(p) = [i \in DOMAIN by_cookie[p] |-> cookies[by_cookie[p][i]]]
  BY <1>4, <1>5, <1>6, <1>9, <1>10
<1>0. \A s \in Seq(Nat) : \A k \in 1..(Len(s) + 1) : \A w \in Nat :
        InsertAt(s, k, w) \in Seq(Nat) /\ Len(InsertAt(s, k, w)) = Len(s) + 1
        /\ Range(InsertAt(s, k, w)) = Range(s) \cup {w}
  BY InsertAtRange
<1>13. /\ Len(by_name'[p]) = n + 1 /\ Range(by_name'[p]) = 1..(n + 1)
       /\ \A i, j \in 1..(n + 1) : i < j => m[p][by_name'[p][i]].name < m[p][by_name'[p][j]].name
  <2> DEFINE b == UpperBound(NamesAlong(p), names[u])
  <2>1. by_name'[p] = InsertAt(by_name[p], b, u)
    BY <1>1, <1>5, <1>10 DEF u
  <2>2. b \in 1..(n + 1)
    BY <1>3, <1>4, <1>11, BoundsWithin
  <2>3. by_name'[p] \in Seq(Nat) /\ Len(by_name'[p]) = n + 1 /\ Range(by_name'[p]) = 1..n \cup {u}
    <3> HIDE DEF b
    <3>1. b \in 1..(Len(by_name[p]) + 1)
      BY <1>4, <2>2
    <3>2. InsertAt(by_name[p], b, u) \in Seq(Nat)
          /\ Len(InsertAt(by_name[p], b, u)) = Len(by_name[p]) + 1
          /\ Range(InsertAt(by_name[p], b, u)) = Range(by_name[p]) \cup {u}
      BY <1>0, <1>4, <1>10, <3>1
    <3> QED BY <1>4, <2>1, <3>2
  <2>4. /\ Keyed(by_name[p], names) /\ names[u] \in Nat
        /\ \A i, j \in DOMAIN by_name[p] : i < j => names[by_name[p][i]] < names[by_name[p][j]]
        /\ \A i \in DOMAIN by_name[p] : names[by_name[p][i]] # names[u]
    <3>1. Keyed(by_name[p], names) /\ names[u] \in Nat
      BY <1>4, <1>5, <1>6, <1>10 DEF Keyed
    <3>2. \A i \in 1..n : names[by_name[p][i]] = m[p][by_name[p][i]].name
      BY <1>5, <1>6, <1>10
    <3>3. names[u] = m[p][u].name
      BY <1>5, <1>10
    <3>4. \A i, j \in 1..n : i < j => names[by_name[p][i]] < names[by_name[p][j]]
      BY <1>7, <3>2
    <3>5. \A i \in 1..n : names[by_name[p][i]] # names[u]
      BY <1>6, <1>8, <3>2, <3>3
    <3> QED BY <1>4, <3>1, <3>4, <3>5
  <2>5. \A i, j \in 1..(Len(by_name[p]) + 1) :
          i < j => names[InsertAt(by_name[p], b, u)[i]] < names[InsertAt(by_name[p], b, u)[j]]
    BY <1>4, <1>10, <1>11, <2>4, InsertIncreases
  <2>6. \A i, j \in 1..(n + 1) : i < j => names[by_name'[p][i]] < names[by_name'[p][j]]
    BY <1>4, <2>1, <2>5
  <2> HIDE DEF b
  <2>7. 1..n \cup {u} = 1..(n + 1)
    BY <1>3
  <2>8. \A i \in 1..(n + 1) : by_name'[p][i] \in 1..(n + 1)
    <3>1. DOMAIN by_name'[p] = 1..(n + 1)
      BY <2>3, LenProperties
    <3> QED BY <2>3, <2>7, <3>1 DEF Range
  <2>9. \A i \in 1..(n + 1) : names[by_name'[p][i]] = m[p][by_name'[p][i]].name
    BY <1>5, <2>8
  <2>10. \A i, j \in 1..(n + 1) : i < j => m[p][by_name'[p][i]].name < m[p][by_name'[p][j]].name
    BY <2>6, <2>9
  <2> QED BY <2>3, <2>7, <2>10
<1>14. /\ Len(by_cookie'[p]) = n + 1 /\ Range(by_cookie'[p]) = 1..(n + 1)
       /\ \A i, j \in 1..(n + 1) :
            i < j => m[p][by_cookie'[p][i]].cookie < m[p][by_cookie'[p][j]].cookie
  <2> DEFINE b == UpperBound(CookiesAlong(p), cookies[u])
  <2>1. by_cookie'[p] = InsertAt(by_cookie[p], b, u)
    BY <1>1, <1>5, <1>10 DEF u
  <2>2. b \in 1..(n + 1)
    BY <1>3, <1>4, <1>12, BoundsWithin
  <2>3. /\ by_cookie'[p] \in Seq(Nat) /\ Len(by_cookie'[p]) = n + 1
        /\ Range(by_cookie'[p]) = 1..n \cup {u}
    <3> HIDE DEF b
    <3>1. b \in 1..(Len(by_cookie[p]) + 1)
      BY <1>4, <2>2
    <3>2. InsertAt(by_cookie[p], b, u) \in Seq(Nat)
          /\ Len(InsertAt(by_cookie[p], b, u)) = Len(by_cookie[p]) + 1
          /\ Range(InsertAt(by_cookie[p], b, u)) = Range(by_cookie[p]) \cup {u}
      BY <1>0, <1>4, <1>10, <3>1
    <3> QED BY <1>4, <2>1, <3>2
  <2>4. /\ Keyed(by_cookie[p], cookies) /\ cookies[u] \in Nat
        /\ \A i, j \in DOMAIN by_cookie[p] :
             i < j => cookies[by_cookie[p][i]] < cookies[by_cookie[p][j]]
        /\ \A i \in DOMAIN by_cookie[p] : cookies[by_cookie[p][i]] # cookies[u]
    <3>1. Keyed(by_cookie[p], cookies) /\ cookies[u] \in Nat
      BY <1>4, <1>5, <1>6, <1>10 DEF Keyed
    <3>2. \A i \in 1..n : cookies[by_cookie[p][i]] = m[p][by_cookie[p][i]].cookie
      BY <1>5, <1>6, <1>10
    <3>3. cookies[u] = m[p][u].cookie
      BY <1>5, <1>10
    <3>4. \A i, j \in 1..n : i < j => cookies[by_cookie[p][i]] < cookies[by_cookie[p][j]]
      BY <1>7, <3>2
    <3>5. \A i \in 1..n : cookies[by_cookie[p][i]] # cookies[u]
      BY <1>6, <1>8, <3>2, <3>3
    <3> QED BY <1>4, <3>1, <3>4, <3>5
  <2>5. \A i, j \in 1..(Len(by_cookie[p]) + 1) :
          i < j => cookies[InsertAt(by_cookie[p], b, u)[i]] < cookies[InsertAt(by_cookie[p], b, u)[j]]
    BY <1>4, <1>10, <1>12, <2>4, InsertIncreases
  <2>6. \A i, j \in 1..(n + 1) : i < j => cookies[by_cookie'[p][i]] < cookies[by_cookie'[p][j]]
    BY <1>4, <2>1, <2>5
  <2> HIDE DEF b
  <2>7. 1..n \cup {u} = 1..(n + 1)
    BY <1>3
  <2>8. \A i \in 1..(n + 1) : by_cookie'[p][i] \in 1..(n + 1)
    <3>1. DOMAIN by_cookie'[p] = 1..(n + 1)
      BY <2>3, LenProperties
    <3> QED BY <2>3, <2>7, <3>1 DEF Range
  <2>9. \A i \in 1..(n + 1) : cookies[by_cookie'[p][i]] = m[p][by_cookie'[p][i]].cookie
    BY <1>5, <2>8
  <2>10. \A i, j \in 1..(n + 1) :
           i < j => m[p][by_cookie'[p][i]].cookie < m[p][by_cookie'[p][j]].cookie
    BY <2>6, <2>9
  <2> QED BY <2>3, <2>7, <2>10
<1>15. Indexed(p)'
  <2>1. n + 1 \in Nat /\ u_len'[p] = n + 1
    BY <1>1, <1>3, <1>4
  <2> QED BY <1>1, <1>3, <1>13, <1>14, <2>1, IndexedAfter
<1>16. Mirrors(p)'
  <2>1. Written(p)' = Written(p)
    BY <1>1 DEF Written
  <2> QED BY <1>1, <1>2, <2>1 DEF Open, Mirrors
<1>17. Open(p)'
  BY <1>1, <1>15, <1>16 DEF Open
<1> QED BY <1>1, <1>17, StaysOpen DEF TableInv

LEMMA CommitTable ==
  ASSUME TypeOK, TypeOK', TableInv, NEW p \in Procs, Commit(p) PROVE TableInv'
<1>1. /\ st[p] = "commit" /\ st' = [st EXCEPT ![p] = "ready"] /\ st'[p] = "ready" /\ ~wild[p]
      /\ f_len'[p] = f_len[p] + 1
      /\ file' = file /\ synced' = synced /\ m' = m /\ off' = off
      /\ u_len' = u_len /\ by_name' = by_name /\ by_cookie' = by_cookie /\ wild' = wild
  BY DEF Commit, Step, disk, index, TypeOK, Types
<1>2. Open(p)
  BY <1>1 DEF TableInv
<1>3. f_len[p] \in Nat
  BY ProcTypes
<1>4. Indexed(p)'
  <2>1. Counted(p)' = Counted(p)
    BY <1>1, <1>3 DEF Counted
  <2> QED BY <1>1, <1>2, <2>1, IndexedKept DEF Open
<1>5. Mirrors(p)'
  <2>1. Written(p)' = Written(p)
    BY <1>1, <1>3 DEF Written
  <2> QED BY <1>1, <1>2, <2>1 DEF Open, Mirrors
<1>6. Open(p)'
  BY <1>1, <1>4, <1>5 DEF Open
<1> QED BY <1>1, <1>6, StaysOpen DEF TableInv

LEMMA CreateTable ==
  ASSUME TypeOK, TypeOK', TableInv, NEW p \in Procs,
         NEW nm \in Names, NEW pw \in Pws, NEW c \in Cookies, Create(p, nm, pw, c)
  PROVE  TableInv'
<1> DEFINE n == f_len[p]
           r == [name |-> nm, cookie |-> c, pw |-> pw]
<1>1. /\ st[p] = "ready" /\ st' = [st EXCEPT ![p] = "write"] /\ st'[p] = "write" /\ ~wild[p]
      /\ FindByName(p, nm) = 0 /\ FindByCookie(p, c) = 0
      /\ m'[p] = Append(SubSeq(m[p], 1, n), r)
      /\ user'[p] = n + 1
      /\ by_cookie'[p] = SortByCookie(by_cookie[p], m'[p])
      /\ file' = file /\ synced' = synced /\ u_len' = u_len /\ f_len' = f_len /\ off' = off
      /\ by_name' = by_name /\ wild' = wild
  BY DEF Create, Step, disk, TypeOK, Types
<1>2. Open(p)
  BY <1>1 DEF TableInv
<1>3. /\ n \in Nat /\ Counted(p) = n /\ Counted(p)' = n /\ Written(p) = n /\ Written(p)' = n
  <2>1. n \in Nat
    BY ProcTypes
  <2> QED BY <1>1, <2>1 DEF Counted, Written
<1>4. r \in Record /\ r.name = nm /\ r.cookie = c
  BY DEF Record
<1> HIDE DEF r
<1>5. /\ m'[p] \in Seq(Record) /\ Len(m'[p]) = n + 1 /\ m'[p][n + 1] = r
      /\ \A i \in 1..n : m'[p][i] = m[p][i]
  <2>1. m'[p] = Append(SubSeq(m[p], 1, f_len[p]), r) /\ r \in Record
    BY <1>1, <1>4
  <2>2. \A image : image = Append(SubSeq(m[p], 1, f_len[p]), r) =>
          /\ image \in Seq(Record) /\ Len(image) = f_len[p] + 1
          /\ \A i \in 1..f_len[p] : image[i] = m[p][i]
          /\ image[f_len[p] + 1] = r
    BY <2>1, CreatedImage
  <2> QED BY <2>1, <2>2
<1>6. /\ by_name[p] \in Seq(Nat) /\ Len(by_name[p]) = n /\ u_len[p] = n
      /\ by_cookie[p] \in Seq(Nat) /\ Len(by_cookie[p]) = n
      /\ \A i \in 1..n : by_name[p][i] \in 1..n /\ by_cookie[p][i] \in 1..n
      /\ \A i, j \in 1..n : i < j => m[p][by_name[p][i]].name < m[p][by_name[p][j]].name
      /\ \A i, j \in 1..n : i < j => m[p][by_cookie[p][i]].cookie < m[p][by_cookie[p][j]].cookie
  BY <1>2, <1>3, IndexedFacts DEF Open
<1>7. Range(by_name[p]) = 1..n /\ Range(by_cookie[p]) = 1..n
  BY <1>2, <1>3 DEF Open, Indexed
<1> HIDE DEF n
<1>8. \A i \in 1..n : m[p][i].name \in Nat /\ m[p][i].cookie \in Nat
  <2>1. \A i \in 1..n : i \in 1..Len(m'[p])
    BY <1>3, <1>5
  <2> QED BY <1>5, <2>1, RecordFields
<1>9. \A i, j \in 1..n : i < j => m'[p][by_name[p][i]].name < m'[p][by_name[p][j]].name
  BY <1>5, <1>6
<1>10. /\ Len(by_cookie'[p]) = n /\ Range(by_cookie'[p]) = 1..n
       /\ \A i, j \in 1..n : i < j => m'[p][by_cookie'[p][i]].cookie < m'[p][by_cookie'[p][j]].cookie
  <2>1. Range(by_cookie[p]) \subseteq 1..Len(m'[p])
    BY <1>3, <1>5, <1>7
  <2>2. \A i, j \in 1..n : i # j => m'[p][by_cookie[p][i]].cookie # m'[p][by_cookie[p][j]].cookie
    <3>1. \A i, j \in 1..n : i # j => m[p][by_cookie[p][i]].cookie # m[p][by_cookie[p][j]].cookie
      BY <1>2, <1>3, CookiesAlongDiffer DEF Open
    <3> QED BY <1>5, <1>6, <3>1
  <2>3. Len(by_cookie'[p]) = Len(by_cookie[p]) /\ Range(by_cookie'[p]) = Range(by_cookie[p])
    BY <1>1, <1>5, <1>6, <2>1, SortedByCookie
  <2>4. \A i, j \in 1..Len(by_cookie[p]) :
          i < j => m'[p][by_cookie'[p][i]].cookie < m'[p][by_cookie'[p][j]].cookie
    <3>1. \A i, j \in 1..Len(by_cookie[p]) :
            i # j => m'[p][by_cookie[p][i]].cookie # m'[p][by_cookie[p][j]].cookie
      BY <1>6, <2>2
    <3> QED BY <1>1, <1>5, <1>6, <2>1, <3>1, SortedByCookieIncreases
  <2> QED BY <1>6, <1>7, <2>3, <2>4
<1>11. Indexed(p)'
  <2>1. /\ u_len'[p] = n /\ Len(by_name'[p]) = n /\ Range(by_name'[p]) = 1..n
        /\ \A i, j \in 1..n : i < j => m'[p][by_name'[p][i]].name < m'[p][by_name'[p][j]].name
    BY <1>1, <1>6, <1>7, <1>9
  <2> QED BY <1>3, <1>10, <2>1, IndexedAfter
<1>12. Mirrors(p)'
  <2>1. Len(file) = n /\ off[p] = n
    BY <1>2, <1>3 DEF Open, Mirrors
  <2>2. DOMAIN file = 1..n
    <3>1. file \in Seq(Record \cup {Torn})
      BY DEF TypeOK, Types
    <3> QED BY <2>1, <3>1, LenProperties
  <2>3. \A i \in DOMAIN file : file[i] = m'[p][i] \/ (file[i] = Torn /\ "short" \in Faults)
    BY <1>1, <1>2, <1>5, <2>2 DEF Open, Mirrors
  <2> QED BY <1>1, <1>3, <2>1, <2>3 DEF Mirrors
<1>13. Fresh(p)'
  <2>1. nm \in Nat /\ c \in Nat
    BY UsersAssumption
  <2>2. \A i \in 1..n : m[p][i].name # nm /\ m[p][i].cookie # c
    BY <1>1, <1>2, <1>3, <2>1, NotFound DEF Open
  <2>3. f_len'[p] = n /\ user'[p] = n + 1
    BY <1>1 DEF n
  <2> QED BY <1>4, <1>5, <2>2, <2>3 DEF Fresh
<1>14. Open(p)'
  BY <1>1, <1>11, <1>12, <1>13 DEF Open
<1> QED BY <1>1, <1>14, StaysOpen DEF TableInv

LEMMA ResetTable ==
  ASSUME TypeOK, TypeOK', TableInv, NEW p \in Procs,
         NEW nm \in Names, NEW pw \in Pws, NEW c \in Cookies, Reset(p, nm, pw, c)
  PROVE  TableInv'
<1> DEFINE n == f_len[p]
           u == FindByName(p, nm)
<1>1. /\ st' = [st EXCEPT ![p] = "pwrite"] /\ st'[p] = "pwrite" /\ ~wild[p]
      /\ FindByCookie(p, c) = 0
      /\ user'[p] = u
      /\ by_cookie'[p] = SortByCookie(by_cookie[p], m'[p])
      /\ file' = file /\ synced' = synced /\ u_len' = u_len /\ f_len' = f_len /\ off' = off
      /\ by_name' = by_name /\ wild' = wild
  BY DEF Reset, Step, disk, TypeOK, Types
<1> HIDE DEF u
<1>2. /\ st[p] = "ready" /\ u \in 1..n /\ m[p][u].name = nm
      /\ m'[p] \in Seq(Record) /\ Len(m'[p]) = Len(m[p])
      /\ m'[p][u].name = nm /\ m'[p][u].cookie = c
      /\ \A i \in 1..Len(m[p]) : i # u => m'[p][i] = m[p][i]
  <2>1. /\ st[p] = "ready" /\ u \in 1..f_len[p] /\ m[p][u].name = nm
        /\ m'[p] \in Seq(Record) /\ Len(m'[p]) = Len(m[p])
        /\ m'[p][u] = [name |-> nm, cookie |-> c, pw |-> pw]
        /\ \A i \in 1..Len(m[p]) : i # u => m'[p][i] = m[p][i]
    BY ResetImage DEF u
  <2>2. m'[p][u].name = nm /\ m'[p][u].cookie = c
    BY <2>1
  <2> QED BY <2>1, <2>2
<1>3. Open(p)
  BY <1>2 DEF TableInv
<1>4. /\ n \in Nat /\ n <= Len(m[p]) /\ Len(m[p]) \in Nat /\ m[p] \in Seq(Record)
      /\ Counted(p) = n /\ Counted(p)' = n /\ Written(p) = n /\ Written(p)' = n
  <2>1. n \in Nat /\ n <= Len(m[p]) /\ Len(m[p]) \in Nat /\ m[p] \in Seq(Record)
    BY ProcTypes
  <2> QED BY <1>1, <1>2, <2>1 DEF Counted, Written
<1>5. /\ by_name[p] \in Seq(Nat) /\ Len(by_name[p]) = n /\ u_len[p] = n
      /\ by_cookie[p] \in Seq(Nat) /\ Len(by_cookie[p]) = n
      /\ \A i \in 1..n : by_name[p][i] \in 1..n /\ by_cookie[p][i] \in 1..n
      /\ \A i, j \in 1..n : i < j => m[p][by_name[p][i]].name < m[p][by_name[p][j]].name
      /\ \A i, j \in 1..n : i < j => m[p][by_cookie[p][i]].cookie < m[p][by_cookie[p][j]].cookie
  BY <1>3, <1>4, IndexedFacts DEF Open
<1>6. Range(by_name[p]) = 1..n /\ Range(by_cookie[p]) = 1..n
  BY <1>3, <1>4 DEF Open, Indexed
<1> HIDE DEF n
<1>7. \A i \in 1..n : i \in 1..Len(m[p])
  BY <1>4
<1>8. \A i \in 1..n : /\ m'[p][i].name = m[p][i].name
                      /\ i # u => m'[p][i] = m[p][i]
                      /\ m[p][i] \in Record /\ m[p][i].cookie \in Nat
  BY <1>2, <1>4, <1>7, RecordFields
<1>9. \A i \in 1..n : m[p][i].cookie # c
  <2>1. c \in Nat
    BY UsersAssumption
  <2> QED BY <1>1, <1>3, <1>4, <2>1, NotFound DEF Open
<1>10. \A i, j \in 1..n : i < j => m'[p][by_name[p][i]].name < m'[p][by_name[p][j]].name
  BY <1>5, <1>8
<1>11. /\ Len(by_cookie'[p]) = n /\ Range(by_cookie'[p]) = 1..n
       /\ \A i, j \in 1..n : i < j => m'[p][by_cookie'[p][i]].cookie < m'[p][by_cookie'[p][j]].cookie
  <2>1. Range(by_cookie[p]) \subseteq 1..Len(m'[p])
    BY <1>2, <1>4, <1>6
  <2>2. \A i, j \in 1..n : i # j => m[p][by_cookie[p][i]].cookie # m[p][by_cookie[p][j]].cookie
    BY <1>3, <1>4, CookiesAlongDiffer DEF Open
  <2>3. \A a, b \in 1..n : m[p][a].cookie # m[p][b].cookie => m'[p][a].cookie # m'[p][b].cookie
    BY <1>2, <1>8, <1>9
  <2>4. \A i, j \in 1..Len(by_cookie[p]) :
          i # j => m'[p][by_cookie[p][i]].cookie # m'[p][by_cookie[p][j]].cookie
    BY <1>5, <2>2, <2>3
  <2>5. Len(by_cookie'[p]) = Len(by_cookie[p]) /\ Range(by_cookie'[p]) = Range(by_cookie[p])
    BY <1>1, <1>2, <1>5, <2>1, SortedByCookie
  <2>6. \A i, j \in 1..Len(by_cookie[p]) :
          i < j => m'[p][by_cookie'[p][i]].cookie < m'[p][by_cookie'[p][j]].cookie
    <3>1. /\ by_cookie[p] \in Seq(Nat) /\ m'[p] \in Seq(Record)
          /\ by_cookie'[p] = SortByCookie(by_cookie[p], m'[p])
      BY <1>1, <1>2, <1>5
    <3> QED BY <2>1, <2>4, <3>1, SortedByCookieIncreases
  <2> QED BY <1>5, <1>6, <2>5, <2>6
<1>12. Indexed(p)'
  <2>1. /\ u_len'[p] = n /\ Len(by_name'[p]) = n /\ Range(by_name'[p]) = 1..n
        /\ \A i, j \in 1..n : i < j => m'[p][by_name'[p][i]].name < m'[p][by_name'[p][j]].name
    BY <1>1, <1>5, <1>6, <1>10
  <2> QED BY <1>4, <1>11, <2>1, IndexedAfter
<1>13. Mirrors(p)'
  <2>1. Len(file) = n /\ off[p] = n
    BY <1>3, <1>4 DEF Open, Mirrors
  <2>2. DOMAIN file = 1..n
    <3>1. file \in Seq(Record \cup {Torn})
      BY DEF TypeOK, Types
    <3> QED BY <2>1, <3>1, LenProperties
  <2>3. \A i \in DOMAIN file : file[i] = m[p][i] \/ (file[i] = Torn /\ "short" \in Faults)
    BY <1>2, <1>3 DEF Open, Mirrors
  <2>4. \A i \in 1..n : m[p][i] # Torn
    BY <1>8, TornAssumption
  <2>5. \A i \in DOMAIN file :
          \/ file[i] = m'[p][i]
          \/ (file[i] = Torn /\ "short" \in Faults)
          \/ (i = u /\ file[i] # Torn /\ file[i].name = m'[p][i].name)
    BY <1>8, <2>2, <2>3, <2>4
  <2> QED BY <1>1, <1>4, <2>1, <2>5 DEF Mirrors
<1>14. Open(p)'
  BY <1>1, <1>12, <1>13 DEF Open
<1> QED BY <1>1, <1>2, <1>14, StaysOpen DEF TableInv

LEMMA PwriteTable ==
  ASSUME TypeOK, TypeOK', TableInv, NEW p \in Procs, Pwrite(p) PROVE TableInv'
<1> DEFINE n == f_len[p]
           u == user[p]
           x == IF file[u] = Torn THEN Torn
                ELSE [file[u] EXCEPT !.pw = m[p][u].pw, !.cookie = m[p][u].cookie]
<1>1. /\ st[p] = "pwrite" /\ st' = [st EXCEPT ![p] = "psync"] /\ st'[p] = "psync" /\ ~wild[p]
      /\ file' = [file EXCEPT ![u] = x]
      /\ synced' = synced /\ user' = user /\ m' = m /\ f_len' = f_len /\ off' = off
      /\ u_len' = u_len /\ by_name' = by_name /\ by_cookie' = by_cookie /\ wild' = wild
  BY DEF Pwrite, Step, index, TypeOK, Types
<1>2. Open(p)
  BY <1>1 DEF TableInv
<1>3. /\ n \in Nat /\ n <= Len(m[p]) /\ Len(m[p]) \in Nat /\ m[p] \in Seq(Record)
      /\ Counted(p) = n /\ Counted(p)' = n /\ Written(p) = n /\ Written(p)' = n
      /\ u \in 1..n
  <2>1. n \in Nat /\ n <= Len(m[p]) /\ Len(m[p]) \in Nat /\ m[p] \in Seq(Record)
    BY ProcTypes
  <2>2. u \in 1..n
    BY <1>1, ProcBounds DEF Resetting
  <2> QED BY <1>1, <2>1, <2>2 DEF Counted, Written
<1>4. /\ file \in Seq(Record \cup {Torn}) /\ DOMAIN file = 1..n /\ Len(file) = n /\ off[p] = n
  <2>1. file \in Seq(Record \cup {Torn})
    BY DEF TypeOK, Types
  <2>2. Len(file) = n /\ off[p] = n
    BY <1>2, <1>3 DEF Open, Mirrors
  <2> QED BY <2>1, <2>2, LenProperties
<1>5. m[p][u] \in Record
  <2>1. u \in 1..Len(m[p])
    BY <1>3
  <2> QED BY <1>3, <2>1, ElementOfSeq
<1>6. \A i \in 1..n : \/ file[i] = m[p][i]
                      \/ (file[i] = Torn /\ "short" \in Faults)
                      \/ (i = u /\ file[i] # Torn /\ file[i].name = m[p][i].name)
  BY <1>2, <1>4 DEF Open, Mirrors
<1> HIDE DEF n, u
<1>7. x = m[p][u] \/ (x = Torn /\ "short" \in Faults)
  <2>1. CASE file[u] = Torn
    <3>1. m[p][u] # Torn
      BY <1>5, TornAssumption
    <3> QED BY <1>3, <1>6, <2>1, <3>1
  <2>2. CASE file[u] # Torn
    <3>1. file[u] \in Record
      BY <1>3, <1>4, <2>2, ElementOfSeq
    <3>2. file[u].name = m[p][u].name
      BY <1>3, <1>6, <2>2
    <3>3. \A r, s \in Record : r.name = s.name => [r EXCEPT !.pw = s.pw, !.cookie = s.cookie] = s
      <4>1. \A s \in Record : s = [name |-> s.name, cookie |-> s.cookie, pw |-> s.pw]
        BY DEF Record
      <4>2. \A r, s \in Record : [r EXCEPT !.pw = s.pw, !.cookie = s.cookie]
                                   = [name |-> r.name, cookie |-> s.cookie, pw |-> s.pw]
        BY RecordChanged, Zenon
      <4> QED BY <4>1, <4>2
    <3>4. [file[u] EXCEPT !.pw = m[p][u].pw, !.cookie = m[p][u].cookie] = m[p][u]
      BY <1>5, <3>1, <3>2, <3>3
    <3> QED BY <2>2, <3>4
  <2> QED BY <2>1, <2>2
<1> HIDE DEF x
<1>8. /\ DOMAIN file' = 1..n /\ Len(file') = n
      /\ \A i \in 1..n : file'[i] = m[p][i] \/ (file'[i] = Torn /\ "short" \in Faults)
  <2>1. x \in Record \cup {Torn}
    BY <1>5, <1>7
  <2>2. /\ file' \in Seq(Record \cup {Torn}) /\ Len(file') = n /\ file'[u] = x
        /\ \A i \in 1..n : i # u => file'[i] = file[i]
    <3>1. u \in 1..Len(file)
      BY <1>3, <1>4
    <3> QED BY <1>1, <1>4, <2>1, <3>1, ExceptSeq
  <2>3. DOMAIN file' = 1..n
    BY <2>2, LenProperties
  <2> QED BY <1>6, <1>7, <2>2, <2>3
<1>9. Distinct(file')
  BY <1>2, <1>3, <1>8, MirrorDistinct DEF Open
<1>10. Indexed(p)'
  BY <1>1, <1>2, <1>3, IndexedKept DEF Open
<1>11. Mirrors(p)'
  BY <1>1, <1>3, <1>4, <1>8 DEF Mirrors
<1>12. Open(p)'
  BY <1>1, <1>10, <1>11 DEF Open
<1> QED BY <1>1, <1>9, <1>12, StaysOpen DEF TableInv

LEMMA PsyncTable ==
  ASSUME TypeOK, TypeOK', TableInv, NEW p \in Procs, Psync(p) PROVE TableInv'
<1>1. /\ st[p] = "psync" /\ st' = [st EXCEPT ![p] = "ready"] /\ st'[p] = "ready" /\ ~wild[p]
      /\ synced' = file /\ file' = file /\ m' = m /\ f_len' = f_len /\ off' = off
      /\ u_len' = u_len /\ by_name' = by_name /\ by_cookie' = by_cookie /\ wild' = wild
  BY DEF Psync, Step, index, TypeOK, Types
<1>2. Open(p)
  BY <1>1 DEF TableInv
<1>3. Indexed(p)'
  <2>1. Counted(p)' = Counted(p)
    BY <1>1 DEF Counted
  <2> QED BY <1>1, <1>2, <2>1, IndexedKept DEF Open
<1>4. Mirrors(p)'
  <2>1. Written(p)' = Written(p)
    BY <1>1 DEF Written
  <2> QED BY <1>1, <1>2, <2>1 DEF Open, Mirrors
<1>5. Open(p)'
  BY <1>1, <1>3, <1>4 DEF Open
<1> QED BY <1>1, <1>5, StaysOpen DEF TableInv

(* An exception ends the command. *)
LEMMA FailsTable ==
  ASSUME TypeOK, TableInv, ~Retries, NEW p \in Procs, Exit(p) \/ CreateFails(p)
  PROVE  TableInv'
<1>1. st[p] # "off"
  BY DEF Exit, CreateFails, FailedStep
<1>2. Forget({p}) /\ file' = file /\ synced' = synced
  BY DEF Exit, CreateFails, disk
<1> QED BY <1>1, <1>2, ExitTable

LEMMA NextTable ==
  ASSUME ~Retries, TypeOK, TypeOK', TableInv, [Next]_vars PROVE TableInv'
<1>1. CASE Next
  <2>1. CASE Crash
    BY <2>1, CrashTable
  <2>2. ASSUME NEW p \in Procs, Alone(p) /\ Load(p) PROVE TableInv'
    BY <2>2, LoadTable
  <2>3. ASSUME NEW p \in Procs, Exit(p) \/ Write(p) \/ CreateFails(p) \/ Sync(p)
        PROVE  TableInv'
    BY <2>3, WriteTable, SyncTable, FailsTable
  <2>4. ASSUME NEW p \in Procs, Index(p) \/ Commit(p) \/ Pwrite(p) \/ Psync(p)
        PROVE  TableInv'
    BY <2>4, IndexTable, CommitTable, PwriteTable, PsyncTable
  <2>5. ASSUME NEW p \in Procs, NEW n \in Names, NEW c \in Cookies, NEW pw \in Pws,
               Create(p, n, pw, c) \/ Reset(p, n, pw, c)
        PROVE  TableInv'
    BY <2>5, CreateTable, ResetTable
  <2> QED BY <1>1, <2>1, <2>2, <2>3, <2>4, <2>5, NextCases
<1>2. CASE UNCHANGED vars
  <2>1. ASSUME NEW p \in Procs, Open(p) PROVE Open(p)'
    <3>1. Indexed(p)'
      BY <1>2, <2>1, IndexedKept DEF Open, Counted, vars, index
    <3>2. Mirrors(p)' /\ (st'[p] \in {"write", "sync", "index"} => Fresh(p)')
      BY <1>2, <2>1 DEF Open, Mirrors, Written, Fresh, vars, disk
    <3> QED BY <1>2, <2>1, <3>1, <3>2 DEF Open, vars, index
  <2>2. OneOpen' /\ Distinct(file)' /\ Distinct(synced)'
    BY <1>2 DEF TableInv, OneOpen, Distinct, vars, disk
  <2> QED BY <1>2, <2>1, <2>2 DEF TableInv, vars
<1> QED BY <1>1, <1>2

(* If the caller does not go on after an exception, one process at a time    *)
(* has the table open, its indexes hold every record once and in order, and *)
(* the file has each record where memory has it, or an incomplete one.      *)
THEOREM TableInvariant ==
  ASSUME ~Retries PROVE Spec => [](TypeOK /\ TableInv)
<1>1. Init => TypeOK /\ TableInv
  BY InitTypes, InitTable
<1>2. TypeOK /\ TableInv /\ [Next]_vars => (TypeOK /\ TableInv)'
  BY NextTypes, NextTable
<1> QED BY <1>1, <1>2, PTL DEF Spec

(* Between two calls both indexes list every record once, in strictly        *)
(* increasing order, whatever write() or fsync() fail and wherever a process *)
(* ends.  (A process that a stale iterator misled takes no step after it.)   *)
THEOREM IndexesCorrect ==
  ASSUME ~Retries PROVE Spec => []IndexesExact
<1>1. TypeOK /\ TableInv => IndexesExact
  <2> SUFFICES ASSUME TypeOK, TableInv, NEW p \in Procs, st[p] = "ready" PROVE IndexedAt(p)
    BY DEF IndexesExact
  <2>1. Indexed(p) /\ ~wild[p]
    BY DEF TableInv, Open
  <2>2. Counted(p) = f_len[p]
    BY ProcBounds
  <2> QED BY <2>1, <2>2 DEF Indexed, IndexedAt
<1> QED BY <1>1, TableInvariant, PTL

(* Between two calls the file has exactly the records of the image, each in  *)
(* its place, and the descriptor's offset is at their end, if write() is    *)
(* never short.                                                             *)
THEOREM FileCorrect ==
  ASSUME ~Retries, "short" \notin Faults PROVE Spec => []FileAgrees
<1>1. TypeOK /\ TableInv => FileAgrees
  <2> SUFFICES ASSUME TypeOK, TableInv, NEW p \in Procs, st[p] = "ready"
               PROVE  InPlace(p) /\ Len(file) = f_len[p] /\ off[p] = f_len[p]
    BY DEF FileAgrees
  <2>1. Mirrors(p)
    BY DEF TableInv, Open
  <2>2. f_len[p] \in Nat /\ Written(p) = f_len[p]
    BY ProcTypes DEF Written
  <2>3. Len(file) = f_len[p] /\ off[p] = f_len[p]
    BY <2>1, <2>2 DEF Mirrors
  <2>4. DOMAIN file = 1..f_len[p]
    <3>1. file \in Seq(Record \cup {Torn})
      BY DEF TypeOK, Types
    <3> QED BY <2>3, <3>1, LenProperties
  <2>5. InPlace(p)
    BY <2>1, <2>4 DEF Mirrors, InPlace
  <2> QED BY <2>3, <2>5
<1> QED BY <1>1, TableInvariant, PTL

------------------------------------------------------------------------------
(* Reported users *)

(* If write() is never short, an open file has the image's records.          *)
LEMMA MirrorsExactly ==
  ASSUME "short" \notin Faults, TypeOK, TableInv, NEW p \in Procs, st[p] \notin {"off", "pwrite"}
  PROVE  /\ DOMAIN file = 1..Written(p)
         /\ \A i \in DOMAIN file : file[i] = m[p][i]
<1>1. Mirrors(p)
  BY DEF TableInv, Open
<1>2. file \in Seq(Record \cup {Torn}) /\ Len(file) = Written(p)
  BY <1>1 DEF TypeOK, Types, Mirrors
<1>3. DOMAIN file = 1..Written(p)
  BY <1>2, LenProperties
<1> QED BY <1>1, <1>3 DEF Mirrors

(* A step of the one process that has the table open, or opens it. *)
LEMMA AckedAfter ==
  ASSUME TypeOK, TableInv, NEW p \in Procs, NEW x,
         st[p] # "off" \/ Alone(p), st' = [st EXCEPT ![p] = x],
         AckedIn(file)', AckedIn(synced)', Kept(p)'
  PROVE  AckedInv'
<1>1. \A q \in Procs \ {p} : st[q] = "off"
  BY DEF TableInv, OneOpen, Alone
<1>2. \A q \in Procs \ {p} : st'[q] = "off"
  BY <1>1 DEF TypeOK, Types
<1>3. \A q \in Procs \ {p} : Kept(q)'
  BY <1>2 DEF Kept, Resetting
<1> QED BY <1>3 DEF AckedInv

(* Steps that leave file and reports alone. *)
LEMMA QuietAcked ==
  ASSUME TypeOK, TableInv, AckedInv, NEW p \in Procs, NEW x,
         x \notin {"index", "commit", "pwrite", "psync"},
         st[p] # "off" \/ Alone(p), st' = [st EXCEPT ![p] = x],
         file' = file, synced' = synced, acked' = acked
  PROVE  AckedInv'
<1>1. AckedIn(file)' /\ AckedIn(synced)'
  BY DEF AckedInv, AckedIn
<1>2. st'[p] = x
  BY DEF TypeOK, Types
<1>3. Kept(p)'
  BY <1>2 DEF Kept, Resetting
<1> QED BY <1>1, <1>3, AckedAfter

LEMMA CloseAcked ==
  ASSUME TypeOK, TableInv, AckedInv, NEW p \in Procs, st[p] # "off", Forget({p}),
         file' = file, synced' = synced, acked' = acked
  PROVE  AckedInv'
<1>1. \A q \in Procs : st'[q] = "off"
  BY DEF Forget, TableInv, OneOpen
<1>2. AckedIn(file)' /\ AckedIn(synced)'
  BY DEF AckedInv, AckedIn
<1> QED BY <1>1, <1>2 DEF AckedInv, Kept, Resetting

LEMMA CrashAcked ==
  ASSUME TypeOK, AckedInv, Crash PROVE AckedInv'
<1>1. (\A q \in Procs : st'[q] = "off") /\ synced' = file' /\ acked' = acked
  BY DEF Crash, Forget
<1>2. AckedIn(file)'
  <2>1. CASE file' \in {synced, file}
    BY <1>1, <2>1 DEF AckedInv, AckedIn
  <2>2. CASE file' = Append(synced, Torn)
    <3>1. synced \in Seq(Record \cup {Torn})
      BY DEF TypeOK, Types
    <3>2. \A i \in DOMAIN synced : i \in DOMAIN file' /\ file'[i] = synced[i]
      BY <2>2, <3>1
    <3> QED BY <1>1, <3>2 DEF AckedInv, AckedIn
  <2> QED BY <2>1, <2>2 DEF Crash
<1>3. AckedIn(synced)'
  BY <1>1, <1>2 DEF AckedIn
<1> QED BY <1>1, <1>2, <1>3 DEF AckedInv, Kept, Resetting

LEMMA WriteAcked ==
  ASSUME "short" \notin Faults, TypeOK, TypeOK', TableInv, TableInv', AckedInv,
         NEW p \in Procs, Write(p)
  PROVE  AckedInv'
<1>1. /\ st[p] = "write" /\ st' = [st EXCEPT ![p] = "sync"] /\ st'[p] = "sync"
      /\ synced' = synced /\ acked' = acked /\ m' = m /\ f_len' = f_len
  BY DEF Write, Step, TypeOK, Types
<1>2. f_len[p] \in Nat
  BY ProcTypes
<1>3. /\ DOMAIN file = 1..f_len[p] /\ \A i \in DOMAIN file : file[i] = m[p][i]
  BY <1>1, <1>2, MirrorsExactly DEF Written
<1>4. DOMAIN file' = 1..(f_len[p] + 1) /\ \A i \in DOMAIN file' : file'[i] = m[p][i]
  <2>1. Mirrors(p)' /\ Written(p)' = f_len[p] + 1
    BY <1>1 DEF TableInv, Open, Written
  <2>2. file' \in Seq(Record \cup {Torn}) /\ Len(file') = f_len[p] + 1
    BY <2>1 DEF TypeOK, Types, Mirrors
  <2>3. DOMAIN file' = 1..(f_len[p] + 1)
    BY <2>2, LenProperties
  <2> QED BY <1>1, <2>1, <2>3 DEF Mirrors
<1>5. \A i \in DOMAIN file : i \in DOMAIN file' /\ file'[i] = file[i]
  BY <1>2, <1>3, <1>4
<1>6. AckedIn(file)' /\ AckedIn(synced)'
  BY <1>1, <1>5 DEF AckedInv, AckedIn
<1>7. Kept(p)'
  BY <1>1 DEF Kept, Resetting
<1> QED BY <1>1, <1>6, <1>7, AckedAfter

LEMMA SyncAcked ==
  ASSUME TypeOK, TableInv, AckedInv, NEW p \in Procs, Sync(p)
  PROVE  AckedInv'
<1>1. /\ st[p] = "sync" /\ st' = [st EXCEPT ![p] = "index"] /\ st'[p] = "index"
      /\ synced' = file /\ file' = file /\ acked' = acked
  BY DEF Sync, Step, TypeOK, Types
<1>2. AckedIn(file)' /\ AckedIn(synced)'
  BY <1>1 DEF AckedInv, AckedIn
<1>3. Kept(p)'
  BY <1>1 DEF Kept, Resetting
<1> QED BY <1>1, <1>2, <1>3, AckedAfter

LEMMA IndexAcked ==
  ASSUME TypeOK, TableInv, AckedInv, NEW p \in Procs, Index(p)
  PROVE  AckedInv'
<1>1. /\ st[p] = "index" /\ st' = [st EXCEPT ![p] = "commit"] /\ st'[p] = "commit"
      /\ synced' = synced /\ file' = file /\ acked' = acked
  BY DEF Index, Step, disk, TypeOK, Types
<1>2. AckedIn(file)' /\ AckedIn(synced)'
  BY <1>1 DEF AckedInv, AckedIn
<1>3. Kept(p)'
  BY <1>1 DEF AckedInv, Kept, Resetting
<1> QED BY <1>1, <1>2, <1>3, AckedAfter

(* The user a call reports is in the file with the password it reports. *)
LEMMA ReportedInFile ==
  ASSUME TypeOK, NEW u \in DOMAIN file, NEW r \in Record, file[u] = r,
         AckedIn(file), acked' = [acked EXCEPT ![r.name] = {r.pw}], file' = file
  PROVE  AckedIn(file)'
<1> SUFFICES ASSUME NEW n \in Names, acked'[n] # {}
             PROVE  \E i \in DOMAIN file :
                      file[i] # Torn /\ file[i].name = n /\ file[i].pw \in acked'[n]
  BY DEF AckedIn
<1>1. acked \in [Names -> SUBSET Pws] /\ r # Torn
  BY TornAssumption DEF TypeOK, Types
<1>2. CASE n = r.name
  <2>1. acked'[n] = {r.pw}
    BY <1>1, <1>2
  <2> QED BY <1>1, <1>2, <2>1
<1>3. CASE n # r.name
  <2>1. acked'[n] = acked[n]
    BY <1>1, <1>3
  <2> QED BY <2>1 DEF AckedIn
<1> QED BY <1>2, <1>3

LEMMA CommitAcked ==
  ASSUME "short" \notin Faults, TypeOK, TableInv, AckedInv, NEW p \in Procs, Commit(p)
  PROVE  AckedInv'
<1> DEFINE r == m[p][user[p]]
<1>1. /\ st[p] = "commit" /\ st' = [st EXCEPT ![p] = "ready"] /\ st'[p] = "ready"
      /\ synced' = synced /\ file' = file
      /\ acked' = [acked EXCEPT ![r.name] = {r.pw}]
  BY DEF Commit, Step, disk, TypeOK, Types
<1>2. synced = file
  BY <1>1 DEF AckedInv, Kept
<1>3. f_len[p] \in Nat /\ user[p] = f_len[p] + 1 /\ Len(m[p]) = f_len[p] + 1 /\ m[p] \in Seq(Record)
  BY <1>1, ProcTypes, ProcBounds DEF Creating
<1>4. user[p] \in DOMAIN file /\ file[user[p]] = r /\ r \in Record
  <2>1. DOMAIN file = 1..(f_len[p] + 1) /\ \A i \in DOMAIN file : file[i] = m[p][i]
    BY <1>1, MirrorsExactly DEF Written
  <2>2. user[p] \in 1..(f_len[p] + 1) /\ user[p] \in 1..Len(m[p])
    BY <1>3
  <2>3. r \in Record
    BY <1>3, <2>2, ElementOfSeq
  <2> QED BY <2>1, <2>2, <2>3
<1> HIDE DEF r
<1>5. AckedIn(file)'
  BY <1>1, <1>4, ReportedInFile DEF AckedInv
<1>6. AckedIn(synced)'
  BY <1>1, <1>2, <1>5 DEF AckedIn
<1>7. Kept(p)'
  BY <1>1 DEF Kept, Resetting
<1> QED BY <1>1, <1>5, <1>6, <1>7, AckedAfter

LEMMA ResetAcked ==
  ASSUME TypeOK, TypeOK', TableInv, AckedInv, NEW p \in Procs,
         NEW nm \in Names, NEW pw \in Pws, NEW c \in Cookies, Reset(p, nm, pw, c)
  PROVE  AckedInv'
<1> DEFINE u == FindByName(p, nm)
<1>1. /\ st[p] = "ready" /\ st' = [st EXCEPT ![p] = "pwrite"] /\ st'[p] = "pwrite"
      /\ synced' = synced /\ file' = file /\ user'[p] = u
      /\ acked' = [acked EXCEPT ![nm] = IF @ = {} THEN {} ELSE @ \cup {pw}]
  BY DEF Reset, Step, disk, TypeOK, Types
<1> HIDE DEF u
<1>2. m'[p][u].name = nm /\ m'[p][u].pw = pw
  <2>1. m'[p][u] = [name |-> nm, cookie |-> c, pw |-> pw]
    BY ResetImage DEF u
  <2> QED BY <2>1
<1>3. /\ \A n \in Names : acked[n] \subseteq acked'[n] /\ (acked'[n] # {} => acked[n] # {})
      /\ acked'[nm] = {} \/ pw \in acked'[nm]
  BY <1>1 DEF TypeOK, Types
<1>4. AckedIn(file)' /\ AckedIn(synced)'
  BY <1>1, <1>3 DEF AckedInv, AckedIn
<1>5. Kept(p)'
  BY <1>1, <1>2, <1>3 DEF Kept, Resetting
<1> QED BY <1>1, <1>4, <1>5, AckedAfter

LEMMA PwriteAcked ==
  ASSUME "short" \notin Faults, TypeOK, TypeOK', TableInv, TableInv', AckedInv,
         NEW p \in Procs, Pwrite(p)
  PROVE  AckedInv'
<1> DEFINE u == user[p]
<1>1. /\ st[p] = "pwrite" /\ st' = [st EXCEPT ![p] = "psync"] /\ st'[p] = "psync"
      /\ synced' = synced /\ acked' = acked /\ m' = m /\ user' = user
      /\ u \in DOMAIN file /\ DOMAIN file' = DOMAIN file
      /\ \A i \in DOMAIN file : i # u => file'[i] = file[i]
  BY DEF Pwrite, Step, TypeOK, Types
<1>2. \A i \in DOMAIN file' : file'[i] = m[p][i]
  <2>1. Mirrors(p)'
    BY <1>1 DEF TableInv, Open
  <2> QED BY <1>1, <2>1 DEF Mirrors
<1>3. file[u].name = m[p][u].name
  <2>1. Mirrors(p)
    BY <1>1 DEF TableInv, Open
  <2> QED BY <1>1, <2>1 DEF Mirrors
<1>4. m[p][u] \in Record
  <2>1. u \in 1..Len(m[p]) /\ m[p] \in Seq(Record)
    <3>1. u \in 1..f_len[p]
      BY <1>1, ProcBounds DEF Resetting
    <3> QED BY <3>1, ProcTypes
  <2> QED BY <2>1, ElementOfSeq
<1>5. acked[m[p][u].name] = {} \/ m[p][u].pw \in acked[m[p][u].name]
  BY <1>1 DEF AckedInv, Kept, Resetting
<1> HIDE DEF u
<1>6. AckedIn(file)'
  <2> SUFFICES ASSUME NEW n \in Names, acked[n] # {}
               PROVE  \E i \in DOMAIN file' :
                        file'[i] # Torn /\ file'[i].name = n /\ file'[i].pw \in acked[n]
    BY <1>1 DEF AckedIn
  <2>1. PICK i \in DOMAIN file : file[i] # Torn /\ file[i].name = n /\ file[i].pw \in acked[n]
    BY DEF AckedInv, AckedIn
  <2>2. CASE i = u
    <3>1. file'[u] = m[p][u] /\ m[p][u] # Torn
      BY <1>1, <1>2, <1>4, TornAssumption
    <3> QED BY <1>1, <1>3, <1>5, <2>1, <2>2, <3>1
  <2>3. CASE i # u
    BY <1>1, <2>1, <2>3
  <2> QED BY <2>2, <2>3
<1>7. AckedIn(synced)'
  BY <1>1 DEF AckedInv, AckedIn
<1>8. Kept(p)'
  BY <1>1 DEF AckedInv, Kept, Resetting
<1> QED BY <1>1, <1>6, <1>7, <1>8, AckedAfter

LEMMA PsyncAcked ==
  ASSUME "short" \notin Faults, TypeOK, TableInv, AckedInv, NEW p \in Procs, Psync(p)
  PROVE  AckedInv'
<1> DEFINE r == m[p][user[p]]
<1>1. /\ st[p] = "psync" /\ st' = [st EXCEPT ![p] = "ready"] /\ st'[p] = "ready"
      /\ synced' = file /\ file' = file
      /\ acked' = [acked EXCEPT ![r.name] = {r.pw}]
  BY DEF Psync, Step, TypeOK, Types
<1>2. /\ f_len[p] \in Nat /\ f_len[p] <= Len(m[p]) /\ Len(m[p]) \in Nat
      /\ user[p] \in 1..f_len[p] /\ m[p] \in Seq(Record)
  BY <1>1, ProcTypes, ProcBounds DEF Resetting
<1>3. user[p] \in DOMAIN file /\ file[user[p]] = r /\ r \in Record
  <2>1. DOMAIN file = 1..f_len[p] /\ \A i \in DOMAIN file : file[i] = m[p][i]
    BY <1>1, <1>2, MirrorsExactly DEF Written
  <2>2. user[p] \in 1..Len(m[p])
    BY <1>2
  <2>3. r \in Record
    BY <1>2, <2>2, ElementOfSeq
  <2> QED BY <1>2, <2>1, <2>3
<1> HIDE DEF r
<1>4. AckedIn(file)'
  BY <1>1, <1>3, ReportedInFile DEF AckedInv
<1>5. AckedIn(synced)'
  BY <1>1, <1>4 DEF AckedIn
<1>6. Kept(p)'
  BY <1>1 DEF Kept, Resetting
<1> QED BY <1>1, <1>4, <1>5, <1>6, AckedAfter

(* A creation that has begun, an exception, an opening or an end. *)
LEMMA OthersAcked ==
  ASSUME ~Retries, TypeOK, TableInv, AckedInv, NEW p \in Procs,
         \/ Alone(p) /\ Load(p)
         \/ Exit(p) \/ CreateFails(p)
         \/ \E n \in Names, c \in Cookies, pw \in Pws : Create(p, n, pw, c)
  PROVE  AckedInv'
<1>1. CASE Alone(p) /\ Load(p)
  <2>1. /\ st' = [st EXCEPT ![p] = "ready"]
        /\ file' = file /\ synced' = synced /\ acked' = acked
    BY <1>1 DEF Load, Step, disk
  <2> QED BY <1>1, <2>1, QuietAcked
<1>2. CASE Exit(p) \/ CreateFails(p)
  <2>1. /\ st[p] # "off" /\ Forget({p})
        /\ file' = file /\ synced' = synced /\ acked' = acked
    BY <1>2 DEF Exit, CreateFails, FailedStep, disk
  <2> QED BY <2>1, CloseAcked
<1>3. CASE \E n \in Names, c \in Cookies, pw \in Pws : Create(p, n, pw, c)
  <2>1. /\ st[p] = "ready" /\ st' = [st EXCEPT ![p] = "write"]
        /\ file' = file /\ synced' = synced /\ acked' = acked
    BY <1>3 DEF Create, Step, disk
  <2> QED BY <2>1, QuietAcked
<1> QED BY <1>1, <1>2, <1>3

LEMMA NextAcked ==
  ASSUME ~Retries, "short" \notin Faults,
         TypeOK, TypeOK', TableInv, TableInv', AckedInv, [Next]_vars
  PROVE  AckedInv'
<1>1. CASE Next
  <2>1. CASE Crash
    BY <2>1, CrashAcked
  <2>2. ASSUME NEW p \in Procs, (Alone(p) /\ Load(p)) \/ Exit(p) \/ CreateFails(p)
        PROVE  AckedInv'
    BY <2>2, OthersAcked
  <2>3. ASSUME NEW p \in Procs, Write(p) \/ Sync(p) \/ Index(p) PROVE AckedInv'
    BY <2>3, WriteAcked, SyncAcked, IndexAcked
  <2>4. ASSUME NEW p \in Procs, Commit(p) \/ Pwrite(p) \/ Psync(p) PROVE AckedInv'
    BY <2>4, CommitAcked, PwriteAcked, PsyncAcked
  <2>5. ASSUME NEW p \in Procs, NEW n \in Names, NEW c \in Cookies, NEW pw \in Pws,
               Create(p, n, pw, c)
        PROVE  AckedInv'
    BY <2>5, OthersAcked
  <2>6. ASSUME NEW p \in Procs, NEW n \in Names, NEW c \in Cookies, NEW pw \in Pws,
               Reset(p, n, pw, c)
        PROVE  AckedInv'
    BY <2>6, ResetAcked
  <2> QED BY <1>1, <2>1, <2>2, <2>3, <2>4, <2>5, <2>6, NextCases
<1>2. CASE UNCHANGED vars
  BY <1>2 DEF AckedInv, AckedIn, Kept, vars, disk
<1> QED BY <1>1, <1>2

(* A user whose creation was reported stays in the file, with the password   *)
(* last reported or that of an interrupted reset, through any crash of the  *)
(* process or the machine, if write() is never short.                       *)
THEOREM AckedCorrect ==
  ASSUME ~Retries, "short" \notin Faults PROVE Spec => []AckedSurvive
<1>1. Init => TypeOK /\ TableInv /\ AckedInv
  <2>1. Init => AckedInv
    BY DEF Init, AckedInv, AckedIn, Kept, Resetting
  <2> QED BY <2>1, InitTypes, InitTable
<1>2. TypeOK /\ TableInv /\ AckedInv /\ [Next]_vars => (TypeOK /\ TableInv /\ AckedInv)'
  BY NextTypes, NextTable, NextAcked
<1>3. TypeOK /\ TableInv /\ AckedInv => AckedSurvive
  BY DEF AckedInv, AckedIn, AckedSurvive
<1> QED BY <1>1, <1>2, <1>3, PTL DEF Spec
==============================================================================
