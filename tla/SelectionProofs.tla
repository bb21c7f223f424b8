-------------------------- MODULE SelectionProofs ---------------------------
(***************************************************************************)
(* Positions of a sequence: the least and the last of them, how many there *)
(* are, and what AtPositions makes of them.                                *)
(***************************************************************************)
EXTENDS Selections, Integers, FiniteSetTheorems, WellFoundedInduction, TLAPS

\* A set of numbers has a least one.
LEMMA LeastNumber ==
  ASSUME NEW S \in SUBSET Nat, S # {}
  PROVE  \E n \in S : \A m \in S : n <= m
<1> DEFINE R == OpToRel(<, Nat)
<1>1. PICK n \in S : \A m \in S : ~(<<m, n>> \in R)
  <2>1. IsWellFoundedOn(R, Nat)
    BY NatLessThanWellFounded
  <2> HIDE DEF R
  <2> QED
    BY <2>1, WFMin
<1>2. \A m \in S : ~(m < n)
  BY <1>1 DEF OpToRel
<1> QED
  BY <1>2

LEMMA CountedTo ==
  ASSUME NEW n \in Nat
  PROVE  IsFiniteSet(1 .. n) /\ Cardinality(1 .. n) = n
<1>1. IsFiniteSet(1 .. n) /\ Cardinality(1 .. n) = IF 1 > n THEN 0 ELSE n - 1 + 1
  BY FS_Interval
<1> QED
  BY <1>1

\* A finite set of positions has a last one.
LEMMA LastPosition ==
  ASSUME NEW n \in Nat, NEW E \in SUBSET (1 .. n), E # {}
  PROVE  \E i \in E : \A k \in E : k <= i
<1> DEFINE Bounds == {b \in Nat : \A k \in E : k <= b}
<1>1. n \in Bounds
  OBVIOUS
<1>2. PICK b \in Bounds : \A c \in Bounds : b <= c
  <2> HIDE DEF Bounds
  <2>1. Bounds \in SUBSET Nat /\ Bounds # {}
    BY <1>1 DEF Bounds
  <2> QED
    BY <2>1, LeastNumber
<1>3. b \in E
  <2> SUFFICES ASSUME b \notin E PROVE FALSE
    OBVIOUS
  <2>1. PICK k \in E : TRUE
    OBVIOUS
  <2>2. b - 1 \in Bounds
    <3>1. k \in Nat \ {0} /\ k <= b
      BY <2>1
    <3> QED
      BY <3>1
  <2> QED
    BY <1>2, <2>2
<1> QED
  BY <1>2, <1>3

LEMMA TheLast ==
  ASSUME NEW E \in SUBSET Nat, NEW i \in E, \A k \in E : k <= i
  PROVE  (CHOOSE j \in E : \A k \in E : k <= j) = i
<1> DEFINE j == CHOOSE j \in E : \A k \in E : k <= j
<1>1. j \in E /\ \A k \in E : k <= j
  OBVIOUS
<1> HIDE DEF j
<1>2. j = i
  BY <1>1
<1> QED
  BY <1>2 DEF j

PlaceIn(S, n) == Cardinality({m \in S : m <= n})

LEMMA RankGrows ==
  ASSUME NEW len \in Nat, NEW S \in SUBSET (1 .. len)
  PROVE  /\ IsFiniteSet(S) /\ Cardinality(S) \in 0 .. len
         /\ \A n \in S : PlaceIn(S, n) \in 1 .. Cardinality(S)
         /\ \A m, n \in S : m < n => PlaceIn(S, m) < PlaceIn(S, n)
<1>0. \A n \in S : n \in Nat
  OBVIOUS
<1>1. /\ IsFiniteSet(S) /\ Cardinality(S) \in 0 .. len
  <2>1. IsFiniteSet(1 .. len) /\ Cardinality(1 .. len) = len
    BY CountedTo
  <2>2. IsFiniteSet(S) /\ Cardinality(S) <= len
    BY <2>1, FS_Subset
  <2> QED
    BY <2>2, FS_CardinalityType
<1> DEFINE Upto(n) == {m \in S : m <= n}
<1>2. \A n : IsFiniteSet(Upto(n)) /\ Cardinality(Upto(n)) \in 0 .. Cardinality(S)
  <2> SUFFICES ASSUME NEW n
               PROVE  IsFiniteSet(Upto(n)) /\ Cardinality(Upto(n)) \in 0 .. Cardinality(S)
    OBVIOUS
  <2>1. IsFiniteSet(Upto(n)) /\ Cardinality(Upto(n)) <= Cardinality(S)
    BY <1>1, FS_Subset
  <2> QED
    BY <1>1, <2>1, FS_CardinalityType
<1>3. ASSUME NEW n \in S PROVE PlaceIn(S, n) \in 1 .. Cardinality(S)
  <2>1. Upto(n) # {}
    BY <1>0, <1>3
  <2>2. Cardinality(Upto(n)) # 0
    BY <1>2, <2>1, FS_EmptySet
  <2> QED
    BY <1>1, <1>2, <2>2 DEF PlaceIn
<1>4. ASSUME NEW m \in S, NEW n \in S, m < n PROVE PlaceIn(S, m) < PlaceIn(S, n)
  <2>1. Upto(m) \subseteq Upto(n) /\ n \in Upto(n) /\ n \notin Upto(m)
    <3>1. m \in Nat /\ n \in Nat /\ n <= n /\ ~(n <= m) /\ \A i \in Nat : i <= m => i <= n
      BY <1>0, <1>4
    <3> QED
      BY <1>0, <3>1
  <2>2. Cardinality(Upto(m)) <= Cardinality(Upto(n)) /\ Cardinality(Upto(m)) # Cardinality(Upto(n))
    BY <1>2, <2>1, FS_Subset
  <2> QED
    BY <1>1, <1>2, <2>2 DEF PlaceIn
<1> QED
  BY <1>1, <1>3, <1>4

\* The k-th position is there, and is one of those chosen.
LEMMA RankReached ==
  ASSUME NEW len \in Nat, NEW S \in SUBSET (1 .. len), NEW k \in 1 .. Cardinality(S)
  PROVE  Nth(S, k) \in S /\ PlaceIn(S, Nth(S, k)) = k
<1> DEFINE Enough == {n \in Nat : PlaceIn(S, n) >= k}
<1>0. /\ \A n \in S : n \in Nat /\ 1 <= n /\ n <= len
      /\ IsFiniteSet(S) /\ Cardinality(S) \in Nat /\ k \in Nat /\ 1 <= k /\ k <= Cardinality(S)
  BY RankGrows
<1>1. \A n \in Nat : PlaceIn(S, n) \in Nat /\ IsFiniteSet({m \in S : m <= n})
  <2> SUFFICES ASSUME NEW n \in Nat
               PROVE  PlaceIn(S, n) \in Nat /\ IsFiniteSet({m \in S : m <= n})
    OBVIOUS
  <2>1. IsFiniteSet({m \in S : m <= n})
    BY <1>0, FS_Subset
  <2> QED
    BY <2>1, FS_CardinalityType DEF PlaceIn
<1>2. PlaceIn(S, len) = Cardinality(S)
  <2>1. {m \in S : m <= len} = S
    BY <1>0
  <2> QED
    BY <2>1 DEF PlaceIn
<1>3. PlaceIn(S, 0) = 0
  <2>1. \A m \in S : ~(m <= 0)
    BY <1>0
  <2>2. {m \in S : m <= 0} = {}
    BY <2>1
  <2> QED
    BY <2>2, FS_EmptySet DEF PlaceIn
<1>4. PICK n \in Enough : \A m \in Enough : n <= m
  <2>1. len \in Enough /\ Enough \in SUBSET Nat
    BY <1>0, <1>2
  <2> HIDE DEF Enough
  <2> QED
    BY <2>1, LeastNumber
<1>5. n \in Nat \ {0} /\ PlaceIn(S, n) \in Nat /\ PlaceIn(S, n) >= k
  <2>1. n \in Nat /\ PlaceIn(S, n) >= k
    BY <1>4
  <2>2. PlaceIn(S, n) \in Nat
    BY <1>1, <2>1
  <2> HIDE DEF Enough
  <2>3. n # 0
    BY <1>0, <1>3, <2>1
  <2> QED
    BY <2>1, <2>2, <2>3
<1>6. n - 1 \in Nat /\ PlaceIn(S, n - 1) \in Nat /\ PlaceIn(S, n - 1) < k
  <2>1. n - 1 \in Nat /\ ~(n <= n - 1)
    BY <1>5
  <2>2. n - 1 \notin Enough
    BY <1>4, <2>1
  <2>3. PlaceIn(S, n - 1) \in Nat /\ ~(PlaceIn(S, n - 1) >= k)
    BY <1>1, <2>1, <2>2
  <2> HIDE DEF Enough
  <2> QED
    BY <1>0, <2>1, <2>3
<1>7. {m \in S : m <= n} = {m \in S : m <= n - 1} \cup {m \in S : m = n}
  <2>1. \A m \in S : m <= n <=> (m <= n - 1 \/ m = n)
    BY <1>0, <1>5, <1>6
  <2> QED
    BY <2>1
<1>8. n \in S
  <2> SUFFICES ASSUME n \notin S PROVE FALSE
    OBVIOUS
  <2>1. PlaceIn(S, n) = PlaceIn(S, n - 1)
    BY <1>7 DEF PlaceIn
  <2> QED
    BY <1>0, <1>5, <1>6, <2>1
<1>9. PlaceIn(S, n) = PlaceIn(S, n - 1) + 1
  <2> DEFINE Low == {m \in S : m <= n - 1}
  <2>1. IsFiniteSet(Low)
    BY <1>1, <1>6
  <2>2. n \notin Low
    BY <1>5
  <2>3. {m \in S : m <= n} = Low \cup {n}
    BY <1>7, <1>8
  <2> HIDE DEF Low
  <2>4. Cardinality(Low \cup {n}) = Cardinality(Low) + 1
    BY <2>1, <2>2, FS_AddElement
  <2> QED
    BY <2>3, <2>4 DEF PlaceIn, Low
<1>10. PlaceIn(S, n) = k
  BY <1>0, <1>5, <1>6, <1>9
<1> QED
  BY <1>8, <1>10 DEF Nth, PlaceIn

LEMMA Positions ==
  ASSUME NEW s, NEW len \in Nat, NEW S \in SUBSET (1 .. len)
  PROVE  /\ IsFiniteSet(S) /\ Cardinality(S) \in 0 .. len
         /\ DOMAIN AtPositions(s, S) = 1 .. Cardinality(S)
         /\ \A k \in 1 .. Cardinality(S) :
              Nth(S, k) \in S /\ AtPositions(s, S)[k] = s[Nth(S, k)]
         /\ \A n \in S : \E k \in 1 .. Cardinality(S) : Nth(S, k) = n
         /\ \A j, k \in 1 .. Cardinality(S) : Nth(S, j) = Nth(S, k) => j = k
<1>1. /\ DOMAIN AtPositions(s, S) = 1 .. Cardinality(S)
      /\ \A k \in 1 .. Cardinality(S) : AtPositions(s, S)[k] = s[Nth(S, k)]
  BY DEF AtPositions
<1>2. \A k \in 1 .. Cardinality(S) : Nth(S, k) \in S /\ PlaceIn(S, Nth(S, k)) = k
  BY RankReached
<1>3. ASSUME NEW n \in S PROVE \E k \in 1 .. Cardinality(S) : Nth(S, k) = n
  <2>1. PlaceIn(S, n) \in 1 .. Cardinality(S)
    BY RankGrows
  <2>2. PICK m : m = Nth(S, PlaceIn(S, n))
    OBVIOUS
  <2>3. m \in S /\ PlaceIn(S, m) = PlaceIn(S, n)
    BY <1>2, <2>1, <2>2
  <2>4. ~(m < n) /\ ~(n < m)
    <3>1. PlaceIn(S, n) \in Nat
      BY <2>1, RankGrows
    <3>2. ~(PlaceIn(S, m) < PlaceIn(S, n)) /\ ~(PlaceIn(S, n) < PlaceIn(S, m))
      BY <2>3, <3>1
    <3> QED
      BY <2>3, <3>2, RankGrows
  <2>5. m = n
    <3>1. m \in Nat /\ n \in Nat
      BY <2>3
    <3> QED
      BY <2>4, <3>1
  <2> QED
    BY <2>1, <2>2, <2>5
<1>4. IsFiniteSet(S) /\ Cardinality(S) \in 0 .. len
  BY RankGrows
<1> QED
  BY <1>1, <1>2, <1>3, <1>4

\* Of finitely many numbers one is the largest.
LEMMA LargestOf ==
  ASSUME NEW len \in Nat, NEW E \in SUBSET (1 .. len), E # {}, NEW f \in [E -> Int]
  PROVE  \E n \in E : \A k \in E : f[k] <= f[n]
<1> DEFINE Above(n) == {k \in E : f[k] > f[n]}
           Counts == {Cardinality(Above(n)) : n \in E}
<1>1. IsFiniteSet(E)
  BY RankGrows
<1>2. \A n \in E : IsFiniteSet(Above(n)) /\ Cardinality(Above(n)) \in Nat
  <2> SUFFICES ASSUME NEW n \in E PROVE IsFiniteSet(Above(n)) /\ Cardinality(Above(n)) \in Nat
    OBVIOUS
  <2>1. IsFiniteSet(Above(n))
    BY <1>1, FS_Subset
  <2> QED
    BY <2>1, FS_CardinalityType
<1>3. PICK n \in E : \A k \in E : Cardinality(Above(n)) <= Cardinality(Above(k))
  <2>1. Counts \in SUBSET Nat /\ Counts # {}
    BY <1>2
  <2>2. PICK c \in Counts : \A d \in Counts : c <= d
    <3> HIDE DEF Counts
    <3> QED
      BY <2>1, LeastNumber
  <2>3. PICK n \in E : c = Cardinality(Above(n))
    OBVIOUS
  <2>4. \A k \in E : Cardinality(Above(k)) \in Counts
    OBVIOUS
  <2> HIDE DEF Above, Counts
  <2> QED
    BY <2>2, <2>3, <2>4
<1>4. ASSUME NEW k \in E, ~(f[k] <= f[n]) PROVE FALSE
  <2>1. Above(k) \subseteq Above(n) /\ k \in Above(n) /\ k \notin Above(k)
    <3>1. f[k] > f[n] /\ ~(f[k] > f[k]) /\ \A i \in E : f[i] > f[k] => f[i] > f[n]
      BY <1>4
    <3> QED
      BY <3>1
  <2>2. Cardinality(Above(k)) <= Cardinality(Above(n)) /\ Cardinality(Above(k)) # Cardinality(Above(n))
    BY <1>2, <2>1, FS_Subset
  <2> QED
    BY <1>2, <1>3, <2>2
<1> QED
  BY <1>4

\* A set of numbers that is finite and not empty has a largest one.
LEMMA LargestNumber ==
  ASSUME NEW S \in SUBSET Int, IsFiniteSet(S), S # {}
  PROVE  \E y \in S : \A z \in S : z <= y
<1>1. PICK n \in Nat : ExistsSurjection(1 .. n, S)
  BY FS_NatSurjection
<1>2. PICK f \in [1 .. n -> S] : \A y \in S : \E k \in 1 .. n : f[k] = y
  BY <1>1 DEF ExistsSurjection, Surjection
<1>3. 1 .. n # {} /\ f \in [1 .. n -> Int]
  BY <1>2
<1>4. PICK k \in 1 .. n : \A j \in 1 .. n : f[j] <= f[k]
  <2> DEFINE E == 1 .. n
  <2>1. E \in SUBSET (1 .. n) /\ E # {} /\ f \in [E -> Int]
    BY <1>3
  <2> HIDE DEF E
  <2>2. \E i \in E : \A j \in E : f[j] <= f[i]
    BY <2>1, LargestOf
  <2> QED
    BY <2>2 DEF E
<1> QED
  BY <1>2, <1>4

\* The selected position that k - 1 others come before is the k-th.
LEMMA NthIs ==
  ASSUME NEW len \in Nat, NEW S \in SUBSET (1 .. len), NEW n \in S
  PROVE  PlaceIn(S, n) \in 1 .. Cardinality(S) /\ Nth(S, PlaceIn(S, n)) = n
<1>1. PlaceIn(S, n) \in 1 .. Cardinality(S) /\ PlaceIn(S, n) \in Nat
  BY RankGrows
<1>2. PICK m : m = Nth(S, PlaceIn(S, n))
  OBVIOUS
<1>3. m \in S /\ PlaceIn(S, m) = PlaceIn(S, n)
  BY <1>1, <1>2, RankReached
<1>4. ~(PlaceIn(S, m) < PlaceIn(S, n)) /\ ~(PlaceIn(S, n) < PlaceIn(S, m))
  BY <1>1, <1>3
<1>5. ~(m < n) /\ ~(n < m)
  BY <1>3, <1>4, RankGrows
<1>6. m \in Nat /\ n \in Nat
  BY <1>3
<1> QED
  BY <1>1, <1>2, <1>5, <1>6

LEMMA FirstSelected ==
  ASSUME NEW len \in Nat, NEW S \in SUBSET (1 .. len), NEW n \in S, \A m \in S : n <= m
  PROVE  Nth(S, 1) = n /\ 1 \in 1 .. Cardinality(S)
<1>1. {m \in S : m <= n} = {n}
  <2>1. \A m \in S : m \in Nat /\ n \in Nat /\ n <= m
    OBVIOUS
  <2>2. \A m \in S : m <= n <=> m = n
    BY <2>1
  <2> QED
    BY <2>2
<1>2. PlaceIn(S, n) = 1
  BY <1>1, FS_Singleton DEF PlaceIn
<1> QED
  BY <1>2, NthIs

\* Positions moved up by one are as many.
LEMMA MovedUp ==
  ASSUME NEW S \in SUBSET Nat, IsFiniteSet(S)
  PROVE  IsFiniteSet({i + 1 : i \in S}) /\ Cardinality({i + 1 : i \in S}) = Cardinality(S)
<1> DEFINE T == {i + 1 : i \in S}
           f == [i \in S |-> i + 1]
<1>1. f \in [S -> T] /\ \A i, j \in S : f[i] = f[j] => i = j
  <2>1. \A i, j \in S : i + 1 = j + 1 => i = j
    OBVIOUS
  <2> QED
    BY <2>1
<1>2. \A t \in T : \E i \in S : f[i] = t
  OBVIOUS
<1>3. f \in Bijection(S, T)
  <2> HIDE DEF f, T
  <2> QED
    BY <1>1, <1>2 DEF Bijection, Injection, Surjection, IsInjective
<1>4. ExistsBijection(S, T)
  BY <1>3 DEF ExistsBijection
<1> HIDE DEF T, f
<1> QED
  BY <1>4, FS_Bijection DEF T

\* A sequence that grew at its front: what is selected of it grew there, or not at all.
LEMMA Prepended ==
  ASSUME NEW A, NEW s \in Seq(A), NEW f \in A, NEW E \in SUBSET DOMAIN s, NEW taken \in BOOLEAN
  PROVE  LET old == AtPositions(s, E)
         IN  AtPositions(<<f>> \o s, (IF taken THEN {1} ELSE {}) \cup {i + 1 : i \in E}) =
               IF taken THEN <<f>> \o old ELSE old
<1> DEFINE head  == IF taken THEN {1} ELSE {}
           delta == IF taken THEN 1 ELSE 0
           Up(S) == {i + 1 : i \in S}
           new   == head \cup Up(E)
           long  == <<f>> \o s
           old   == AtPositions(s, E)
           upto(i) == {m \in E : m <= i}
<1>1. PICK len \in Nat : len = Len(s)
  OBVIOUS
<1>2. /\ E \in SUBSET (1 .. len) /\ E \in SUBSET Nat
      /\ long \in Seq(A) /\ Len(long) = len + 1 /\ long[1] = f
      /\ \A i \in 1 .. len : long[i + 1] = s[i]
  BY <1>1
<1>3. IsFiniteSet(E) /\ Cardinality(E) \in Nat
  BY <1>2, RankGrows
<1>4. ASSUME NEW D \in SUBSET E
      PROVE  IsFiniteSet(D) /\ Cardinality(head \cup Up(D)) = Cardinality(D) + delta
  <2>1. IsFiniteSet(D) /\ D \in SUBSET Nat
    BY <1>2, <1>3, FS_Subset
  <2>2. PICK up : up = Up(D)
    OBVIOUS
  <2>3. IsFiniteSet(up) /\ Cardinality(up) = Cardinality(D) /\ Cardinality(D) \in Nat
    BY <2>1, <2>2, MovedUp, FS_CardinalityType
  <2>4. 1 \notin up
    <3>1. \A i \in D : i \in 1 .. len
      BY <1>2
    <3>2. \A i \in 1 .. len : i + 1 # 1
      OBVIOUS
    <3> QED
      BY <2>2, <3>1, <3>2
  <2>5. Cardinality(up \cup {1}) = Cardinality(up) + 1
    BY <2>3, <2>4, FS_AddElement
  <2>6. CASE taken
    <3>1. head \cup up = up \cup {1} /\ delta = 1
      BY <2>6
    <3> QED
      BY <2>1, <2>2, <2>3, <2>5, <3>1
  <2>7. CASE ~taken
    <3>1. head \cup up = up /\ delta = 0
      BY <2>7
    <3>2. Cardinality(head \cup up) = Cardinality(D) + delta
      <4>1. PICK n \in Nat : n = Cardinality(D)
        BY <2>3
      <4>2. Cardinality(head \cup up) = n
        BY <2>3, <3>1, <4>1
      <4> QED
        BY <3>1, <4>1, <4>2
    <3> QED
      BY <2>1, <2>2, <3>2
  <2> QED
    BY <2>6, <2>7
<1>5. Cardinality(new) = Cardinality(E) + delta
  BY <1>4
<1>6. new \in SUBSET (1 .. len + 1)
  <2>1. \A i \in E : i + 1 \in 1 .. len + 1
    BY <1>2
  <2> QED
    BY <2>1
<1>7. ASSUME NEW i \in E
      PROVE  PlaceIn(new, i + 1) = PlaceIn(E, i) + delta
  <2>1. i \in Nat /\ i >= 1 /\ \A m \in E : m \in Nat /\ (m + 1 <= i + 1 <=> m <= i)
    BY <1>2, <1>7
  <2>2. {m \in new : m <= i + 1} = head \cup Up(upto(i))
    <3>1. \A m \in head : m <= i + 1
      BY <2>1
    <3>2. \A m : m \in Up(E) /\ m <= i + 1 <=> m \in Up(upto(i))
      BY <2>1
    <3> QED
      BY <3>1, <3>2
  <2>3. upto(i) \in SUBSET E
    OBVIOUS
  <2> HIDE DEF new, head, Up, delta
  <2> QED
    BY <1>4, <2>2, <2>3 DEF PlaceIn
<1>8. ASSUME NEW k \in 1 .. Cardinality(new)
      PROVE  long[Nth(new, k)] = IF taken THEN (<<f>> \o old)[k] ELSE old[k]
  <2>0. /\ k \in Nat /\ k >= 1 /\ k <= Cardinality(E) + delta
        /\ old = [j \in 1 .. Cardinality(E) |-> s[Nth(E, j)]]
    BY <1>3, <1>5 DEF AtPositions
  <2>1. CASE taken /\ k = 1
    <3>1. 1 \in new /\ \A m \in new : 1 <= m
      BY <1>6, <2>1
    <3>2. len + 1 \in Nat
      OBVIOUS
    <3>3. Nth(new, 1) = 1
      BY <1>6, <3>1, <3>2, FirstSelected
    <3>4. (<<f>> \o old)[1] = f
      <4>1. \A j \in 1 .. Cardinality(E) : s[Nth(E, j)] \in A
        <5>1. \A j \in 1 .. Cardinality(E) : Nth(E, j) \in E
          BY <1>2, Positions
        <5> QED
          BY <5>1
      <4>2. old \in Seq(A)
        BY <1>3, <2>0, <4>1
      <4> QED
        BY <4>2
    <3> QED
      BY <1>2, <2>1, <3>3, <3>4
  <2>2. CASE ~(taken /\ k = 1)
    <3>1. PICK j : j = k - delta
      OBVIOUS
    <3>2. j \in 1 .. Cardinality(E) /\ k = j + delta
      BY <1>3, <2>0, <2>2, <3>1
    <3>3. PICK n : n = Nth(E, j)
      OBVIOUS
    <3>4. n \in E /\ PlaceIn(E, n) = j
      BY <1>2, <3>2, <3>3, RankReached
    <3>5. n + 1 \in new /\ PlaceIn(new, n + 1) = k
      BY <1>7, <3>2, <3>4
    <3>6. Nth(new, k) = n + 1
      <4>1. len + 1 \in Nat
        OBVIOUS
      <4> HIDE DEF new
      <4> QED
        BY <1>6, <3>5, <4>1, NthIs
    <3>7. long[n + 1] = s[n] /\ old[j] = s[n]
      BY <1>2, <2>0, <3>2, <3>3, <3>4
    <3>8. taken => (<<f>> \o old)[j + 1] = old[j]
      <4>1. \A i \in 1 .. Cardinality(E) : s[Nth(E, i)] \in A
        <5>1. \A i \in 1 .. Cardinality(E) : Nth(E, i) \in E
          BY <1>2, Positions
        <5> QED
          BY <5>1
      <4>2. old \in Seq(A) /\ Len(old) = Cardinality(E)
        BY <1>3, <2>0, <4>1
      <4> HIDE DEF old
      <4> QED
        BY <3>2, <4>2
    <3>9. taken => k = j + 1
      BY <3>2
    <3>10. ~taken => k = j
      BY <1>3, <3>2
    <3> HIDE DEF new, long, old, delta
    <3> QED
      BY <3>6, <3>7, <3>8, <3>9, <3>10
  <2> QED
    BY <2>1, <2>2
<1>9. AtPositions(long, new) = [k \in 1 .. Cardinality(new) |-> long[Nth(new, k)]]
  BY DEF AtPositions
<1>10. /\ old \in Seq(A) /\ Len(old) = Cardinality(E)
       /\ old = [j \in 1 .. Cardinality(E) |-> old[j]]
  <2>1. \A j \in 1 .. Cardinality(E) : Nth(E, j) \in E
    BY <1>2, Positions
  <2>2. \A j \in 1 .. Cardinality(E) : s[Nth(E, j)] \in A
    BY <2>1
  <2> QED
    BY <1>3, <2>2 DEF AtPositions
<1> HIDE DEF long, new, old
<1>11. CASE taken
  <2>1. <<f>> \o old = [k \in 1 .. Cardinality(E) + 1 |-> (<<f>> \o old)[k]]
    BY <1>3, <1>10
  <2> QED
    BY <1>5, <1>8, <1>9, <1>11, <2>1 DEF long, new, old
<1>12. CASE ~taken
  <2>1. Cardinality(new) = Cardinality(E)
    BY <1>3, <1>5, <1>12
  <2> QED
    BY <1>8, <1>9, <1>10, <1>12, <2>1 DEF long, new, old
<1> QED
  BY <1>11, <1>12

\* All that a sequence has is the sequence.
LEMMA AllSelected ==
  ASSUME NEW A, NEW s \in Seq(A)
  PROVE  AtPositions(s, DOMAIN s) = s
<1>1. PICK len \in Nat : len = Len(s)
  OBVIOUS
<1>2. PICK S : S = 1 .. len
  OBVIOUS
<1>3. DOMAIN s = S /\ S \in SUBSET (1 .. len) /\ Cardinality(S) = len
  BY <1>1, <1>2, CountedTo
<1>4. ASSUME NEW k \in 1 .. len PROVE Nth(S, k) = k
  <2>1. {m \in S : m <= k} = 1 .. k
    BY <1>2
  <2>2. PlaceIn(S, k) = k
    <3>1. k \in Nat
      OBVIOUS
    <3>2. Cardinality(1 .. k) = k
      BY <3>1, CountedTo
    <3> QED
      BY <2>1, <3>2 DEF PlaceIn
  <2>3. k \in S /\ S \in SUBSET (1 .. len)
    BY <1>2, <1>3
  <2>4. Nth(S, PlaceIn(S, k)) = k
    BY <2>3, NthIs
  <2> QED
    BY <2>2, <2>4
<1>5. AtPositions(s, S) = [k \in 1 .. len |-> s[k]]
  BY <1>3, <1>4 DEF AtPositions
<1>6. s = [k \in 1 .. len |-> s[k]]
  BY <1>1
<1> QED
  BY <1>3, <1>5, <1>6

\* What is first of those selected, and of those selected from the beginning.
LEMMA FirstOfSelected ==
  ASSUME NEW s, NEW len \in Nat, NEW S \in SUBSET (1 .. len)
  PROVE  /\ S = {} => AtPositions(s, S) = << >>
         /\ S # {} => /\ AtPositions(s, S) # << >>
                      /\ \E n \in S : (\A m \in S : n <= m) /\ AtPositions(s, S)[1] = s[n]
<1>1. CASE S = {}
  <2>1. Cardinality(S) = 0
    BY <1>1, FS_EmptySet
  <2>2. AtPositions(s, S) = [k \in {} |-> s[Nth(S, k)]]
    BY <2>1 DEF AtPositions
  <2> QED
    BY <1>1, <2>2
<1>2. CASE S # {}
  <2>1. PICK n \in S : \A m \in S : n <= m
    <3>1. S \in SUBSET Nat
      OBVIOUS
    <3> QED
      BY <1>2, <3>1, LeastNumber
  <2>2. Nth(S, 1) = n /\ 1 \in 1 .. Cardinality(S)
    BY <2>1, FirstSelected
  <2>3. DOMAIN AtPositions(s, S) = 1 .. Cardinality(S) /\ AtPositions(s, S)[1] = s[n]
    BY <2>2 DEF AtPositions
  <2>4. AtPositions(s, S) # << >>
    <3>1. 1 \notin DOMAIN << >>
      OBVIOUS
    <3>2. 1 \in DOMAIN AtPositions(s, S)
      BY <2>2, <2>3
    <3> QED
      BY <3>1, <3>2, Zenon
  <2> QED
    BY <1>2, <2>1, <2>3, <2>4
<1> QED
  BY <1>1, <1>2

------------------------------------------------------------------------------
(* Finite sets in an order. *)

TotalOn(S, R) ==
  /\ \A x \in S : <<x, x>> \notin R
  /\ \A x, y \in S : x # y => <<x, y>> \in R \/ <<y, x>> \in R
  /\ \A x, y, z \in S : <<x, y>> \in R /\ <<y, z>> \in R => <<x, z>> \in R

\* How many come before x.
Ahead(S, R, x) == Cardinality({y \in S : <<y, x>> \in R})

LEMMA AheadGrows ==
  ASSUME NEW S, NEW R, IsFiniteSet(S), TotalOn(S, R)
  PROVE  /\ Cardinality(S) \in Nat
         /\ \A x \in S : Ahead(S, R, x) \in 0 .. Cardinality(S) - 1
         /\ \A x, y \in S : <<x, y>> \in R <=> Ahead(S, R, x) < Ahead(S, R, y)
<1> DEFINE Those(x) == {y \in S : <<y, x>> \in R}
<1>1. Cardinality(S) \in Nat
  BY FS_CardinalityType
<1>2. ASSUME NEW x \in S
      PROVE  IsFiniteSet(Those(x)) /\ Ahead(S, R, x) \in 0 .. Cardinality(S) - 1
  <2>1. Those(x) \subseteq S \ {x}
    BY DEF TotalOn
  <2>2. IsFiniteSet(S \ {x}) /\ Cardinality(S \ {x}) = Cardinality(S) - 1
    BY FS_RemoveElement
  <2>3. IsFiniteSet(Those(x)) /\ Cardinality(Those(x)) <= Cardinality(S) - 1
    <3> HIDE DEF Those
    <3>1. IsFiniteSet(Those(x)) /\ Cardinality(Those(x)) <= Cardinality(S \ {x})
      BY <2>1, <2>2, FS_Subset
    <3> QED
      BY <2>2, <3>1
  <2>4. Cardinality(Those(x)) \in Nat
    BY <2>3, FS_CardinalityType
  <2> QED
    BY <1>1, <2>3, <2>4 DEF Ahead
<1>3. \A x \in S : Ahead(S, R, x) \in Int
  <2> SUFFICES ASSUME NEW x \in S PROVE Ahead(S, R, x) \in Int
    OBVIOUS
  <2>1. IsFiniteSet(Those(x))
    BY <1>2
  <2> QED
    BY <2>1, FS_CardinalityType DEF Ahead
<1>4. ASSUME NEW x \in S, NEW y \in S, <<x, y>> \in R
      PROVE  Ahead(S, R, x) < Ahead(S, R, y)
  <2>1. Those(x) \subseteq Those(y) /\ x \in Those(y) /\ x \notin Those(x)
    BY <1>4 DEF TotalOn
  <2>2. /\ Cardinality(Those(x)) <= Cardinality(Those(y))
        /\ Cardinality(Those(x)) # Cardinality(Those(y))
    BY <1>2, <2>1, FS_Subset
  <2>3. Ahead(S, R, x) = Cardinality(Those(x)) /\ Ahead(S, R, y) = Cardinality(Those(y))
    BY DEF Ahead
  <2>4. Ahead(S, R, x) \in Int /\ Ahead(S, R, y) \in Int
    BY <1>3
  <2> QED
    BY <2>2, <2>3, <2>4
<1>5. ASSUME NEW x \in S, NEW y \in S, Ahead(S, R, x) < Ahead(S, R, y)
      PROVE  <<x, y>> \in R
  <2>1. Ahead(S, R, x) \in Int /\ Ahead(S, R, y) \in Int
    BY <1>3
  <2>2. x # y /\ ~(Ahead(S, R, y) < Ahead(S, R, x))
    BY <1>5, <2>1
  <2> QED
    BY <1>4, <2>2 DEF TotalOn
<1> QED
  BY <1>1, <1>2, <1>4, <1>5

\* Each element is at the place after as many others as come before it.
LEMMA ArrangedIs ==
  ASSUME NEW S, NEW R, IsFiniteSet(S), TotalOn(S, R)
  PROVE  LET n == Cardinality(S)
             o == Arranged(S, R)
         IN  /\ n \in Nat /\ o \in [1 .. n -> S] /\ DOMAIN o = 1 .. n
             /\ \A k \in 1 .. n : Ahead(S, R, o[k]) = k - 1
             /\ \A x \in S : Ahead(S, R, x) + 1 \in 1 .. n /\ o[Ahead(S, R, x) + 1] = x
             /\ \A j, k \in 1 .. n : j < k <=> <<o[j], o[k]>> \in R
<1> DEFINE o == Arranged(S, R)
           f == [x \in S |-> Ahead(S, R, x)]
<1>1. PICK n \in Nat : n = Cardinality(S)
  BY AheadGrows
<1>2. \A x \in S : Ahead(S, R, x) \in 0 .. n - 1
  BY <1>1, AheadGrows
<1>3. \A x, y \in S : Ahead(S, R, x) = Ahead(S, R, y) => x = y
  <2> SUFFICES ASSUME NEW x \in S, NEW y \in S, Ahead(S, R, x) = Ahead(S, R, y) PROVE x = y
    OBVIOUS
  <2>1. Ahead(S, R, x) \in Int
    BY <1>2
  <2>2. ~(Ahead(S, R, x) < Ahead(S, R, y)) /\ ~(Ahead(S, R, y) < Ahead(S, R, x))
    BY <2>1
  <2> QED
    BY <2>2, AheadGrows DEF TotalOn
<1>4. \A k \in 0 .. n - 1 : \E x \in S : Ahead(S, R, x) = k
  <2>1. f \in Injection(S, 0 .. n - 1)
    BY <1>2, <1>3 DEF Injection, IsInjective
  <2>2. IsFiniteSet(0 .. n - 1) /\ Cardinality(0 .. n - 1) = n
    <3>1. IsFiniteSet(0 .. n - 1) /\ Cardinality(0 .. n - 1) = IF 0 > n - 1 THEN 0 ELSE n - 1 - 0 + 1
      BY FS_Interval
    <3> QED
      BY <3>1
  <2>3. f \in Surjection(S, 0 .. n - 1)
    <3> HIDE DEF f
    <3> QED
      BY <1>1, <2>1, <2>2, FS_Injection
  <2>4. \A k \in 0 .. n - 1 : \E x \in S : f[x] = k
    <3> HIDE DEF f
    <3> QED
      BY <2>3 DEF Surjection
  <2> QED
    BY <2>4
<1>5. ASSUME NEW k \in 1 .. n
      PROVE  o[k] \in S /\ Ahead(S, R, o[k]) = k - 1
  <2>1. o[k] = CHOOSE x \in S : f[x] = k - 1
    BY <1>1 DEF Arranged, Ahead, With
  <2>2. k - 1 \in 0 .. n - 1
    OBVIOUS
  <2>3. \E x \in S : f[x] = k - 1
    BY <1>4, <2>2
  <2> HIDE DEF o
  <2> QED
    BY <2>1, <2>3
<1>6. o \in [1 .. n -> S] /\ DOMAIN o = 1 .. n
  <2>1. o = [k \in 1 .. n |-> o[k]]
    BY <1>1 DEF Arranged
  <2> HIDE DEF o
  <2> QED
    BY <1>5, <2>1
<1> HIDE DEF o
<1>7. ASSUME NEW x \in S
      PROVE  Ahead(S, R, x) + 1 \in 1 .. n /\ o[Ahead(S, R, x) + 1] = x
  <2>1. PICK k \in 1 .. n : k = Ahead(S, R, x) + 1
    BY <1>2
  <2>2. o[k] \in S /\ Ahead(S, R, o[k]) = k - 1 /\ k - 1 = Ahead(S, R, x)
    <3>1. Ahead(S, R, x) \in Int
      BY <1>2
    <3> QED
      BY <1>5, <2>1, <3>1
  <2> QED
    BY <1>3, <2>1, <2>2
<1>8. ASSUME NEW j \in 1 .. n, NEW k \in 1 .. n
      PROVE  j < k <=> <<o[j], o[k]>> \in R
  <2>1. j < k <=> Ahead(S, R, o[j]) < Ahead(S, R, o[k])
    BY <1>5
  <2> QED
    BY <1>5, <2>1, AheadGrows
<1> QED
  BY <1>1, <1>5, <1>6, <1>7, <1>8 DEF o

\* There is one way to list a set in an order.
LEMMA OneArrangement ==
  ASSUME NEW S, NEW R, IsFiniteSet(S), TotalOn(S, R), NEW m \in Nat, NEW f \in [1 .. m -> S],
         \A j, k \in 1 .. m : j < k => <<f[j], f[k]>> \in R,
         \A x \in S : \E k \in 1 .. m : f[k] = x
  PROVE  f = Arranged(S, R) /\ m = Cardinality(S)
<1> DEFINE o == Arranged(S, R)
           n == Cardinality(S)
<1>1. \A j, k \in 1 .. m : j < k <=> <<f[j], f[k]>> \in R
  <2> SUFFICES ASSUME NEW j \in 1 .. m, NEW k \in 1 .. m, <<f[j], f[k]>> \in R PROVE j < k
    OBVIOUS
  <2>1. f[j] \in S /\ f[k] \in S /\ j \in Int /\ k \in Int
    OBVIOUS
  <2>2. j # k
    BY <2>1 DEF TotalOn
  <2>3. ~(k < j)
    <3>1. <<f[k], f[j]>> \in R => <<f[j], f[j]>> \in R
      BY <2>1 DEF TotalOn
    <3> QED
      BY <2>1, <3>1 DEF TotalOn
  <2> QED
    BY <2>1, <2>2, <2>3
<1>2. ASSUME NEW k \in 1 .. m PROVE Ahead(S, R, f[k]) = k - 1
  <2> DEFINE Those == {y \in S : <<y, f[k]>> \in R}
             g == [j \in 1 .. k - 1 |-> f[j]]
  <2>1. k - 1 \in Nat /\ \A j \in 1 .. k - 1 : j \in 1 .. m /\ j < k
    OBVIOUS
  <2>2. g \in [1 .. k - 1 -> Those]
    BY <2>1
  <2>3. \A i, j \in 1 .. k - 1 : g[i] = g[j] => i = j
    <3> SUFFICES ASSUME NEW i \in 1 .. k - 1, NEW j \in 1 .. k - 1, f[i] = f[j] PROVE i = j
      OBVIOUS
    <3>1. i \in 1 .. m /\ j \in 1 .. m /\ f[i] \in S /\ <<f[i], f[i]>> \notin R
      BY <2>1 DEF TotalOn
    <3>2. ~(i < j) /\ ~(j < i)
      BY <3>1
    <3> QED
      BY <3>1, <3>2
  <2>4. \A y \in Those : \E j \in 1 .. k - 1 : g[j] = y
    <3> SUFFICES ASSUME NEW y \in Those PROVE \E j \in 1 .. k - 1 : f[j] = y
      OBVIOUS
    <3>1. PICK j \in 1 .. m : f[j] = y
      OBVIOUS
    <3>2. j < k
      BY <1>1, <3>1
    <3>3. j \in 1 .. k - 1
      BY <3>2
    <3> QED
      BY <3>1, <3>3
  <2>5. ExistsBijection(1 .. k - 1, Those)
    <3> HIDE DEF g, Those
    <3> QED
      BY <2>2, <2>3, <2>4 DEF ExistsBijection, Bijection, Injection, Surjection, IsInjective
  <2>6. Cardinality(Those) = k - 1
    <3> HIDE DEF Those
    <3> QED
      BY <2>1, <2>5, CountedTo, FS_Bijection
  <2> QED
    BY <2>6 DEF Ahead
<1>3. /\ n \in Nat /\ DOMAIN o = 1 .. n
      /\ \A x \in S : Ahead(S, R, x) + 1 \in 1 .. n /\ o[Ahead(S, R, x) + 1] = x
      /\ \A k \in 1 .. n : o[k] \in S /\ Ahead(S, R, o[k]) = k - 1
  <2>1. o \in [1 .. n -> S]
    BY ArrangedIs
  <2> QED
    BY <2>1, ArrangedIs
<1> HIDE DEF o, n
<1>4. ASSUME NEW k \in 1 .. m PROVE k \in 1 .. n /\ o[k] = f[k]
  <2>1. f[k] \in S /\ Ahead(S, R, f[k]) + 1 = k
    BY <1>2
  <2> QED
    BY <1>3, <2>1
<1>5. ASSUME NEW k \in 1 .. n PROVE k \in 1 .. m
  <2>1. PICK j \in 1 .. m : f[j] = o[k]
    BY <1>3
  <2>2. j - 1 = k - 1
    BY <1>2, <1>3, <2>1
  <2> QED
    BY <2>2
<1>6. m = n
  <2>1. m <= n
    <3>1. m >= 1 => m \in 1 .. m
      OBVIOUS
    <3> QED
      BY <1>3, <1>4, <3>1
  <2>2. n <= m
    <3>1. PICK l \in Nat : l = n
      BY <1>3
    <3>2. l >= 1 => l \in 1 .. n
      BY <3>1
    <3>3. l >= 1 => l \in 1 .. m
      BY <1>5, <3>2
    <3> QED
      BY <3>1, <3>3
  <2> QED
    BY <1>3, <2>1, <2>2
<1>7. f = [k \in 1 .. m |-> f[k]] /\ o = [k \in 1 .. n |-> o[k]]
  <2>1. o = [k \in 1 .. n |-> o[k]]
    BY <1>3 DEF o, Arranged, n
  <2> QED
    BY <2>1
<1>8. f = o
  BY <1>4, <1>6, <1>7
<1> QED
  BY <1>6, <1>8 DEF o, n

\* A later one of the selected positions is a later position.
LEMMA NthGrows ==
  ASSUME NEW len \in Nat, NEW S \in SUBSET (1 .. len)
  PROVE  \A j, k \in 1 .. Cardinality(S) : j < k <=> Nth(S, j) < Nth(S, k)
<1>1. \A k \in 1 .. Cardinality(S) : Nth(S, k) \in S /\ PlaceIn(S, Nth(S, k)) = k
  BY RankReached
<1>2. ASSUME NEW j \in 1 .. Cardinality(S), NEW k \in 1 .. Cardinality(S), Nth(S, j) < Nth(S, k)
      PROVE  j < k
  BY <1>1, <1>2, RankGrows
<1>3. ASSUME NEW j \in 1 .. Cardinality(S), NEW k \in 1 .. Cardinality(S), j < k
      PROVE  Nth(S, j) < Nth(S, k)
  <2>1. j \in Int /\ k \in Int /\ Nth(S, j) \in Int /\ Nth(S, k) \in Int
    <3>1. PICK n \in Nat : n = Cardinality(S)
      BY RankGrows
    <3>2. j \in 1 .. n /\ k \in 1 .. n
      BY <3>1
    <3>3. Nth(S, j) \in 1 .. len /\ Nth(S, k) \in 1 .. len
      BY <1>1
    <3> QED
      BY <3>2, <3>3
  <2>2. Nth(S, j) # Nth(S, k)
    <3>1. j # k
      BY <1>3, <2>1
    <3> QED
      BY <1>1, <3>1
  <2>3. ~(Nth(S, k) < Nth(S, j))
    BY <1>2, <1>3, <2>1
  <2> QED
    BY <2>1, <2>2, <2>3
<1> QED
  BY <1>2, <1>3

\* A part of an ordered set is listed as it is in the whole.
LEMMA ArrangedPart ==
  ASSUME NEW S, NEW R, IsFiniteSet(S), TotalOn(S, R), NEW D \in SUBSET S
  PROVE  LET o == Arranged(S, R)
             E == {k \in 1 .. Cardinality(S) : o[k] \in D}
         IN  /\ E \in SUBSET (1 .. Cardinality(S)) /\ Cardinality(S) \in Nat
             /\ Cardinality(E) = Cardinality(D)
             /\ AtPositions(o, E) = Arranged(D, R)
<1> DEFINE o == Arranged(S, R)
           E == {k \in 1 .. Cardinality(S) : o[k] \in D}
           f == AtPositions(o, E)
<1>1. PICK n \in Nat : n = Cardinality(S)
  BY AheadGrows
<1>2. /\ \A k \in 1 .. n : o[k] \in S
      /\ \A x \in S : \E k \in 1 .. n : o[k] = x
      /\ \A j, k \in 1 .. n : j < k <=> <<o[j], o[k]>> \in R
  <2> HIDE DEF o
  <2>1. o \in [1 .. n -> S]
    BY <1>1, ArrangedIs DEF o
  <2>2. \A x \in S : Ahead(S, R, x) + 1 \in 1 .. n /\ o[Ahead(S, R, x) + 1] = x
    BY <1>1, ArrangedIs DEF o
  <2>3. \A j, k \in 1 .. n : j < k <=> <<o[j], o[k]>> \in R
    BY <1>1, ArrangedIs DEF o
  <2> QED
    BY <2>1, <2>2, <2>3
<1>3. E \in SUBSET (1 .. n) /\ \A k \in 1 .. n : k \in E <=> o[k] \in D
  BY <1>1
<1> HIDE DEF E, o
<1>4. /\ DOMAIN f = 1 .. Cardinality(E) /\ Cardinality(E) \in Nat
      /\ \A k \in 1 .. Cardinality(E) : Nth(E, k) \in E /\ f[k] = o[Nth(E, k)]
      /\ \A i \in E : \E k \in 1 .. Cardinality(E) : Nth(E, k) = i
  BY <1>1, <1>3, Positions
<1>5. f \in [1 .. Cardinality(E) -> D]
  <2>1. f = [k \in 1 .. Cardinality(E) |-> f[k]]
    BY DEF AtPositions
  <2> HIDE DEF f
  <2>2. \A k \in 1 .. Cardinality(E) : f[k] \in D
    BY <1>3, <1>4
  <2> QED
    BY <2>1, <2>2
<1> HIDE DEF f
<1>6. IsFiniteSet(D) /\ TotalOn(D, R)
  BY FS_Subset DEF TotalOn
<1>7. ASSUME NEW j \in 1 .. Cardinality(E), NEW k \in 1 .. Cardinality(E), j < k
      PROVE  <<f[j], f[k]>> \in R
  <2>1. Nth(E, j) < Nth(E, k)
    BY <1>3, <1>7, NthGrows
  <2>2. Nth(E, j) \in 1 .. n /\ Nth(E, k) \in 1 .. n
    BY <1>3, <1>4
  <2> QED
    BY <1>2, <1>4, <2>1, <2>2
<1>8. ASSUME NEW x \in D PROVE \E k \in 1 .. Cardinality(E) : f[k] = x
  <2>1. PICK i \in 1 .. n : o[i] = x
    BY <1>2
  <2>2. PICK k \in 1 .. Cardinality(E) : Nth(E, k) = i
    BY <1>3, <1>4, <2>1
  <2> QED
    BY <1>4, <2>1, <2>2
<1>9. f = Arranged(D, R) /\ Cardinality(E) = Cardinality(D)
  BY <1>4, <1>5, <1>6, <1>7, <1>8, OneArrangement
<1> QED
  BY <1>1, <1>3, <1>9 DEF f, E, o

\* Sets that correspond in their orders are listed alike.
LEMMA ArrangedImage ==
  ASSUME NEW S, NEW R, IsFiniteSet(S), TotalOn(S, R), NEW T, NEW Q, NEW h \in [T -> S],
         \A x \in S : \E t \in T : h[t] = x,
         \A t, u \in T : h[t] = h[u] => t = u,
         \A t, u \in T : <<t, u>> \in Q <=> <<h[t], h[u]>> \in R
  PROVE  /\ IsFiniteSet(T) /\ TotalOn(T, Q) /\ Cardinality(T) = Cardinality(S)
         /\ Cardinality(S) \in Nat
         /\ \A k \in 1 .. Cardinality(S) :
              Arranged(T, Q)[k] \in T /\ h[Arranged(T, Q)[k]] = Arranged(S, R)[k]
<1>1. IsFiniteSet(T)
  <2>1. h \in Injection(T, S)
    BY DEF Injection, IsInjective
  <2> QED
    BY <2>1, FS_Injection
<1>2. TotalOn(T, Q)
  <2>1. \A t \in T : h[t] \in S
    OBVIOUS
  <2>2. \A t \in T : <<t, t>> \notin Q
    BY <2>1 DEF TotalOn
  <2>3. \A t, u \in T : t # u => <<t, u>> \in Q \/ <<u, t>> \in Q
    BY <2>1 DEF TotalOn
  <2>4. \A t, u, v \in T : <<t, u>> \in Q /\ <<u, v>> \in Q => <<t, v>> \in Q
    BY <2>1 DEF TotalOn
  <2> QED
    BY <2>2, <2>3, <2>4 DEF TotalOn
<1> DEFINE o == Arranged(T, Q)
<1>3. PICK m \in Nat : m = Cardinality(T)
  BY <1>1, FS_CardinalityType
<1>4. /\ \A k \in 1 .. m : o[k] \in T
      /\ \A t \in T : \E k \in 1 .. m : o[k] = t
      /\ \A j, k \in 1 .. m : j < k <=> <<o[j], o[k]>> \in Q
  <2> HIDE DEF o
  <2>1. o \in [1 .. m -> T]
    BY <1>1, <1>2, <1>3, ArrangedIs DEF o
  <2>2. \A t \in T : Ahead(T, Q, t) + 1 \in 1 .. m /\ o[Ahead(T, Q, t) + 1] = t
    BY <1>1, <1>2, <1>3, ArrangedIs DEF o
  <2>3. \A j, k \in 1 .. m : j < k <=> <<o[j], o[k]>> \in Q
    BY <1>1, <1>2, <1>3, ArrangedIs DEF o
  <2> QED
    BY <2>1, <2>2, <2>3
<1> HIDE DEF o
<1> DEFINE f == [k \in 1 .. m |-> h[o[k]]]
<1>5. f \in [1 .. m -> S] /\ \A k \in 1 .. m : f[k] = h[o[k]]
  BY <1>4
<1> HIDE DEF f
<1>6. ASSUME NEW j \in 1 .. m, NEW k \in 1 .. m, j < k
      PROVE  <<f[j], f[k]>> \in R
  <2>1. o[j] \in T /\ o[k] \in T /\ <<o[j], o[k]>> \in Q
    BY <1>4, <1>6
  <2>2. <<h[o[j]], h[o[k]]>> \in R
    BY <2>1
  <2> QED
    BY <1>5, <2>2
<1>7. \A x \in S : \E k \in 1 .. m : f[k] = x
  BY <1>4, <1>5
<1>8. f = Arranged(S, R) /\ m = Cardinality(S)
  BY <1>3, <1>5, <1>6, <1>7, OneArrangement
<1> QED
  BY <1>1, <1>2, <1>3, <1>4, <1>5, <1>8 DEF o
------------------------------------------------------------------------------
(* Sums.  A set that has 0 and with each number below n the next one has   *)
(* them all: were there others, there would be a least one.                *)

LEMMA UpTo ==
  ASSUME NEW n \in Nat, NEW S, 0 \in S, \A k \in 1 .. n : k - 1 \in S => k \in S
  PROVE  0 .. n \subseteq S
<1> DEFINE others == {k \in 0 .. n : k \notin S}
<1> SUFFICES ASSUME others # {} PROVE FALSE
  OBVIOUS
<1>1. others \in SUBSET Nat
  OBVIOUS
<1>2. PICK k \in others : \A m \in others : k <= m
  <2> HIDE DEF others
  <2> QED
    BY <1>1, LeastNumber
<1>3. k \in 1 .. n /\ k - 1 \in 0 .. n
  BY <1>2
<1>4. k - 1 \in S
  BY <1>2, <1>3
<1> QED
  BY <1>2, <1>3, <1>4

SumsTo(s, sum, n) == sum = [k \in 0 .. n |-> IF k = 0 THEN 0 ELSE sum[k - 1] + s[k]]

LEMMA SumsExist ==
  ASSUME NEW s \in Seq(Int)
  PROVE  \E sum \in [0 .. Len(s) -> Int] : SumsTo(s, sum, Len(s))
<1> DEFINE S == {n \in 0 .. Len(s) : \E sum \in [0 .. n -> Int] : SumsTo(s, sum, n)}
<1>1. Len(s) \in Nat /\ \A k \in 1 .. Len(s) : s[k] \in Int
  OBVIOUS
<1>2. 0 \in S
  <2>1. PICK sum : sum = [k \in 0 .. 0 |-> 0]
    OBVIOUS
  <2>2. sum \in [0 .. 0 -> Int] /\ SumsTo(s, sum, 0)
    BY <2>1 DEF SumsTo
  <2> QED
    BY <1>1, <2>2
<1>3. ASSUME NEW n \in 1 .. Len(s), n - 1 \in S PROVE n \in S
  <2>1. PICK sum \in [0 .. n - 1 -> Int] : SumsTo(s, sum, n - 1)
    BY <1>3
  <2>2. PICK new : new = [k \in 0 .. n |-> IF k = n THEN sum[n - 1] + s[n] ELSE sum[k]]
    OBVIOUS
  <2>3. new \in [0 .. n -> Int]
    BY <1>1, <2>1, <2>2
  <2>4. \A k \in 0 .. n : new[k] = IF k = 0 THEN 0 ELSE new[k - 1] + s[k]
    BY <1>1, <2>1, <2>2 DEF SumsTo
  <2>5. SumsTo(s, new, n)
    BY <2>3, <2>4 DEF SumsTo
  <2> QED
    BY <1>3, <2>3, <2>5
<1> HIDE DEF S
<1>4. 0 .. Len(s) \subseteq S
  BY <1>1, <1>2, <1>3, UpTo
<1>5. Len(s) \in S
  BY <1>1, <1>4
<1> QED
  BY <1>5 DEF S

\* A sum is reached one number at a time.
LEMMA SumIs ==
  ASSUME NEW s \in Seq(Int)
  PROVE  \E sum \in [0 .. Len(s) -> Int] :
           /\ SumOf(s) = sum[Len(s)]
           /\ sum[0] = 0 /\ \A k \in 1 .. Len(s) : sum[k] = sum[k - 1] + s[k]
<1>1. PICK sum : sum = CHOOSE f : SumsTo(s, f, Len(s))
  OBVIOUS
<1>2. SumsTo(s, sum, Len(s))
  BY <1>1, SumsExist
<1>3. SumOf(s) = sum[Len(s)]
  BY <1>1 DEF SumOf, SumsTo
<1>4. /\ Len(s) \in Nat
      /\ sum[0] = 0 /\ \A k \in 1 .. Len(s) : sum[k] = sum[k - 1] + s[k]
  <2>1. Len(s) \in Nat
    OBVIOUS
  <2>2. PICK n \in Nat : n = Len(s) /\ sum = [k \in 0 .. n |-> IF k = 0 THEN 0 ELSE sum[k - 1] + s[k]]
    BY <1>2, <2>1 DEF SumsTo
  <2>3. \A k \in 0 .. n : sum[k] = IF k = 0 THEN 0 ELSE sum[k - 1] + s[k]
    BY <2>2
  <2>4. \A k \in 1 .. n : k \in 0 .. n /\ k # 0
    OBVIOUS
  <2> QED
    BY <2>1, <2>2, <2>3, <2>4
<1>5. sum \in [0 .. Len(s) -> Int]
  <2> DEFINE S == {k \in 0 .. Len(s) : sum[k] \in Int}
  <2>1. 0 \in S /\ \A k \in 1 .. Len(s) : k - 1 \in S => k \in S
    BY <1>4
  <2> HIDE DEF S
  <2>2. 0 .. Len(s) \subseteq S
    BY <1>4, <2>1, UpTo
  <2>3. \A k \in 0 .. Len(s) : sum[k] \in Int
    BY <2>2 DEF S
  <2> QED
    BY <1>2, <2>3 DEF SumsTo
<1> QED
  BY <1>3, <1>4, <1>5

LEMMA SumReached ==
  ASSUME NEW s \in Seq(Int), NEW sum, sum[0] = 0, \A k \in 1 .. Len(s) : sum[k] = sum[k - 1] + s[k]
  PROVE  SumOf(s) = sum[Len(s)]
<1>1. PICK own \in [0 .. Len(s) -> Int] :
        /\ SumOf(s) = own[Len(s)]
        /\ own[0] = 0 /\ \A k \in 1 .. Len(s) : own[k] = own[k - 1] + s[k]
  BY SumIs
<1> DEFINE S == {k \in 0 .. Len(s) : own[k] = sum[k]}
<1>2. Len(s) \in Nat /\ 0 \in S /\ \A k \in 1 .. Len(s) : k - 1 \in S => k \in S
  BY <1>1
<1> HIDE DEF S
<1>3. 0 .. Len(s) \subseteq S
  BY <1>2, UpTo
<1>4. Len(s) \in S
  BY <1>2, <1>3
<1> QED
  BY <1>1, <1>4 DEF S

LEMMA SumAdds ==
  ASSUME NEW n \in Nat, NEW a \in [1 .. n -> Int], NEW b \in [1 .. n -> Int], NEW c \in [1 .. n -> Int],
         \A k \in 1 .. n : c[k] = a[k] + b[k]
  PROVE  SumOf(c) = SumOf(a) + SumOf(b) /\ SumOf(a) \in Int /\ SumOf(b) \in Int
<1>1. a \in Seq(Int) /\ b \in Seq(Int) /\ c \in Seq(Int) /\ Len(a) = n /\ Len(b) = n /\ Len(c) = n
  OBVIOUS
<1>2. PICK x \in [0 .. n -> Int] :
        SumOf(a) = x[n] /\ x[0] = 0 /\ \A k \in 1 .. n : x[k] = x[k - 1] + a[k]
  <2>1. \E w \in [0 .. Len(a) -> Int] :
          SumOf(a) = w[Len(a)] /\ w[0] = 0 /\ \A k \in 1 .. Len(a) : w[k] = w[k - 1] + a[k]
    BY <1>1, SumIs
  <2> QED
    BY <1>1, <2>1
<1>3. PICK y \in [0 .. n -> Int] :
        SumOf(b) = y[n] /\ y[0] = 0 /\ \A k \in 1 .. n : y[k] = y[k - 1] + b[k]
  <2>1. \E w \in [0 .. Len(b) -> Int] :
          SumOf(b) = w[Len(b)] /\ w[0] = 0 /\ \A k \in 1 .. Len(b) : w[k] = w[k - 1] + b[k]
    BY <1>1, SumIs
  <2> QED
    BY <1>1, <2>1
<1>4. PICK z : z = [k \in 0 .. n |-> x[k] + y[k]]
  OBVIOUS
<1>5. z[0] = 0 /\ \A k \in 1 .. n : z[k] = z[k - 1] + c[k]
  <2>1. z[0] = 0
    BY <1>2, <1>3, <1>4
  <2>2. ASSUME NEW k \in 1 .. n PROVE z[k] = z[k - 1] + c[k]
    <3>1. k \in 0 .. n /\ k - 1 \in 0 .. n
      OBVIOUS
    <3>2. z[k] = x[k] + y[k] /\ z[k - 1] = x[k - 1] + y[k - 1]
      BY <1>4, <3>1
    <3>3. x[k] = x[k - 1] + a[k] /\ y[k] = y[k - 1] + b[k] /\ c[k] = a[k] + b[k]
      BY <1>2, <1>3
    <3>4. PICK p, q, u, v \in Int : p = x[k - 1] /\ q = y[k - 1] /\ u = a[k] /\ v = b[k]
      BY <3>1
    <3>5. z[k] = (p + u) + (q + v) /\ z[k - 1] = p + q /\ c[k] = u + v
      BY <3>2, <3>3, <3>4
    <3>6. (p + u) + (q + v) = (p + q) + (u + v)
      OBVIOUS
    <3> QED
      BY <3>5, <3>6, Zenon
  <2> QED
    BY <2>1, <2>2
<1>6. SumOf(c) = z[n]
  BY <1>1, <1>5, SumReached
<1> QED
  BY <1>2, <1>3, <1>4, <1>6

LEMMA SumOfSame ==
  ASSUME NEW n \in Nat, NEW x \in Int, NEW s \in [1 .. n -> Int], \A k \in 1 .. n : s[k] = x
  PROVE  SumOf(s) = n * x
<1>1. PICK sum : sum = [k \in 0 .. n |-> k * x]
  OBVIOUS
<1>2. s \in Seq(Int) /\ Len(s) = n
  OBVIOUS
<1>3. sum[0] = 0 /\ \A k \in 1 .. n : sum[k] = sum[k - 1] + s[k]
  <2>1. \A k \in 1 .. n : k \in Int /\ k * x = (k - 1) * x + x
    OBVIOUS
  <2> QED
    BY <1>1, <2>1
<1> QED
  BY <1>1, <1>2, <1>3, SumReached

LEMMA SumNext ==
  ASSUME NEW n \in Nat, NEW s \in [1 .. n -> Int]
  PROVE  /\ SumOf(s) \in Int /\ (n = 0 => SumOf(s) = 0)
         /\ n > 0 => SumOf(s) = SumOf([k \in 1 .. n - 1 |-> s[k]]) + s[n]
<1>1. s \in Seq(Int) /\ Len(s) = n
  OBVIOUS
<1>2. PICK sum \in [0 .. n -> Int] :
        SumOf(s) = sum[n] /\ sum[0] = 0 /\ \A k \in 1 .. n : sum[k] = sum[k - 1] + s[k]
  BY <1>1, SumIs
<1>3. ASSUME n > 0
      PROVE  SumOf([k \in 1 .. n - 1 |-> s[k]]) = sum[n - 1]
  <2>1. PICK t : t = [k \in 1 .. n - 1 |-> s[k]]
    OBVIOUS
  <2>2. t \in Seq(Int) /\ Len(t) = n - 1 /\ \A k \in 1 .. n - 1 : t[k] = s[k]
    BY <1>3, <2>1
  <2>3. \A k \in 1 .. Len(t) : sum[k] = sum[k - 1] + t[k]
    BY <1>2, <1>3, <2>2
  <2>4. SumOf(t) = sum[Len(t)]
    BY <1>2, <2>2, <2>3, SumReached
  <2> QED
    BY <2>1, <2>2, <2>4
<1> QED
  BY <1>2, <1>3

LEMMA SumSwap ==
  ASSUME NEW m \in Nat, NEW n \in Nat, NEW a \in [1 .. m -> [1 .. n -> Int]]
  PROVE  SumOf([i \in 1 .. m |-> SumOf(a[i])])
           = SumOf([j \in 1 .. n |-> SumOf([i \in 1 .. m |-> a[i][j]])])
<1> DEFINE Rows(k)   == [i \in 1 .. k |-> SumOf(a[i])]
           Col(k, j) == [i \in 1 .. k |-> a[i][j]]
           Cols(k)   == [j \in 1 .. n |-> SumOf(Col(k, j))]
           S == {k \in 0 .. m : SumOf(Rows(k)) = SumOf(Cols(k))}
<1>1. \A k \in 0 .. m : k \in Nat /\ \A i \in 1 .. k : i \in 1 .. m
  OBVIOUS
<1>2. \A i \in 1 .. m : SumOf(a[i]) \in Int
  BY SumNext
<1>3. ASSUME NEW k \in 0 .. m
      PROVE  /\ Rows(k) \in [1 .. k -> Int] /\ Cols(k) \in [1 .. n -> Int]
             /\ \A j \in 1 .. n : Col(k, j) \in [1 .. k -> Int]
  <2>1. \A j \in 1 .. n : Col(k, j) \in [1 .. k -> Int]
    BY <1>1
  <2>2. \A j \in 1 .. n : SumOf(Col(k, j)) \in Int
    <3> SUFFICES ASSUME NEW j \in 1 .. n PROVE SumOf(Col(k, j)) \in Int
      OBVIOUS
    <3>1. PICK c : c = Col(k, j)
      OBVIOUS
    <3>2. c \in [1 .. k -> Int] /\ k \in Nat
      BY <1>1, <2>1, <3>1
    <3>3. SumOf(c) \in Int
      BY <3>2, SumNext
    <3> QED
      BY <3>1, <3>3
  <2> QED
    BY <1>1, <1>2, <2>1, <2>2
<1>4. 0 \in S
  <2>1. PICK r, c : r = Rows(0) /\ c = Cols(0)
    OBVIOUS
  <2>2. \A j \in 1 .. n : SumOf(Col(0, j)) = 0
    <3> SUFFICES ASSUME NEW j \in 1 .. n PROVE SumOf(Col(0, j)) = 0
      OBVIOUS
    <3>1. PICK e : e = Col(0, j)
      OBVIOUS
    <3>2. e \in [1 .. 0 -> Int] /\ 0 \in Nat
      BY <1>3, <3>1
    <3>3. SumOf(e) = 0
      BY <3>2, SumNext
    <3> QED
      BY <3>1, <3>3
  <2>3. r \in [1 .. 0 -> Int] /\ c \in [1 .. n -> Int]
    <3>1. 0 \in 0 .. m
      OBVIOUS
    <3> QED
      BY <1>3, <2>1, <3>1
  <2>4. SumOf(r) = 0 /\ \A j \in 1 .. n : c[j] = 0
    <3>1. \A j \in 1 .. n : c[j] = 0
      BY <2>1, <2>2
    <3>2. 0 \in Nat
      OBVIOUS
    <3> QED
      BY <2>3, <3>1, <3>2, SumNext
  <2>5. SumOf(c) = n * 0
    BY <2>3, <2>4, SumOfSame
  <2> QED
    BY <2>1, <2>4, <2>5
<1>5. ASSUME NEW k \in 1 .. m, k - 1 \in S PROVE k \in S
  <2>0. k \in 0 .. m /\ k - 1 \in 0 .. m /\ k \in Nat /\ k > 0 /\ k \in 1 .. m
    OBVIOUS
  <2>1. PICK r, c, q, d : r = Rows(k) /\ c = Cols(k) /\ q = Rows(k - 1) /\ d = Cols(k - 1)
    OBVIOUS
  <2>2. /\ r \in [1 .. k -> Int] /\ q \in [1 .. k - 1 -> Int]
        /\ c \in [1 .. n -> Int] /\ d \in [1 .. n -> Int]
    BY <1>3, <2>0, <2>1
  <2>3. q = [i \in 1 .. k - 1 |-> r[i]] /\ r[k] = SumOf(a[k])
    BY <2>0, <2>1
  <2>4. SumOf(r) = SumOf(q) + SumOf(a[k])
    <3>1. SumOf(r) = SumOf([i \in 1 .. k - 1 |-> r[i]]) + r[k]
      BY <2>0, <2>2, SumNext
    <3> QED
      BY <2>3, <3>1
  <2>5. \A j \in 1 .. n : c[j] = d[j] + a[k][j]
    <3> SUFFICES ASSUME NEW j \in 1 .. n PROVE c[j] = d[j] + a[k][j]
      OBVIOUS
    <3>1. PICK e, f : e = Col(k, j) /\ f = Col(k - 1, j)
      OBVIOUS
    <3>2. e \in [1 .. k -> Int] /\ f = [i \in 1 .. k - 1 |-> e[i]] /\ e[k] = a[k][j]
      BY <1>3, <2>0, <3>1
    <3>3. SumOf(e) = SumOf([i \in 1 .. k - 1 |-> e[i]]) + e[k]
      BY <2>0, <3>2, SumNext
    <3>4. c[j] = SumOf(e) /\ d[j] = SumOf(f)
      BY <2>1, <3>1
    <3> QED
      BY <3>2, <3>3, <3>4
  <2>6. SumOf(c) = SumOf(d) + SumOf(a[k])
    <3>1. a[k] \in [1 .. n -> Int]
      BY <2>0
    <3> QED
      BY <2>2, <2>5, <3>1, SumAdds
  <2>7. SumOf(q) = SumOf(d)
    BY <1>5, <2>1
  <2> QED
    BY <2>0, <2>1, <2>4, <2>6, <2>7
<1> HIDE DEF S
<1>6. 0 .. m \subseteq S
  BY <1>4, <1>5, UpTo
<1>7. m \in S
  BY <1>6
<1> QED
  BY <1>7 DEF S

\* Counting is adding up ones.
LEMMA CountIsSum ==
  ASSUME NEW n \in Nat, NEW E \in SUBSET (1 .. n)
  PROVE  Cardinality(E) = SumOf([k \in 1 .. n |-> IF k \in E THEN 1 ELSE 0])
<1>1. PICK s : s = [k \in 1 .. n |-> IF k \in E THEN 1 ELSE 0]
  OBVIOUS
<1>2. s \in Seq(Int) /\ Len(s) = n
  BY <1>1
<1>3. PICK sum : sum = [k \in 0 .. n |-> Cardinality({i \in E : i <= k})]
  OBVIOUS
<1>4. sum[0] = 0
  <2>1. {i \in E : i <= 0} = {}
    <3>1. \A i \in E : i \in 1 .. n
      OBVIOUS
    <3>2. \A i \in E : ~(i <= 0)
      BY <3>1
    <3> QED
      BY <3>2
  <2> QED
    BY <1>3, <2>1, FS_EmptySet
<1>5. ASSUME NEW k \in 1 .. n
      PROVE  sum[k] = sum[k - 1] + s[k]
  <2> DEFINE Small(j) == {i \in E : i <= j}
  <2>1. IsFiniteSet(E) /\ k - 1 \in 0 .. n /\ k \in 0 .. n
    BY RankGrows
  <2>2. IsFiniteSet(Small(k - 1)) /\ Cardinality(Small(k - 1)) \in Nat
    BY <2>1, FS_Subset, FS_CardinalityType
  <2>3. Small(k) = IF k \in E THEN Small(k - 1) \cup {k} ELSE Small(k - 1)
    <3>1. \A i \in E : i \in 1 .. n
      OBVIOUS
    <3>2. \A i \in E : i <= k <=> i <= k - 1 \/ i = k
      BY <3>1
    <3> QED
      BY <3>2
  <2>4. k \notin Small(k - 1)
    OBVIOUS
  <2>5. sum[k] = Cardinality(Small(k)) /\ sum[k - 1] = Cardinality(Small(k - 1))
    BY <1>3, <2>1
  <2> HIDE DEF Small
  <2>6. Cardinality(Small(k - 1) \cup {k}) = Cardinality(Small(k - 1)) + 1
    BY <2>2, <2>4, FS_AddElement
  <2> QED
    BY <1>1, <2>2, <2>3, <2>5, <2>6
<1>6. SumOf(s) = sum[n]
  BY <1>2, <1>4, <1>5, SumReached
<1>7. {i \in E : i <= n} = E
  <2>1. \A i \in E : i \in 1 .. n
    OBVIOUS
  <2>2. \A i \in E : i <= n
    BY <2>1
  <2> QED
    BY <2>2
<1> QED
  BY <1>1, <1>3, <1>6, <1>7

\* How often a relation holds, counted row by row or column by column.
Crossing(m, n, R, C) ==
  /\ R \in [1 .. m -> SUBSET (1 .. n)] /\ C \in [1 .. n -> SUBSET (1 .. m)]
  /\ \A i \in 1 .. m, j \in 1 .. n : j \in R[i] <=> i \in C[j]
Counted(n, f, R) == DOMAIN f = 1 .. n /\ f = [i \in 1 .. n |-> f[i]] /\ \A i \in 1 .. n : f[i] = Cardinality(R[i])

LEMMA CountBothWays ==
  ASSUME NEW m \in Nat, NEW n \in Nat, NEW R, NEW C, Crossing(m, n, R, C),
         NEW f, Counted(m, f, R), NEW g, Counted(n, g, C)
  PROVE  SumOf(f) = SumOf(g)
<1>1. PICK a : a = [i \in 1 .. m |-> [j \in 1 .. n |-> IF j \in R[i] THEN 1 ELSE 0]]
  OBVIOUS
<1>2. a \in [1 .. m -> [1 .. n -> Int]]
  BY <1>1
<1>3. \A i \in 1 .. m : f[i] = SumOf(a[i])
  <2> SUFFICES ASSUME NEW i \in 1 .. m PROVE f[i] = SumOf(a[i])
    OBVIOUS
  <2>1. PICK E : E = R[i]
    OBVIOUS
  <2>2. E \in SUBSET (1 .. n) /\ a[i] = [j \in 1 .. n |-> IF j \in E THEN 1 ELSE 0]
    BY <1>1, <2>1 DEF Crossing
  <2> QED
    BY <2>1, <2>2, CountIsSum DEF Counted
<1>4. \A j \in 1 .. n : g[j] = SumOf([i \in 1 .. m |-> a[i][j]])
  <2> SUFFICES ASSUME NEW j \in 1 .. n PROVE g[j] = SumOf([i \in 1 .. m |-> a[i][j]])
    OBVIOUS
  <2>1. PICK E : E = C[j]
    OBVIOUS
  <2>2. E \in SUBSET (1 .. m) /\ [i \in 1 .. m |-> a[i][j]] = [i \in 1 .. m |-> IF i \in E THEN 1 ELSE 0]
    BY <1>1, <2>1 DEF Crossing
  <2> QED
    BY <2>1, <2>2, CountIsSum DEF Counted
<1>5. f = [i \in 1 .. m |-> SumOf(a[i])]
  BY <1>3 DEF Counted
<1>6. g = [j \in 1 .. n |-> SumOf([i \in 1 .. m |-> a[i][j]])]
  BY <1>4 DEF Counted
<1>7. SumOf([i \in 1 .. m |-> SumOf(a[i])]) = SumOf([j \in 1 .. n |-> SumOf([i \in 1 .. m |-> a[i][j]])])
  BY <1>2, SumSwap
<1> QED
  BY <1>5, <1>6, <1>7
=============================================================================
