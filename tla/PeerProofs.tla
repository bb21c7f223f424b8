----------------------------- MODULE PeerProofs -----------------------------
(***************************************************************************)
(* What a visitor is told of a peer benchmark, whatever the companies and  *)
(* their figures, whoever is excluded and however the table is sorted: the *)
(* ranks of a group, the median, the insights, the table and the radar.    *)
(* And what the charts draw, of any data that pass their validators.       *)
(***************************************************************************)
EXTENDS PeerView, Charts, AnswerProofs

------------------------------------------------------------------------------
(* Figures, and how many of a group are below and above one.               *)

\* A ratio: a numerator and a positive denominator.
Figures == Int \X (Nat \ {0})

\* Crosswise products are compared like the quotients: being at most is transitive.

LEMMA NotMore ==
  ASSUME NEW a \in Int, NEW b \in Int, NEW c \in Int,
         NEW p \in Nat \ {0}, NEW q \in Nat \ {0}, NEW r \in Nat \ {0},
         a * q <= b * p, b * r <= c * q
  PROVE  a * r <= c * p
<1>1. \A x, y \in Int, k \in Nat : x <= y => x * k <= y * k
  OBVIOUS
<1>2. \A x, y \in Int, k \in Nat \ {0} : x * k <= y * k => x <= y
  OBVIOUS
<1>3. (a * q) * r <= (b * p) * r /\ (b * r) * p <= (c * q) * p
  BY <1>1
<1>4. (a * q) * r = (a * r) * q /\ (b * p) * r = (b * r) * p /\ (c * q) * p = (c * p) * q
  OBVIOUS
<1>5. a * r \in Int /\ c * p \in Int /\ (a * r) * q \in Int /\ (c * p) * q \in Int /\ (b * r) * p \in Int
  OBVIOUS
<1>6. (a * r) * q <= (c * p) * q
  BY <1>3, <1>4, <1>5
<1> QED
  BY <1>2, <1>5, <1>6

\* Ratios are ordered as numbers are.
LEMMA FiguresOrdered ==
  /\ \A v, w \in Figures : Less(v, w) \in BOOLEAN /\ Same(v, w) \in BOOLEAN
  /\ \A v \in Figures : ~Less(v, v) /\ Same(v, v)
  /\ \A v, w \in Figures : Less(v, w) => ~Less(w, v)
  /\ \A v, w \in Figures : Same(v, w) <=> ~Less(v, w) /\ ~Less(w, v)
  /\ \A v, w, x \in Figures : ~Less(w, v) /\ ~Less(x, w) => ~Less(x, v)
<1>1. \A v \in Figures : v[1] \in Int /\ v[2] \in Nat \ {0}
  BY DEF Figures
<1>2. \A v, w \in Figures : v[1] * w[2] \in Int
  BY <1>1
<1>3. ASSUME NEW v \in Figures, NEW w \in Figures, NEW x \in Figures, ~Less(w, v), ~Less(x, w)
      PROVE  ~Less(x, v)
  <2>1. v[1] * w[2] <= w[1] * v[2] /\ w[1] * x[2] <= x[1] * w[2]
    BY <1>2, <1>3 DEF Less
  <2>2. v[1] * x[2] <= x[1] * v[2]
    BY <1>1, <2>1, NotMore
  <2> QED
    BY <1>2, <2>2 DEF Less
<1>4. ASSUME NEW v \in Figures, NEW w \in Figures
      PROVE  /\ Less(v, w) \in BOOLEAN /\ Same(v, w) \in BOOLEAN /\ ~Less(v, v) /\ Same(v, v)
             /\ Same(v, w) <=> ~Less(v, w) /\ ~Less(w, v)
             /\ Less(v, w) => ~Less(w, v)
  <2>1. PICK x, y, z \in Int : x = v[1] * w[2] /\ y = w[1] * v[2] /\ z = v[1] * v[2]
    BY <1>2
  <2>2. /\ Less(v, w) <=> x < y
        /\ Same(v, w) <=> x = y
        /\ Less(w, v) <=> y < x
        /\ Less(v, v) <=> z < z
        /\ Same(v, v) <=> z = z
    BY <2>1 DEF Less, Same
  <2>3. Less(v, w) \in BOOLEAN /\ Same(v, w) \in BOOLEAN
    BY DEF Less, Same
  <2> QED
    BY <2>2, <2>3
<1>5. \A v, w \in Figures : Less(v, w) \in BOOLEAN /\ Same(v, w) \in BOOLEAN
  BY <1>4
<1>6. \A v \in Figures : ~Less(v, v) /\ Same(v, v)
  BY <1>4
<1>7. \A v, w \in Figures : Same(v, w) <=> ~Less(v, w) /\ ~Less(w, v)
  BY <1>4
<1>8. \A v, w \in Figures : Less(v, w) => ~Less(w, v)
  BY <1>4
<1>9. \A v, w, x \in Figures : ~Less(w, v) /\ ~Less(x, w) => ~Less(x, v)
  BY <1>3
<1> QED
  BY <1>5, <1>6, <1>7, <1>8, <1>9

\* Between a lower and a higher figure the order is kept.
LEMMA LessTransitive ==
  /\ \A v, w, x \in Figures : Less(v, w) /\ ~Less(x, w) => Less(v, x)
  /\ \A v, w, x \in Figures : ~Less(w, v) /\ Less(w, x) => Less(v, x)
<1>1. \A v, w, x \in Figures : ~Less(w, v) /\ ~Less(x, w) => ~Less(x, v)
  BY FiguresOrdered
<1>2. \A v, w, x \in Figures : Less(v, w) /\ ~Less(x, w) => Less(v, x)
  BY <1>1
<1>3. \A v, w, x \in Figures : ~Less(w, v) /\ Less(w, x) => Less(v, x)
  BY <1>1
<1> QED
  BY <1>2, <1>3

\* How many of a group are above a figure.
Above(group, v) == Cardinality({i \in DOMAIN group : Less(v, group[i])})

\* A group falls into what is below a figure, what equals it and what is above.
LEMMA GroupCounted ==
  ASSUME NEW n \in Nat, NEW group \in [1 .. n -> Figures], NEW v \in Figures
  PROVE  /\ Below(group, v) \in Nat /\ Equal(group, v) \in Nat /\ Above(group, v) \in Nat
         /\ Below(group, v) + Equal(group, v) + Above(group, v) = n
         /\ \A i \in 1 .. n : group[i] = v => Equal(group, v) >= 1
<1> DEFINE L == {i \in 1 .. n : Less(group[i], v)}
           E == {i \in 1 .. n : Same(group[i], v)}
           G == {i \in 1 .. n : Less(v, group[i])}
<1>1. /\ IsFiniteSet(1 .. n) /\ Cardinality(1 .. n) = n
      /\ IsFiniteSet(L) /\ IsFiniteSet(E) /\ IsFiniteSet(G) /\ IsFiniteSet(L \cup E)
  <2>1. IsFiniteSet(1 .. n) /\ Cardinality(1 .. n) = n
    BY CountedTo
  <2>2. L \subseteq 1 .. n /\ E \subseteq 1 .. n /\ G \subseteq 1 .. n /\ L \cup E \subseteq 1 .. n
    OBVIOUS
  <2> QED
    BY <2>1, <2>2, FS_Subset
<1>2. /\ Below(group, v) = Cardinality(L) /\ Equal(group, v) = Cardinality(E)
      /\ Above(group, v) = Cardinality(G)
  BY DEF Below, Equal, Above
<1>3. /\ \A i \in 1 .. n : i \in L \/ i \in E \/ i \in G
      /\ \A i \in 1 .. n : i \in L => i \notin E /\ i \notin G
      /\ \A i \in 1 .. n : i \in E => i \notin G
  <2> SUFFICES ASSUME NEW i \in 1 .. n
               PROVE  /\ i \in L \/ i \in E \/ i \in G
                      /\ i \in L => i \notin E /\ i \notin G
                      /\ i \in E => i \notin G
    OBVIOUS
  <2>1. group[i] \in Figures
    OBVIOUS
  <2>2. /\ Less(group[i], v) \/ Same(group[i], v) \/ Less(v, group[i])
        /\ Less(group[i], v) => ~Same(group[i], v) /\ ~Less(v, group[i])
        /\ Same(group[i], v) => ~Less(v, group[i])
    BY <2>1, FiguresOrdered, LessTransitive
  <2> QED
    BY <2>2
<1>4. L \cup E \cup G = 1 .. n /\ L \cap E = {} /\ (L \cup E) \cap G = {}
  BY <1>3
<1>5. \A i \in 1 .. n : group[i] = v => i \in E
  BY FiguresOrdered
<1> HIDE DEF L, E, G
<1>6. /\ Cardinality(L) \in Nat /\ Cardinality(E) \in Nat /\ Cardinality(G) \in Nat
      /\ Cardinality(L \cup E) \in Nat
  BY <1>1, FS_CardinalityType
<1>7. Cardinality(L \cup E) = Cardinality(L) + Cardinality(E) - Cardinality(L \cap E)
  BY <1>1, FS_Union
<1>8. Cardinality((L \cup E) \cup G) = Cardinality(L \cup E) + Cardinality(G) - Cardinality((L \cup E) \cap G)
  BY <1>1, FS_Union
<1>9. Cardinality({}) = 0
  BY FS_EmptySet
<1>10. Cardinality(L) + Cardinality(E) + Cardinality(G) = n
  <2>0. Cardinality(L \cap E) = 0 /\ Cardinality((L \cup E) \cap G) = 0
    BY <1>4, <1>9, Zenon
  <2>1. Cardinality(L \cup E) = Cardinality(L) + Cardinality(E)
    BY <1>6, <1>7, <2>0
  <2>2. Cardinality((L \cup E) \cup G) = Cardinality(L \cup E) + Cardinality(G)
    BY <1>6, <1>8, <2>0
  <2>3. Cardinality((L \cup E) \cup G) = n
    BY <1>1, <1>4
  <2> QED
    BY <1>6, <2>1, <2>2, <2>3
<1>11. ASSUME NEW i \in 1 .. n, group[i] = v PROVE Cardinality(E) >= 1
  <2>1. E # {}
    BY <1>5, <1>11
  <2>2. Cardinality(E) # 0
    BY <1>1, <2>1, FS_EmptySet
  <2> QED
    BY <1>6, <2>2
<1> QED
  BY <1>2, <1>6, <1>10, <1>11

\* The lower of two figures has fewer below it, by those that equal it.
LEMMA GroupGrows ==
  ASSUME NEW n \in Nat, NEW group \in [1 .. n -> Figures], NEW v \in Figures, NEW w \in Figures
  PROVE  /\ Less(v, w) => Below(group, v) + Equal(group, v) <= Below(group, w)
         /\ Same(v, w) => Below(group, v) = Below(group, w) /\ Equal(group, v) = Equal(group, w)
<1> DEFINE L(x) == {i \in 1 .. n : Less(group[i], x)}
           E(x) == {i \in 1 .. n : Same(group[i], x)}
<1>1. \A i \in 1 .. n : group[i] \in Figures
  OBVIOUS
<1>2. Below(group, v) = Cardinality(L(v)) /\ Equal(group, v) = Cardinality(E(v))
  BY DEF Below, Equal
<1>3. Below(group, w) = Cardinality(L(w)) /\ Equal(group, w) = Cardinality(E(w))
  BY DEF Below, Equal
<1>4. CASE Less(v, w)
  <2>1. L(v) \cup E(v) \subseteq L(w)
    BY <1>1, <1>4, FiguresOrdered, LessTransitive
  <2>2. L(v) \cap E(v) = {}
    BY <1>1, FiguresOrdered
  <2>3. IsFiniteSet(L(v)) /\ IsFiniteSet(E(v)) /\ IsFiniteSet(L(w))
    <3>1. IsFiniteSet(1 .. n)
      BY CountedTo
    <3>2. L(v) \subseteq 1 .. n /\ E(v) \subseteq 1 .. n /\ L(w) \subseteq 1 .. n
      OBVIOUS
    <3> QED
      BY <3>1, <3>2, FS_Subset
  <2>4. ~Same(v, w)
    BY <1>4, FiguresOrdered
  <2> HIDE DEF L, E
  <2>5. Cardinality(L(v) \cup E(v)) = Cardinality(L(v)) + Cardinality(E(v)) - Cardinality({})
    BY <2>2, <2>3, FS_Union
  <2>6. Cardinality(L(v) \cup E(v)) <= Cardinality(L(w))
    BY <2>1, <2>3, FS_Subset
  <2>7. Cardinality({}) = 0 /\ Cardinality(L(v)) \in Nat /\ Cardinality(E(v)) \in Nat /\ Cardinality(L(w)) \in Nat
    BY <2>3, FS_EmptySet, FS_CardinalityType
  <2> QED
    BY <1>2, <1>3, <2>4, <2>5, <2>6, <2>7
<1>5. CASE ~Less(v, w)
  <2> SUFFICES ASSUME Same(v, w) PROVE L(v) = L(w) /\ E(v) = E(w)
    <3> HIDE DEF L, E
    <3> QED
      BY <1>2, <1>3, <1>5
  <2>1. ~Less(v, w) /\ ~Less(w, v)
    BY FiguresOrdered
  <2>2. \A x \in Figures : (Less(x, v) <=> Less(x, w)) /\ (Less(v, x) <=> Less(w, x))
    BY <2>1, FiguresOrdered
  <2>3. \A x \in Figures : Same(x, v) <=> Same(x, w)
    BY <2>2, FiguresOrdered
  <2> QED
    BY <1>1, <2>2, <2>3
<1> QED
  BY <1>4, <1>5

\* Twice the place percentile gives a figure: what is below it, ties counting half.
Twice(group, v) == 2 * Below(group, v) + (IF Equal(group, v) > 1 THEN Equal(group, v) - 1 ELSE 0)

\* Which of two figures of a metric is the better one.
Better(higher, v, w) == IF higher THEN Less(w, v) ELSE Less(v, w)

\* A rank is the share of the others that a figure leaves behind.
LEMMA PercentileIs ==
  ASSUME NEW n \in Nat, NEW group \in [1 .. n -> Figures], NEW v \in Figures, NEW higher \in BOOLEAN
  PROVE  /\ Len(group) = n /\ Twice(group, v) \in Int
         /\ n > 1 => Percentile(group, v, higher) =
                       <<IF higher THEN Twice(group, v) ELSE 2 * (n - 1) - Twice(group, v), 2 * (n - 1)>>
         /\ n <= 1 => Percentile(group, v, higher) = <<1, 2>>
         /\ \A i \in 1 .. n : group[i] = v =>
              /\ Twice(group, v) = 2 * Below(group, v) + Equal(group, v) - 1
              /\ 2 * (n - 1) - Twice(group, v) = 2 * Above(group, v) + Equal(group, v) - 1
<1>1. Len(group) = n
  OBVIOUS
<1>2. PICK b, e, a \in Nat : b = Below(group, v) /\ e = Equal(group, v) /\ a = Above(group, v)
  BY GroupCounted
<1>3. b + e + a = n /\ \A i \in 1 .. n : group[i] = v => e >= 1
  BY <1>2, GroupCounted
<1>4. Twice(group, v) = 2 * b + (IF e > 1 THEN e - 1 ELSE 0)
  BY <1>2 DEF Twice
<1>5. /\ n > 1 => Percentile(group, v, higher) =
                       <<IF higher THEN Twice(group, v) ELSE 2 * (n - 1) - Twice(group, v), 2 * (n - 1)>>
      /\ n <= 1 => Percentile(group, v, higher) = <<1, 2>>
  BY <1>1 DEF Percentile, Twice
<1>6. \A i \in 1 .. n : group[i] = v =>
              /\ Twice(group, v) = 2 * b + e - 1
              /\ 2 * (n - 1) - Twice(group, v) = 2 * a + e - 1
  BY <1>3, <1>4
<1> QED
  BY <1>1, <1>2, <1>4, <1>5, <1>6

\* A figure not above another has no higher place; in a group a lower one has a lower place.
LEMMA TwiceGrows ==
  ASSUME NEW n \in Nat, NEW group \in [1 .. n -> Figures], NEW v \in Figures, NEW w \in Figures
  PROVE  /\ ~Less(w, v) => Twice(group, v) <= Twice(group, w)
         /\ \A i, j \in 1 .. n : group[i] = v /\ group[j] = w =>
              (Less(v, w) <=> Twice(group, v) < Twice(group, w))
<1>1. PICK b, e \in Nat : b = Below(group, v) /\ e = Equal(group, v)
  BY GroupCounted
<1>2. PICK c, f \in Nat : c = Below(group, w) /\ f = Equal(group, w)
  BY GroupCounted
<1>3. /\ Twice(group, v) = 2 * b + (IF e > 1 THEN e - 1 ELSE 0)
      /\ Twice(group, w) = 2 * c + (IF f > 1 THEN f - 1 ELSE 0)
  BY <1>1, <1>2 DEF Twice
<1>4. Less(v, w) => b + e <= c
  BY <1>1, <1>2, GroupGrows
<1>5. Same(v, w) => b = c /\ e = f
  BY <1>1, <1>2, GroupGrows
<1>6. Less(w, v) => c + f <= b
  BY <1>1, <1>2, GroupGrows
<1>7. /\ Less(v, w) \/ Same(v, w) \/ Less(w, v)
      /\ Less(v, w) => ~Less(w, v)
      /\ Same(v, w) => ~Less(v, w) /\ ~Less(w, v)
  BY FiguresOrdered
<1>8. ~Less(w, v) => Twice(group, v) <= Twice(group, w)
  BY <1>3, <1>4, <1>5, <1>7
<1>9. ASSUME NEW i \in 1 .. n, NEW j \in 1 .. n, group[i] = v, group[j] = w
      PROVE  Less(v, w) <=> Twice(group, v) < Twice(group, w)
  <2>1. e >= 1 /\ f >= 1
    BY <1>1, <1>2, <1>9, GroupCounted
  <2>2. Less(v, w) => Twice(group, v) < Twice(group, w)
    BY <1>3, <1>4, <2>1
  <2>3. Same(v, w) => ~(Twice(group, v) < Twice(group, w))
    BY <1>3, <1>5
  <2>4. Less(w, v) => ~(Twice(group, v) < Twice(group, w))
    BY <1>3, <1>6, <2>1
  <2> QED
    BY <1>7, <2>2, <2>3, <2>4
<1> QED
  BY <1>8, <1>9

\* Of two figures of a group the better one ranks higher.
LEMMA BetterRanksHigher ==
  ASSUME NEW n \in Nat, NEW group \in [1 .. n -> Figures], NEW higher \in BOOLEAN,
         NEW i \in 1 .. n, NEW j \in 1 .. n
  PROVE  Better(higher, group[i], group[j]) =
           Less(Percentile(group, group[j], higher), Percentile(group, group[i], higher))
<1>1. PICK v, w \in Figures : v = group[i] /\ w = group[j]
  OBVIOUS
<1>2. PICK p, q : p = Percentile(group, v, higher) /\ q = Percentile(group, w, higher)
  OBVIOUS
<1>3. PICK t, u \in Int : t = Twice(group, v) /\ u = Twice(group, w)
  BY PercentileIs
<1>4. (Less(v, w) <=> t < u) /\ (Less(w, v) <=> u < t)
  BY <1>1, <1>3, TwiceGrows
<1>5. Better(higher, v, w) <=> Less(q, p)
  <2>1. CASE n > 1
    <3>1. PICK d \in Nat \ {0} : d = 2 * (n - 1)
      BY <2>1
    <3>2. PICK x, y \in Int : x = (IF higher THEN t ELSE d - t) /\ y = (IF higher THEN u ELSE d - u)
      <4>1. (IF higher THEN t ELSE d - t) \in Int /\ (IF higher THEN u ELSE d - u) \in Int
        OBVIOUS
      <4> QED
        BY <4>1
    <3>3. p = <<x, d>> /\ q = <<y, d>>
      BY <1>2, <1>3, <2>1, <3>1, <3>2, PercentileIs
    <3>4. Less(q, p) <=> y * d < x * d
      BY <3>3 DEF Less
    <3>5. y * d < x * d <=> y < x
      OBVIOUS
    <3>6. y < x <=> IF higher THEN u < t ELSE t < u
      BY <3>2
    <3> QED
      BY <1>4, <3>4, <3>5, <3>6 DEF Better
  <2>2. CASE n <= 1
    <3>1. v = w
      BY <1>1, <2>2
    <3>2. p = <<1, 2>> /\ q = <<1, 2>>
      BY <1>2, <2>2, PercentileIs
    <3>3. ~Less(q, p)
      BY <3>2 DEF Less
    <3>4. ~Better(higher, v, w)
      BY <3>1, FiguresOrdered DEF Better
    <3> QED
      BY <3>3, <3>4
  <2> QED
    BY <2>1, <2>2
<1>6. Less(q, p) \in BOOLEAN /\ Better(higher, v, w) \in BOOLEAN
  <2>1. Less(q, p) \in BOOLEAN
    BY DEF Less
  <2>2. Less(v, w) \in BOOLEAN /\ Less(w, v) \in BOOLEAN
    BY FiguresOrdered
  <2> QED
    BY <2>1, <2>2 DEF Better
<1>7. Better(higher, v, w) = Less(q, p)
  BY <1>5, <1>6
<1> QED
  BY <1>1, <1>2, <1>7

\* A sum over n numbers, number by number.
Adding(n, f, sum) ==
  /\ SumOf(f) = sum[n] /\ sum[0] = 0 /\ \A k \in 0 .. n : sum[k] \in Int
  /\ \A k \in 1 .. n : sum[k] = sum[k - 1] + f[k] /\ f[k] \in Int /\ sum[k - 1] \in Int

\* Any numbers are added up so.
LEMMA Added ==
  ASSUME NEW n \in Nat, NEW f \in [1 .. n -> Int]
  PROVE  \E sum : Adding(n, f, sum)
<1>1. f \in Seq(Int) /\ Len(f) = n
  OBVIOUS
<1>2. PICK sum \in [0 .. Len(f) -> Int] :
        SumOf(f) = sum[Len(f)] /\ sum[0] = 0 /\ \A k \in 1 .. Len(f) : sum[k] = sum[k - 1] + f[k]
  BY <1>1, SumIs
<1>3. \A k \in 1 .. n : k \in 0 .. n /\ k - 1 \in 0 .. n
  OBVIOUS
<1>4. Adding(n, f, sum)
  BY <1>1, <1>2, <1>3 DEF Adding
<1> QED
  BY <1>4

\* Two series whose sum is constant and whose difference is that of two others
\* of the same sum have the same sum themselves.
Paired(n, x, a, b, t, u) ==
  /\ a \in [1 .. n -> Int] /\ b \in [1 .. n -> Int] /\ t \in [1 .. n -> Int] /\ u \in [1 .. n -> Int]
  /\ \A i \in 1 .. n : t[i] + (a[i] + a[i]) = u[i] + (b[i] + b[i]) /\ t[i] + u[i] = x
  /\ SumOf(a) = SumOf(b)

\* So each is half of the constant times the number of terms.
LEMMA SumsPaired ==
  ASSUME NEW n \in Nat, NEW x \in Int, NEW a, NEW b, NEW t, NEW u, Paired(n, x, a, b, t, u)
  PROVE  SumOf(t) = SumOf(u) /\ SumOf(t) \in Int /\ SumOf(t) + SumOf(u) = n * x
<1>1. PICK p : Adding(n, a, p)
  BY Added DEF Paired
<1>2. PICK q : Adding(n, b, q)
  BY Added DEF Paired
<1>3. PICK v : Adding(n, t, v)
  BY Added DEF Paired
<1>4. PICK w : Adding(n, u, w)
  BY Added DEF Paired
<1> DEFINE S == {k \in 0 .. n : v[k] + (p[k] + p[k]) = w[k] + (q[k] + q[k]) /\ v[k] + w[k] = k * x}
<1>5. 0 \in S
  BY <1>1, <1>2, <1>3, <1>4 DEF Adding
<1>6. ASSUME NEW k \in 1 .. n, k - 1 \in S PROVE k \in S
  <2>1. PICK p0, ak \in Int : p0 = p[k - 1] /\ ak = a[k] /\ p[k] = p0 + ak
    BY <1>1 DEF Adding
  <2>2. PICK q0, bk \in Int : q0 = q[k - 1] /\ bk = b[k] /\ q[k] = q0 + bk
    BY <1>2 DEF Adding
  <2>3. PICK v0, tk \in Int : v0 = v[k - 1] /\ tk = t[k] /\ v[k] = v0 + tk
    BY <1>3 DEF Adding
  <2>4. PICK w0, uk \in Int : w0 = w[k - 1] /\ uk = u[k] /\ w[k] = w0 + uk
    BY <1>4 DEF Adding
  <2>5. v0 + (p0 + p0) = w0 + (q0 + q0) /\ v0 + w0 = (k - 1) * x
    BY <1>6, <2>1, <2>2, <2>3, <2>4
  <2>6. tk + (ak + ak) = uk + (bk + bk) /\ tk + uk = x
    BY <2>1, <2>2, <2>3, <2>4 DEF Paired
  <2>7. k \in 0 .. n /\ (k - 1) * x \in Int /\ k * x = (k - 1) * x + x
    OBVIOUS
  <2>8. /\ (v0 + tk) + ((p0 + ak) + (p0 + ak)) = (w0 + uk) + ((q0 + bk) + (q0 + bk))
        /\ (v0 + tk) + (w0 + uk) = k * x
    BY <2>5, <2>6, <2>7
  <2>9. v[k] + (p[k] + p[k]) = w[k] + (q[k] + q[k]) /\ v[k] + w[k] = k * x
    BY <2>1, <2>2, <2>3, <2>4, <2>8
  <2> QED
    BY <2>7, <2>9
<1> HIDE DEF S
<1>7. 0 .. n \subseteq S
  BY <1>5, <1>6, UpTo
<1>8. n \in S /\ n \in 0 .. n
  BY <1>7
<1>9. v[n] + (p[n] + p[n]) = w[n] + (q[n] + q[n]) /\ v[n] + w[n] = n * x
  BY <1>8 DEF S
<1>10. p[n] \in Int /\ q[n] \in Int /\ v[n] \in Int /\ w[n] \in Int
  BY <1>1, <1>2, <1>3, <1>4, <1>8 DEF Adding
<1>11. SumOf(a) = p[n] /\ SumOf(b) = q[n] /\ SumOf(t) = v[n] /\ SumOf(u) = w[n]
  BY <1>1, <1>2, <1>3, <1>4 DEF Adding
<1>12. p[n] = q[n]
  BY <1>11 DEF Paired
<1> QED
  BY <1>9, <1>10, <1>11, <1>12

\* Each figure below another is one that the other is above.
LEMMA BelowAsAbove ==
  ASSUME NEW n \in Nat, NEW group \in [1 .. n -> Figures], NEW b \in [1 .. n -> Int], NEW a \in [1 .. n -> Int],
         \A i \in 1 .. n : b[i] = Below(group, group[i]) /\ a[i] = Above(group, group[i])
  PROVE  SumOf(b) = SumOf(a)
<1>1. PICK R : R = [i \in 1 .. n |-> {j \in 1 .. n : Less(group[j], group[i])}]
  OBVIOUS
<1>2. PICK C : C = [j \in 1 .. n |-> {i \in 1 .. n : Less(group[j], group[i])}]
  OBVIOUS
<1>3. Crossing(n, n, R, C)
  BY <1>1, <1>2 DEF Crossing
<1>4. Counted(n, b, R)
  <2> SUFFICES ASSUME NEW i \in 1 .. n PROVE b[i] = Cardinality(R[i])
    BY DEF Counted
  <2>1. R[i] = {j \in DOMAIN group : Less(group[j], group[i])}
    BY <1>1
  <2> QED
    BY <2>1 DEF Below
<1>5. Counted(n, a, C)
  <2> SUFFICES ASSUME NEW j \in 1 .. n PROVE a[j] = Cardinality(C[j])
    BY DEF Counted
  <2>1. C[j] = {i \in DOMAIN group : Less(group[j], group[i])}
    BY <1>2
  <2> QED
    BY <2>1 DEF Above
<1> QED
  BY <1>3, <1>4, <1>5, CountBothWays

\* The unrounded ranks of a group average one half.
LEMMA RanksAverage ==
  ASSUME NEW n \in Nat, n > 1, NEW group \in [1 .. n -> Figures], NEW higher \in BOOLEAN
  PROVE  SumOf([i \in 1 .. n |-> Percentile(group, group[i], higher)[1]]) = n * (n - 1)
<1>1. PICK b, e, a \in [1 .. n -> Int] :
        \A i \in 1 .. n : /\ b[i] = Below(group, group[i]) /\ e[i] = Equal(group, group[i])
                          /\ a[i] = Above(group, group[i])
  <2>1. \A i \in 1 .. n : /\ Below(group, group[i]) \in Int /\ Equal(group, group[i]) \in Int
                          /\ Above(group, group[i]) \in Int
    <3> SUFFICES ASSUME NEW i \in 1 .. n
                 PROVE  /\ Below(group, group[i]) \in Int /\ Equal(group, group[i]) \in Int
                        /\ Above(group, group[i]) \in Int
      OBVIOUS
    <3>1. group[i] \in Figures
      OBVIOUS
    <3> QED
      BY <3>1, GroupCounted
  <2>2. PICK b, e, a : /\ b = [i \in 1 .. n |-> Below(group, group[i])]
                       /\ e = [i \in 1 .. n |-> Equal(group, group[i])]
                       /\ a = [i \in 1 .. n |-> Above(group, group[i])]
    OBVIOUS
  <2>3. /\ b \in [1 .. n -> Int] /\ e \in [1 .. n -> Int] /\ a \in [1 .. n -> Int]
        /\ \A i \in 1 .. n : /\ b[i] = Below(group, group[i]) /\ e[i] = Equal(group, group[i])
                             /\ a[i] = Above(group, group[i])
    BY <2>1, <2>2
  <2> QED
    BY <2>3
<1>2. SumOf(b) = SumOf(a)
  BY <1>1, BelowAsAbove
<1>3. PICK t, u \in [1 .. n -> Int] :
        \A i \in 1 .. n : t[i] = 2 * b[i] + e[i] - 1 /\ u[i] = 2 * a[i] + e[i] - 1
  <2>1. PICK t, u : /\ t = [i \in 1 .. n |-> 2 * b[i] + e[i] - 1]
                    /\ u = [i \in 1 .. n |-> 2 * a[i] + e[i] - 1]
    OBVIOUS
  <2>2. \A i \in 1 .. n : b[i] \in Int /\ e[i] \in Int /\ a[i] \in Int
    OBVIOUS
  <2>3. \A i \in 1 .. n : 2 * b[i] + e[i] - 1 \in Int /\ 2 * a[i] + e[i] - 1 \in Int
    <3>1. \A x, y \in Int : 2 * x + y - 1 \in Int
      OBVIOUS
    <3> QED
      BY <2>2, <3>1
  <2>4. t \in [1 .. n -> Int]
    BY <2>1, <2>3
  <2>5. u \in [1 .. n -> Int]
    BY <2>1, <2>3
  <2>6. \A i \in 1 .. n : t[i] = 2 * b[i] + e[i] - 1 /\ u[i] = 2 * a[i] + e[i] - 1
    BY <2>1
  <2> QED
    BY <2>4, <2>5, <2>6
<1>4. \A i \in 1 .. n : /\ b[i] + e[i] + a[i] = n
                        /\ Percentile(group, group[i], higher)[1] = IF higher THEN t[i] ELSE u[i]
  <2> SUFFICES ASSUME NEW i \in 1 .. n
               PROVE  /\ b[i] + e[i] + a[i] = n
                      /\ Percentile(group, group[i], higher)[1] = IF higher THEN t[i] ELSE u[i]
    OBVIOUS
  <2>1. PICK v \in Figures : v = group[i]
    OBVIOUS
  <2>2. b[i] + e[i] + a[i] = n
    <3>1. Below(group, v) + Equal(group, v) + Above(group, v) = n
      BY GroupCounted
    <3>2. b[i] = Below(group, v) /\ e[i] = Equal(group, v) /\ a[i] = Above(group, v)
      BY <1>1, <2>1
    <3> QED
      BY <3>1, <3>2
  <2>3. Percentile(group, v, higher) =
          <<IF higher THEN Twice(group, v) ELSE 2 * (n - 1) - Twice(group, v), 2 * (n - 1)>>
    BY PercentileIs
  <2>4. Twice(group, v) = t[i] /\ 2 * (n - 1) - Twice(group, v) = u[i]
    BY <1>1, <1>3, <2>1, PercentileIs
  <2> QED
    BY <2>1, <2>2, <2>3, <2>4
<1>5. \A i \in 1 .. n : /\ b[i] \in Int /\ e[i] \in Int /\ a[i] \in Int /\ t[i] \in Int /\ u[i] \in Int
                        /\ t[i] + (a[i] + a[i]) = u[i] + (b[i] + b[i]) /\ t[i] + u[i] = 2 * (n - 1)
  <2> SUFFICES ASSUME NEW i \in 1 .. n
               PROVE  /\ b[i] \in Int /\ e[i] \in Int /\ a[i] \in Int /\ t[i] \in Int /\ u[i] \in Int
                      /\ t[i] + (a[i] + a[i]) = u[i] + (b[i] + b[i]) /\ t[i] + u[i] = 2 * (n - 1)
    OBVIOUS
  <2>1. PICK x, y, z \in Int : x = b[i] /\ y = e[i] /\ z = a[i]
    OBVIOUS
  <2>2. PICK p, q \in Int : p = t[i] /\ q = u[i]
    OBVIOUS
  <2>3. p = 2 * x + y - 1 /\ q = 2 * z + y - 1
    BY <1>3, <2>1, <2>2
  <2>4. x + y + z = n
    BY <1>4, <2>1
  <2>5. p + (z + z) = q + (x + x) /\ p + q = 2 * (n - 1)
    BY <2>3, <2>4
  <2> QED
    BY <2>1, <2>2, <2>5
<1>6. SumOf(t) = SumOf(u) /\ SumOf(t) \in Int /\ SumOf(t) + SumOf(u) = n * (2 * (n - 1))
  <2>1. 2 * (n - 1) \in Int
    OBVIOUS
  <2>2. Paired(n, 2 * (n - 1), a, b, t, u)
    BY <1>2, <1>5 DEF Paired
  <2> QED
    BY <2>1, <2>2, SumsPaired
<1>7. SumOf(t) = n * (n - 1)
  <2>1. n * (2 * (n - 1)) = 2 * (n * (n - 1)) /\ n * (n - 1) \in Int
    OBVIOUS
  <2> QED
    BY <1>6, <2>1
<1>8. [i \in 1 .. n |-> Percentile(group, group[i], higher)[1]] = IF higher THEN t ELSE u
  <2>1. CASE higher
    BY <1>4, <2>1
  <2>2. CASE ~higher
    BY <1>4, <2>2
  <2> QED
    BY <2>1, <2>2
<1> QED
  BY <1>6, <1>7, <1>8

\* A figure in the best fifth of its group is beaten by at most a fifth of the
\* others, one in the last fifth beats at most a fifth of them.
LEMMA BestAndWorst ==
  ASSUME NEW n \in Nat, n > 1, NEW group \in [1 .. n -> Figures], NEW higher \in BOOLEAN,
         NEW i \in 1 .. n, NEW v, v = group[i]
  PROVE  LET share == Percentile(group, v, higher)
         IN  /\ 5 * share[1] >= 4 * share[2] =>
                  5 * Cardinality({j \in DOMAIN group : Better(higher, group[j], v)}) <= n - 1
             /\ 5 * share[1] <= share[2] =>
                  5 * Cardinality({j \in DOMAIN group : Better(higher, v, group[j])}) <= n - 1
<1>0. v \in Figures
  OBVIOUS
<1>1. PICK b, e, a \in Nat : b = Below(group, v) /\ e = Equal(group, v) /\ a = Above(group, v)
  BY <1>0, GroupCounted
<1>2. b + e + a = n /\ e >= 1
  BY <1>0, <1>1, GroupCounted
<1>3. Twice(group, v) = 2 * b + e - 1
  BY <1>0, <1>1, PercentileIs
<1>4. Percentile(group, v, higher) =
        <<IF higher THEN Twice(group, v) ELSE 2 * (n - 1) - Twice(group, v), 2 * (n - 1)>>
  BY <1>0, PercentileIs
<1>5. {j \in DOMAIN group : Better(higher, group[j], v)} =
        IF higher THEN {j \in DOMAIN group : Less(v, group[j])} ELSE {j \in DOMAIN group : Less(group[j], v)}
  BY DEF Better
<1>6. {j \in DOMAIN group : Better(higher, v, group[j])} =
        IF higher THEN {j \in DOMAIN group : Less(group[j], v)} ELSE {j \in DOMAIN group : Less(v, group[j])}
  BY DEF Better
<1>7. /\ Cardinality({j \in DOMAIN group : Better(higher, group[j], v)}) = IF higher THEN a ELSE b
      /\ Cardinality({j \in DOMAIN group : Better(higher, v, group[j])}) = IF higher THEN b ELSE a
  BY <1>1, <1>5, <1>6 DEF Above, Below
<1>8. PICK share, x, d : /\ share = Percentile(group, v, higher) /\ share = <<x, d>> /\ d = 2 * (n - 1)
                         /\ x = IF higher THEN 2 * b + e - 1 ELSE 2 * (n - 1) - (2 * b + e - 1)
  BY <1>3, <1>4
<1>9. /\ 5 * x >= 4 * d => 5 * (IF higher THEN a ELSE b) <= n - 1
      /\ 5 * x <= d => 5 * (IF higher THEN b ELSE a) <= n - 1
  <2>1. CASE higher
    BY <1>2, <1>8, <2>1
  <2>2. CASE ~higher
    BY <1>2, <1>8, <2>2
  <2> QED
    BY <2>1, <2>2
<1> QED
  BY <1>7, <1>8, <1>9

------------------------------------------------------------------------------
(* What a page holds. *)

\* The metrics of a company.
Metrics == [METRICS -> Figures \cup {NoValue}]

\* A page shows the metrics of a target and of its peers, no more of them than
\* the universe holds; only peers are excluded.
ViewInv ==
  /\ companies \in Seq(Metrics) /\ Len(companies) \in 1 .. universe + 1 /\ universe \in Nat
  /\ excluded \subseteq Peers
  /\ sorting # NoValue => sorting \in [key: METRICS, descends: BOOLEAN]

\* Points are kept for each concept of a company.
Known(known) == \A c \in DOMAIN known : known[c] \in Seq(MetricPoint)

\* latestAnnual and priorAnnual choose among points with a value.
LEMMA PoolIs ==
  ASSUME NEW points \in Seq(MetricPoint)
  PROVE  /\ AnnualPool(points) \in Seq(MetricPoint)
         /\ \A i \in DOMAIN AnnualPool(points) : AnnualPool(points)[i].val \in Int
<1>1. PICK A : A = {i \in DOMAIN points : points[i].annual}
  OBVIOUS
<1>2. PICK annual : annual = AtPositions(points, A)
  OBVIOUS
<1>3. annual \in Seq(MetricPoint)
  BY <1>1, <1>2, SelectedList
<1>4. PICK s \in Seq(MetricPoint) : s = IF annual = <<>> THEN points ELSE annual
  BY <1>3
<1>5. PICK E : E = {i \in DOMAIN s : IsFigure(s[i].val)}
  OBVIOUS
<1>6. AnnualPool(points) = AtPositions(s, E)
  BY <1>1, <1>2, <1>4, <1>5 DEF AnnualPool, Where
<1>7. PICK pool : pool = AtPositions(s, E)
  OBVIOUS
<1>8. E \in SUBSET DOMAIN s
  BY <1>5
<1>9. pool \in Seq(MetricPoint) /\ \A k \in 1 .. Len(pool) : \E i \in E : pool[k] = s[i]
  <2>1. PICK n : n = Cardinality(E)
    OBVIOUS
  <2>2. pool \in Seq(MetricPoint) /\ Len(pool) = n
    BY <1>7, <1>8, <2>1, SelectedList
  <2>3. \A k \in 1 .. n : Nth(E, k) \in E /\ pool[k] = s[Nth(E, k)]
    BY <1>7, <1>8, <2>1, SelectedList
  <2> QED
    BY <2>2, <2>3
<1>10. \A i \in E : s[i] \in MetricPoint /\ s[i].val # NoValue
  BY <1>5 DEF IsFigure
<1>11. \A p \in MetricPoint : p.val \in Int \cup {NoValue}
  BY DEF MetricPoint
<1>12. \A k \in 1 .. Len(pool) : pool[k].val \in Int
  BY <1>9, <1>10, <1>11
<1> QED
  BY <1>6, <1>7, <1>9, <1>12

\* They return a value or nothing.
LEMMA AnnualIs ==
  ASSUME NEW points \in Seq(MetricPoint)
  PROVE  LatestAnnual(points) \in Int \cup {NoValue} /\ PriorAnnual(points) \in Int \cup {NoValue}
<1>1. PICK pool \in Seq(MetricPoint) : pool = AnnualPool(points)
  BY PoolIs
<1>2. \A i \in DOMAIN pool : pool[i].val \in Int
  BY <1>1, PoolIs
<1>3. PICK len \in Nat : len = Len(pool) /\ DOMAIN pool = 1 .. len
  OBVIOUS
<1>4. PriorAnnual(points) \in Int \cup {NoValue}
  <2>1. CASE len < 2
    BY <1>1, <1>3, <2>1 DEF PriorAnnual
  <2>2. CASE ~(len < 2)
    <3>1. len - 1 \in 1 .. len
      BY <2>2
    <3> QED
      BY <1>1, <1>2, <1>3, <2>2, <3>1 DEF PriorAnnual
  <2> QED
    BY <2>1, <2>2
<1>5. LatestAnnual(points) \in Int \cup {NoValue}
  <2>1. CASE pool = <<>>
    BY <1>1, <2>1 DEF LatestAnnual
  <2>2. CASE pool # <<>>
    <3>1. PICK E : E = {i \in DOMAIN pool : \A q \in ToSet(pool) : q.end <= pool[i].end}
      OBVIOUS
    <3>2. E # {}
      <4>1. PICK ends : ends = [i \in 1 .. len |-> pool[i].end]
        OBVIOUS
      <4>2. \A i \in 1 .. len : pool[i].end \in Int
        <5>1. \A i \in 1 .. len : pool[i] \in MetricPoint
          BY <1>3
        <5>2. \A p \in MetricPoint : p.end \in Int
          BY DEF MetricPoint
        <5> QED
          BY <5>1, <5>2
      <4>3. ends \in [1 .. len -> Int] /\ 1 .. len # {}
        BY <1>3, <2>2, <4>1, <4>2
      <4>4. PICK i \in 1 .. len : \A k \in 1 .. len : ends[k] <= ends[i]
        BY <4>3, LargestOf
      <4>5. \A q \in ToSet(pool) : q.end <= pool[i].end
        BY <1>3, <4>1, <4>4 DEF ToSet
      <4> QED
        BY <1>3, <3>1, <4>5
    <3>3. FirstWhere(pool, LAMBDA p : \A q \in ToSet(pool) : q.end <= p.end) = pool[Min(E)]
      BY <3>1, <3>2 DEF FirstWhere
    <3>4. Min(E) \in E
      <4>1. E \in SUBSET Nat
        BY <1>3, <3>1
      <4>2. PICK n \in E : \A m \in E : n <= m
        BY <3>2, <4>1, LeastNumber
      <4> QED
        BY <4>2 DEF Min
    <3>5. LatestAnnual(points) = pool[Min(E)].val
      BY <1>1, <2>2, <3>3 DEF LatestAnnual
    <3> QED
      BY <1>2, <3>1, <3>4, <3>5
  <2> QED
    BY <2>1, <2>2
<1> QED
  BY <1>4, <1>5

\* A quotient is a figure, or none.
LEMMA Divided ==
  ASSUME NEW n \in Int \cup {NoValue}, NEW d \in Int \cup {NoValue}
  PROVE  SafeDiv(n, d) \in Figures \cup {NoValue}
<1>1. ASSUME n \in Int, d \in Int, d # 0
      PROVE  Ratio(n, d) \in Figures
  <2>1. d < 0 => -n \in Int /\ -d \in Nat \ {0}
    BY <1>1
  <2>2. ~(d < 0) => d \in Nat \ {0}
    BY <1>1
  <2> QED
    BY <1>1, <2>1, <2>2 DEF Ratio, Figures
<1> QED
  BY <1>1 DEF SafeDiv, IsFigure

\* An item's points are those of a concept known, if any is.
LEMMA PointsOf ==
  ASSUME NEW known, Known(known), NEW item \in DOMAIN CONCEPT_CANDIDATES
  PROVE  ConceptPoints(known, item) \in Seq(MetricPoint)
<1>1. PICK s : s = CONCEPT_CANDIDATES[item] /\ DOMAIN s \in SUBSET Nat
  <2>1. item \in {"revenue", "operatingIncome", "netIncome", "equity",
                  "longTermDebt", "shortTermDebt", "liabilities"}
    BY DEF CONCEPT_CANDIDATES
  <2>2. item = "revenue" => CONCEPT_CANDIDATES[item] = <<"Revenues", "RevenueFromContract">>
    BY DEF CONCEPT_CANDIDATES
  <2>3. item # "revenue" =>
          CONCEPT_CANDIDATES[item] \in {<<"OperatingIncomeLoss">>, <<"NetIncomeLoss">>,
            <<"StockholdersEquity">>, <<"LongTermDebt">>, <<"DebtCurrent">>, <<"Liabilities">>}
    BY <2>1 DEF CONCEPT_CANDIDATES
  <2>4. \A a, b \in STRING : DOMAIN <<a>> = 1 .. 1 /\ DOMAIN <<a, b>> = 1 .. 2
    OBVIOUS
  <2>5. DOMAIN CONCEPT_CANDIDATES[item] = 1 .. 2 \/ DOMAIN CONCEPT_CANDIDATES[item] = 1 .. 1
    BY <2>2, <2>3, <2>4
  <2> QED
    BY <2>5
<1>2. PICK E : E = {i \in DOMAIN s : s[i] \in DOMAIN known}
  OBVIOUS
<1>3. PICK named : named = FirstWhere(s, LAMBDA c : c \in DOMAIN known)
  OBVIOUS
<1>4. named = IF E = {} THEN NoValue ELSE s[Min(E)]
  BY <1>2, <1>3 DEF FirstWhere
<1>5. E # {} => Min(E) \in E
  <2> SUFFICES ASSUME E # {} PROVE Min(E) \in E
    OBVIOUS
  <2>1. E \in SUBSET Nat
    BY <1>1, <1>2
  <2>2. PICK n \in E : \A m \in E : n <= m
    BY <2>1, LeastNumber
  <2> QED
    BY <2>2 DEF Min
<1>6. named = NoValue \/ named \in DOMAIN known
  BY <1>2, <1>4, <1>5
<1>7. ConceptPoints(known, item) = IF named = NoValue THEN <<>> ELSE known[named]
  BY <1>1, <1>3 DEF ConceptPoints
<1> QED
  BY <1>6, <1>7 DEF Known

\* deriveMetricsFromFacts gives every metric a figure or none.
LEMMA MetricsDerived ==
  ASSUME NEW known, Known(known)
  PROVE  DeriveMetricsFromFacts(known) \in Metrics
<1> DEFINE Read(item) == LatestAnnual(ConceptPoints(known, item))
<1>1. \A item \in DOMAIN CONCEPT_CANDIDATES : Read(item) \in Int \cup {NoValue}
  BY PointsOf, AnnualIs
<1>2. DOMAIN CONCEPT_CANDIDATES = {"revenue", "operatingIncome", "netIncome", "equity",
                                   "longTermDebt", "shortTermDebt", "liabilities"}
  BY DEF CONCEPT_CANDIDATES
<1> HIDE DEF Read
<1>3. PICK r, o, n, e, l, t, b \in Int \cup {NoValue} :
        /\ r = Read("revenue") /\ o = Read("operatingIncome") /\ n = Read("netIncome")
        /\ e = Read("equity") /\ l = Read("longTermDebt") /\ t = Read("shortTermDebt")
        /\ b = Read("liabilities")
  BY <1>1, <1>2
<1>4. PICK p \in Int \cup {NoValue} : p = PriorAnnual(ConceptPoints(known, "revenue"))
  BY <1>2, PointsOf, AnnualIs
<1>5. PICK debt : debt = IF IsFigure(l) \/ IsFigure(t)
                         THEN (IF IsFigure(l) THEN l ELSE 0) + (IF IsFigure(t) THEN t ELSE 0) ELSE b
  OBVIOUS
<1>6. PICK growth : growth = IF ~IsFigure(r) \/ p \in {NoValue, 0} THEN NoValue
                             ELSE Ratio(r - p, Magnitude(p))
  OBVIOUS
<1>7. debt \in Int \cup {NoValue}
  BY <1>5 DEF IsFigure
<1>8. growth \in Figures \cup {NoValue}
  <2>1. CASE ~IsFigure(r) \/ p \in {NoValue, 0}
    BY <1>6, <2>1
  <2>2. CASE ~(~IsFigure(r) \/ p \in {NoValue, 0})
    <3>1. r \in Int /\ p \in Int /\ p # 0
      BY <2>2 DEF IsFigure
    <3>2. r - p \in Int /\ Magnitude(p) \in Nat \ {0}
      BY <3>1 DEF Magnitude
    <3>3. Ratio(r - p, Magnitude(p)) \in Figures
      BY <3>2 DEF Ratio, Figures
    <3> QED
      BY <1>6, <2>2, <3>3
  <2> QED
    BY <2>1, <2>2
<1>9. PICK x, y, z, w \in Figures \cup {NoValue} :
        x = SafeDiv(o, r) /\ y = SafeDiv(n, r) /\ z = SafeDiv(n, e) /\ w = SafeDiv(debt, e)
  BY <1>7, Divided
<1>10. DeriveMetricsFromFacts(known) =
         [revenueGrowth |-> growth, operatingMargin |-> x, netMargin |-> y, roe |-> z, debtToEquity |-> w]
  BY <1>3, <1>4, <1>5, <1>6, <1>9 DEF DeriveMetricsFromFacts, Read
<1> QED
  BY <1>8, <1>10 DEF Metrics, METRICS, HigherIsBetter

\* A page shows as many companies as it was rendered with.
LEMMA PageShown ==
  ASSUME NEW known, known \in Seq(ToSet(known)), \A k \in ToSet(known) : Known(k)
  PROVE  Shown(known) \in Seq(Metrics) /\ Len(Shown(known)) = Len(known)
<1>1. PICK n \in Nat : n = Len(known) /\ DOMAIN known = 1 .. n
  OBVIOUS
<1>2. PICK shown : shown = Shown(known)
  OBVIOUS
<1>3. shown = [i \in 1 .. n |-> DeriveMetricsFromFacts(known[i])]
  BY <1>1, <1>2 DEF Shown, Mapped
<1>4. \A i \in 1 .. n : Known(known[i])
  BY <1>1 DEF ToSet
<1>5. \A i \in 1 .. n : DeriveMetricsFromFacts(known[i]) \in Metrics
  BY <1>4, MetricsDerived
<1>6. shown \in [1 .. n -> Metrics]
  BY <1>3, <1>5
<1>7. shown \in Seq(Metrics) /\ Len(shown) = n
  BY <1>6
<1> QED
  BY <1>1, <1>2, <1>7

\* What a page is loaded with.
LEMMA PageLoaded ==
  ASSUME NEW result \in Benchmarks
  PROVE  /\ Shown(result.known) \in Seq(Metrics) /\ result.universe \in Nat
         /\ Len(Shown(result.known)) \in 1 .. result.universe + 1
<1>1. /\ result.known \in Seq(ToSet(result.known)) /\ result.known # <<>>
      /\ \A k \in ToSet(result.known) : Known(k)
      /\ result.universe \in Nat /\ Len(result.known) <= result.universe + 1
  BY ViewAssumption DEF Known
<1>2. PICK known : known = result.known
  OBVIOUS
<1>3. Shown(known) \in Seq(Metrics) /\ Len(Shown(known)) = Len(known)
  BY <1>1, <1>2, PageShown
<1>4. Len(known) \in 1 .. result.universe + 1
  BY <1>1, <1>2
<1> QED
  BY <1>1, <1>2, <1>3, <1>4

\* It stays so as pages are loaded, peers excluded and columns sorted.
LEMMA ViewInvHolds == ViewSpec => []ViewInv
<1>1. ViewInit => ViewInv
  <2> SUFFICES ASSUME ViewInit PROVE ViewInv
    OBVIOUS
  <2>1. PICK result \in Benchmarks : companies = Shown(result.known) /\ universe = result.universe
    BY DEF ViewInit
  <2>2. excluded = {} /\ sorting = NoValue
    BY DEF ViewInit
  <2> QED
    BY <2>1, <2>2, PageLoaded DEF ViewInv
<1>2. ViewInv /\ [ViewNext]_viewVars => ViewInv'
  <2> SUFFICES ASSUME ViewInv, [ViewNext]_viewVars PROVE ViewInv'
    OBVIOUS
  <2>1. ASSUME NEW result \in Benchmarks, Load(result) PROVE ViewInv'
    BY <2>1, PageLoaded DEF ViewInv, Load
  <2>2. ASSUME NEW c \in Peers, TogglePeer(c) PROVE ViewInv'
    BY <2>2 DEF ViewInv, TogglePeer, Peers
  <2>3. ASSUME NEW metric \in METRICS, ToggleSort(metric) PROVE ViewInv'
    <3>1. PICK d \in BOOLEAN : sorting' = [key |-> metric, descends |-> d]
      <4>1. PICK d : d = (IF sorting = NoValue THEN TRUE ELSE sorting.key = metric => ~sorting.descends)
        OBVIOUS
      <4>2. d \in BOOLEAN
        BY <4>1
      <4> QED
        BY <2>3, <4>1, <4>2 DEF ToggleSort
    <3>2. sorting' \in [key: METRICS, descends: BOOLEAN]
      BY <3>1
    <3> QED
      BY <2>3, <3>2 DEF ViewInv, ToggleSort, Peers
  <2>4. CASE UNCHANGED viewVars
    BY <2>4 DEF ViewInv, viewVars, Peers
  <2> QED
    BY <2>1, <2>2, <2>3, <2>4 DEF ViewNext
<1> QED
  BY <1>1, <1>2, PTL DEF ViewSpec

------------------------------------------------------------------------------
(* The group a figure is ranked in. *)

\* A company's figure of a metric is a ratio, or none.
LEMMA HasFigure ==
  ASSUME ViewInv, NEW c \in DOMAIN companies, NEW metric \in METRICS
  PROVE  IsFigure(companies[c][metric]) <=> companies[c][metric] \in Figures
<1>1. companies[c] \in Metrics
  BY DEF ViewInv
<1>2. companies[c][metric] \in Figures \cup {NoValue}
  BY <1>1 DEF Metrics
<1>3. NoValue \notin Figures
  BY ViewAssumption DEF Figures
<1> QED
  BY <1>2, <1>3 DEF IsFigure

\* The figures of some companies are those of each that has one.
LEMMA FiguresAre ==
  ASSUME ViewInv, NEW metric \in METRICS, NEW places \in SUBSET DOMAIN companies
  PROVE  \E n \in Nat :
           /\ FiguresOf(metric, places) \in [1 .. n -> Figures]
           /\ \A k \in 1 .. n : \E c \in places :
                IsFigure(companies[c][metric]) /\ FiguresOf(metric, places)[k] = companies[c][metric]
           /\ \A c \in places : IsFigure(companies[c][metric]) =>
                \E k \in 1 .. n : FiguresOf(metric, places)[k] = companies[c][metric]
<1>1. PICK have : have = {c \in places : IsFigure(companies[c][metric])}
  OBVIOUS
<1>2. PICK len \in Nat : DOMAIN companies = 1 .. len
  BY DEF ViewInv
<1>3. have \in SUBSET (1 .. len)
  BY <1>1, <1>2
<1>4. PICK n \in Nat : n = Cardinality(have)
  BY <1>3, Positions
<1>5. /\ DOMAIN AtPositions(companies, have) = 1 .. n
      /\ \A k \in 1 .. n : Nth(have, k) \in have /\ AtPositions(companies, have)[k] = companies[Nth(have, k)]
      /\ \A c \in have : \E k \in 1 .. n : Nth(have, k) = c
  <2>1. \A k \in 1 .. n : Nth(have, k) \in have
    BY <1>3, <1>4, RankReached
  <2>2. \A c \in have : PlaceIn(have, c) \in 1 .. n /\ Nth(have, PlaceIn(have, c)) = c
    BY <1>3, <1>4, NthIs
  <2>3. AtPositions(companies, have) = [k \in 1 .. n |-> companies[Nth(have, k)]]
    BY <1>4 DEF AtPositions
  <2> QED
    BY <2>1, <2>2, <2>3
<1>6. PICK group : group = FiguresOf(metric, places)
  OBVIOUS
<1>7. group = [k \in 1 .. n |-> AtPositions(companies, have)[k][metric]]
  BY <1>1, <1>5, <1>6 DEF FiguresOf, Mapped
<1>8. \A k \in 1 .. n : Nth(have, k) \in have /\ group[k] = companies[Nth(have, k)][metric]
  BY <1>5, <1>7
<1>9. \A c \in have : c \in places /\ IsFigure(companies[c][metric]) /\ companies[c][metric] \in Figures
  BY <1>1, HasFigure
<1>10. group \in [1 .. n -> Figures]
  BY <1>7, <1>8, <1>9
<1>11. \A k \in 1 .. n : \E c \in places :
         IsFigure(companies[c][metric]) /\ group[k] = companies[c][metric]
  BY <1>8, <1>9
<1>12. \A c \in places : IsFigure(companies[c][metric]) =>
         \E k \in 1 .. n : group[k] = companies[c][metric]
  BY <1>1, <1>5, <1>8
<1> QED
  BY <1>6, <1>10, <1>11, <1>12

\* The target and the peers are companies of the page.
LEMMA PlacesOfPage ==
  ASSUME ViewInv
  PROVE  /\ Peers \subseteq DOMAIN companies /\ ActivePeers \subseteq DOMAIN companies
         /\ {1} \cup ActivePeers \subseteq DOMAIN companies
  BY DEF ViewInv, Peers, ActivePeers

\* What a target is praised for.
LEMMA InsightIs ==
  ASSUME NEW metric, metric \in DOMAIN Insights
  PROVE  /\ IsFigure(companies[1][metric]) /\ Len(Group(metric)) >= 2
         /\ Insights[metric] = "pos" =>
              5 * Rank(metric, companies[1][metric])[1] >= 4 * Rank(metric, companies[1][metric])[2]
         /\ Insights[metric] = "neg" =>
              5 * Rank(metric, companies[1][metric])[1] <= Rank(metric, companies[1][metric])[2]
<1>1. PICK shares : shares = [m \in METRICS |-> Rank(m, companies[1][m])]
  OBVIOUS
<1>2. PICK T : T = {m \in METRICS : /\ IsFigure(companies[1][m]) /\ Len(Group(m)) >= 2
                                    /\ \/ 5 * shares[m][1] >= 4 * shares[m][2]
                                       \/ 5 * shares[m][1] <= shares[m][2]}
  OBVIOUS
<1>3. \A m \in METRICS : shares[m] = Rank(m, companies[1][m])
  BY <1>1
<1>4. ActivePeers # {}
  BY DEF Insights
<1>5. Insights = [m \in T |-> IF 5 * shares[m][1] >= 4 * shares[m][2] THEN "pos" ELSE "neg"]
  <2>1. T = {m \in METRICS : /\ IsFigure(companies[1][m]) /\ Len(Group(m)) >= 2
                             /\ \/ 5 * Rank(m, companies[1][m])[1] >= 4 * Rank(m, companies[1][m])[2]
                                \/ 5 * Rank(m, companies[1][m])[1] <= Rank(m, companies[1][m])[2]}
    BY <1>2, <1>3
  <2>2. Insights = [m \in T |-> IF 5 * Rank(m, companies[1][m])[1] >= 4 * Rank(m, companies[1][m])[2]
                                THEN "pos" ELSE "neg"]
    BY <1>4, <2>1 DEF Insights
  <2> QED
    BY <1>2, <1>3, <2>2
<1>6. metric \in T /\ metric \in METRICS
  BY <1>2, <1>5
<1>7. /\ IsFigure(companies[1][metric]) /\ Len(Group(metric)) >= 2
      /\ \/ 5 * shares[metric][1] >= 4 * shares[metric][2]
         \/ 5 * shares[metric][1] <= shares[metric][2]
  BY <1>2, <1>6
<1>8. /\ Insights[metric] = "pos" => 5 * shares[metric][1] >= 4 * shares[metric][2]
      /\ Insights[metric] = "neg" => 5 * shares[metric][1] <= shares[metric][2]
  BY <1>5, <1>6, <1>7
<1> QED
  BY <1>3, <1>6, <1>7, <1>8

\* Of each metric either the higher or the lower figure is the better one.
LEMMA HigherTyped ==
  ASSUME NEW metric \in METRICS
  PROVE  HigherIsBetter[metric] \in BOOLEAN
<1>1. metric \in {"revenueGrowth", "operatingMargin", "netMargin", "roe", "debtToEquity"}
  BY DEF METRICS, HigherIsBetter
<1>2. HigherIsBetter[metric] = TRUE \/ HigherIsBetter[metric] = FALSE
  BY <1>1 DEF HigherIsBetter
<1> QED
  BY <1>2

\* Ranks and insights follow the metrics of the page.
LEMMA RanksFollow ==
  ASSUME ViewInv
  PROVE  RanksFollowMetrics
<1> SUFFICES ASSUME NEW metric \in METRICS
             PROVE  LET group == Group(metric)
                        Beats(v, w) == IF HigherIsBetter[metric] THEN Less(w, v) ELSE Less(v, w)
                        Beating(v)   == Cardinality({i \in DOMAIN group : Beats(group[i], v)})
                        Beaten(v)    == Cardinality({i \in DOMAIN group : Beats(v, group[i])})
                        take == PeerPage.quickTake
                        told == IF "told" \in DOMAIN take THEN DOMAIN take.told ELSE {}
                    IN
                    /\ \A i, j \in DOMAIN group :
                         Beats(group[i], group[j]) = Less(Rank(metric, group[j]), Rank(metric, group[i]))
                    /\ Len(group) > 1 =>
                         SumOf(Mapped(group, LAMBDA v : Rank(metric, v)[1])) = Len(group) * (Len(group) - 1)
                    /\ metric \in told /\ take.told[metric] = "pos" =>
                         5 * Beating(companies[1][metric]) <= Len(group) - 1
                    /\ metric \in told /\ take.told[metric] = "neg" =>
                         5 * Beaten(companies[1][metric]) <= Len(group) - 1
  BY DEF RanksFollowMetrics
<1>1. PICK n \in Nat : /\ Group(metric) \in [1 .. n -> Figures]
                       /\ IsFigure(companies[1][metric]) =>
                            \E k \in 1 .. n : Group(metric)[k] = companies[1][metric]
  <2>1. PICK places \in SUBSET DOMAIN companies : places = {1} \cup ActivePeers
    BY PlacesOfPage
  <2>2. Group(metric) = FiguresOf(metric, places) /\ 1 \in places
    BY <2>1 DEF Group
  <2>3. PICK n \in Nat :
          /\ FiguresOf(metric, places) \in [1 .. n -> Figures]
          /\ \A c \in places : IsFigure(companies[c][metric]) =>
               \E k \in 1 .. n : FiguresOf(metric, places)[k] = companies[c][metric]
    BY FiguresAre
  <2> QED
    BY <2>2, <2>3
<1>2. PICK group \in [1 .. n -> Figures] : group = Group(metric)
  BY <1>1
<1>3. PICK higher \in BOOLEAN : higher = HigherIsBetter[metric]
  BY HigherTyped
<1>4. DOMAIN group = 1 .. n /\ Len(group) = n
  OBVIOUS
<1>5. \A v : Rank(metric, v) = Percentile(group, v, higher)
  BY <1>2, <1>3 DEF Rank
<1>6. \A i, j \in DOMAIN group :
        (IF higher THEN Less(group[j], group[i]) ELSE Less(group[i], group[j]))
          = Less(Rank(metric, group[j]), Rank(metric, group[i]))
  BY <1>4, <1>5, BetterRanksHigher DEF Better
<1>7. n > 1 => SumOf(Mapped(group, LAMBDA v : Rank(metric, v)[1])) = n * (n - 1)
  <2>1. Mapped(group, LAMBDA v : Rank(metric, v)[1]) =
          [i \in 1 .. n |-> Percentile(group, group[i], higher)[1]]
    BY <1>4, <1>5 DEF Mapped
  <2> QED
    BY <2>1, RanksAverage
<1>8. PICK take : take = PeerPage.quickTake
  OBVIOUS
<1>9. ASSUME metric \in (IF "told" \in DOMAIN take THEN DOMAIN take.told ELSE {})
      PROVE  take.told = Insights /\ metric \in DOMAIN Insights
  <2>1. take = QuickTake
    BY <1>8 DEF PeerPage
  <2>2. "told" \in DOMAIN QuickTake /\ metric \in DOMAIN take.told
    BY <1>9, <2>1
  <2>3. PICK note : note = IF Peers = {} THEN "noPeerData" ELSE "inLineWithPeers"
    OBVIOUS
  <2>4. QuickTake = IF DOMAIN Insights # {} THEN [told |-> Insights] ELSE [note |-> note]
    BY <2>3, Zenon DEF QuickTake
  <2>5. QuickTake = [told |-> Insights]
    BY <2>2, <2>4
  <2> QED
    BY <2>1, <2>2, <2>5
<1>10. ASSUME metric \in (IF "told" \in DOMAIN take THEN DOMAIN take.told ELSE {})
       PROVE  /\ take.told[metric] = "pos" =>
                   5 * Cardinality({i \in DOMAIN group : Better(higher, group[i], companies[1][metric])}) <= n - 1
              /\ take.told[metric] = "neg" =>
                   5 * Cardinality({i \in DOMAIN group : Better(higher, companies[1][metric], group[i])}) <= n - 1
  <2>1. take.told = Insights /\ metric \in DOMAIN Insights
    BY <1>9, <1>10
  <2>2. PICK v, share : v = companies[1][metric] /\ share = Percentile(group, v, higher)
    OBVIOUS
  <2>3. /\ IsFigure(v) /\ n >= 2
        /\ take.told[metric] = "pos" => 5 * share[1] >= 4 * share[2]
        /\ take.told[metric] = "neg" => 5 * share[1] <= share[2]
    BY <1>2, <1>4, <1>5, <2>1, <2>2, InsightIs
  <2>4. PICK k \in 1 .. n : v = group[k]
    BY <1>1, <1>2, <2>2, <2>3
  <2>5. /\ 5 * share[1] >= 4 * share[2] =>
             5 * Cardinality({j \in DOMAIN group : Better(higher, group[j], v)}) <= n - 1
        /\ 5 * share[1] <= share[2] =>
             5 * Cardinality({j \in DOMAIN group : Better(higher, v, group[j])}) <= n - 1
    <3>1. n > 1
      BY <2>3
    <3> HIDE <2>3
    <3> QED
      BY <2>2, <2>4, <3>1, BestAndWorst
  <2> QED
    BY <2>2, <2>3, <2>5
<1> QED
  BY <1>2, <1>3, <1>4, <1>6, <1>7, <1>8, <1>10 DEF Better

------------------------------------------------------------------------------
(* Table and radar. *)

\* The radius at which RadarChart draws a rank.
Ring(rank) == IF rank < 0 THEN 0 ELSE IF rank > 100 THEN 100 ELSE rank

\* Where a figure is drawn, ranked in a group.
Drawn(group, v, higher) == Ring(AsPercent(Percentile(group, v, higher)))

\* The better figure is not drawn further in.
LEMMA DrawnGrows ==
  ASSUME NEW n \in Nat, NEW group \in [1 .. n -> Figures], NEW higher \in BOOLEAN,
         NEW v \in Figures, NEW w \in Figures, ~Less(w, v)
  PROVE  /\ higher => Drawn(group, v, higher) <= Drawn(group, w, higher)
         /\ ~higher => Drawn(group, w, higher) <= Drawn(group, v, higher)
<1>1. PICK t, u \in Int : t = Twice(group, v) /\ u = Twice(group, w)
  BY PercentileIs
<1>2. t <= u
  BY <1>1, TwiceGrows
<1>3. ASSUME NEW x \in Int, NEW y \in Int, NEW d \in Nat \ {0}, x <= y
      PROVE  Ring(AsPercent(<<x, d>>)) <= Ring(AsPercent(<<y, d>>))
  <2>1. PICK a, b \in Int : a = 2 * (100 * x) + d /\ b = 2 * (100 * y) + d
    OBVIOUS
  <2>2. PICK k \in Nat \ {0} : k = 2 * d
    OBVIOUS
  <2>3. a <= b
    BY <1>3, <2>1
  <2>4. \A i, j \in Int, m \in Nat \ {0} : i <= j => i \div m <= j \div m /\ i \div m \in Int /\ j \div m \in Int
    OBVIOUS
  <2>5. AsPercent(<<x, d>>) = a \div k /\ AsPercent(<<y, d>>) = b \div k
    BY <2>1, <2>2 DEF AsPercent, Rounded
  <2>6. PICK r, s \in Int : r = a \div k /\ s = b \div k /\ r <= s
    BY <2>3, <2>4
  <2> QED
    BY <2>5, <2>6 DEF Ring
<1>4. CASE n > 1
  <2>1. PICK d \in Nat \ {0} : d = 2 * (n - 1)
    BY <1>4
  <2>2. /\ Percentile(group, v, higher) = <<IF higher THEN t ELSE d - t, d>>
        /\ Percentile(group, w, higher) = <<IF higher THEN u ELSE d - u, d>>
    BY <1>1, <1>4, <2>1, PercentileIs
  <2>3. CASE higher
    <3>1. Percentile(group, v, higher) = <<t, d>> /\ Percentile(group, w, higher) = <<u, d>>
      BY <2>2, <2>3
    <3> QED
      BY <1>2, <1>3, <2>3, <3>1 DEF Drawn
  <2>4. CASE ~higher
    <3>1. PICK x, y \in Int : x = d - t /\ y = d - u /\ y <= x
      BY <1>2
    <3>2. Percentile(group, v, higher) = <<x, d>> /\ Percentile(group, w, higher) = <<y, d>>
      BY <2>2, <2>4, <3>1
    <3> QED
      BY <1>3, <2>4, <3>1, <3>2 DEF Drawn
  <2> QED
    BY <2>3, <2>4
<1>5. CASE n <= 1
  <2>1. Percentile(group, v, higher) = <<1, 2>> /\ Percentile(group, w, higher) = <<1, 2>>
    BY <1>5, PercentileIs
  <2>2. Ring(AsPercent(<<1, 2>>)) <= Ring(AsPercent(<<1, 2>>))
    BY <1>3
  <2> QED
    BY <2>1, <2>2 DEF Drawn
<1> QED
  BY <1>4, <1>5

\* The average of two figures lies between them.
LEMMA AverageBetween ==
  ASSUME NEW a \in Figures, NEW b \in Figures, ~Less(b, a)
  PROVE  Average(a, b) \in Figures /\ ~Less(Average(a, b), a) /\ ~Less(b, Average(a, b))
<1>1. PICK p, r \in Int, q, s \in Nat \ {0} : a = <<p, q>> /\ b = <<r, s>>
  BY DEF Figures
<1>2. PICK x, y \in Int : x = p * s /\ y = r * q
  OBVIOUS
<1>3. x <= y
  BY <1>1, <1>2 DEF Less
<1>4. PICK d \in Nat \ {0} : d = 2 * q * s
  <2>1. \A i, j \in Nat \ {0} : 2 * i * j \in Nat \ {0}
    OBVIOUS
  <2> QED
    BY <2>1
<1>5. Average(a, b) = <<x + y, d>>
  BY <1>1, <1>2, <1>4 DEF Average
<1>6. \A i, j \in Int, k \in Nat : i <= j => i * k <= j * k
  OBVIOUS
<1>7. ~Less(Average(a, b), a)
  <2>1. p * d = 2 * (x * q) /\ x * q \in Int /\ y * q \in Int
    BY <1>2, <1>4
  <2>2. x * q <= y * q
    BY <1>3, <1>6
  <2>3. (x + y) * q = x * q + y * q
    OBVIOUS
  <2>4. ~((x + y) * q < p * d)
    BY <2>1, <2>2, <2>3
  <2> QED
    BY <1>1, <1>5, <2>4 DEF Less
<1>8. ~Less(b, Average(a, b))
  <2>1. r * d = 2 * (y * s) /\ x * s \in Int /\ y * s \in Int
    BY <1>2, <1>4
  <2>2. x * s <= y * s
    BY <1>3, <1>6
  <2>3. (x + y) * s = x * s + y * s
    OBVIOUS
  <2>4. ~(r * d < (x + y) * s)
    BY <2>1, <2>2, <2>3
  <2> QED
    BY <1>1, <1>5, <2>4 DEF Less
<1>9. Average(a, b) \in Figures
  BY <1>5 DEF Figures
<1> QED
  BY <1>7, <1>8, <1>9

\* The median of some figures lies between two of them.
LEMMA MedianBetween ==
  ASSUME NEW n \in Nat \ {0}, NEW values \in [1 .. n -> Figures]
  PROVE  /\ Median(values) \in Figures
         /\ \E i, j \in 1 .. n : ~Less(Median(values), values[i]) /\ ~Less(values[j], Median(values))
<1>1. values \in Seq(Figures) /\ DOMAIN values = 1 .. n
  OBVIOUS
<1>2. PICK B : B = {p \in (1 .. n) \X (1 .. n) : Less(values[p[1]], values[p[2]])}
  OBVIOUS
<1>3. \A i, j \in 1 .. n : <<i, j>> \in B <=> Less(values[i], values[j])
  BY <1>2
<1>4. \A i \in 1 .. n : values[i] \in Figures
  OBVIOUS
<1>5. WeakOn(DOMAIN values, B)
  <2>1. \A i \in 1 .. n : <<i, i>> \notin B
    BY <1>3, <1>4, FiguresOrdered
  <2>2. ASSUME NEW i \in 1 .. n, NEW j \in 1 .. n, NEW k \in 1 .. n, <<i, j>> \in B, <<j, k>> \in B
        PROVE  <<i, k>> \in B
    <3>1. Less(values[i], values[j]) /\ Less(values[j], values[k])
      BY <1>3, <2>2
    <3> QED
      BY <1>3, <1>4, <3>1, FiguresOrdered, LessTransitive
  <2>3. ASSUME NEW i \in 1 .. n, NEW j \in 1 .. n, NEW k \in 1 .. n, <<i, k>> \in B
        PROVE  <<i, j>> \in B \/ <<j, k>> \in B
    <3>1. Less(values[i], values[k])
      BY <1>3, <2>3
    <3>2. Less(values[i], values[j]) \/ Less(values[j], values[k])
      BY <1>4, <3>1, FiguresOrdered, LessTransitive
    <3> QED
      BY <1>3, <3>2
  <2> QED
    BY <1>1, <2>1, <2>2, <2>3 DEF WeakOn
<1>6. PICK s : s = Sorted(values, B)
  OBVIOUS
<1>7. PICK o : o = By(values, B)
  OBVIOUS
<1>8. /\ s \in Seq(Figures) /\ DOMAIN s = 1 .. n
      /\ \A k \in 1 .. n : o[k] \in 1 .. n /\ s[k] = values[o[k]]
      /\ \A j, k \in 1 .. n : j < k => <<o[k], o[j]>> \notin B
  <2>1. s \in Seq(Figures) /\ DOMAIN s = 1 .. n
    BY <1>1, <1>5, <1>6, SortedIs
  <2>2. \A k \in 1 .. n : o[k] \in 1 .. n /\ s[k] = values[o[k]]
    <3>1. \A k \in DOMAIN values :
            By(values, B)[k] \in DOMAIN values /\ Sorted(values, B)[k] = values[By(values, B)[k]]
      <4>1. PICK list : list = values
        OBVIOUS
      <4>2. list \in Seq(Figures) /\ WeakOn(DOMAIN list, B)
        BY <1>1, <1>5, <4>1
      <4>3. \A k \in DOMAIN list : By(list, B)[k] \in DOMAIN list /\ Sorted(list, B)[k] = list[By(list, B)[k]]
        BY <4>2, SortedIs
      <4> QED
        BY <4>1, <4>3, Zenon
    <3> QED
      BY <1>1, <1>6, <1>7, <3>1
  <2>3. \A j, k \in 1 .. n : j < k => <<o[k], o[j]>> \notin B
    BY <1>1, <1>5, <1>7, SortedIs
  <2> QED
    BY <2>1, <2>2, <2>3
<1>9. Len(s) = n /\ s # <<>>
  BY <1>8
<1>10. StableSort(values, Less) = s
  BY <1>1, <1>2, <1>6 DEF StableSort
<1>11. PICK mid \in Nat : mid = n \div 2
  OBVIOUS
<1>12. Median(values) = IF n % 2 = 1 THEN s[mid + 1] ELSE Average(s[mid], s[mid + 1])
  BY <1>9, <1>10, <1>11 DEF Median
<1>13. \A k \in 1 .. n : s[k] \in Figures
  BY <1>4, <1>8
<1>14. CASE n % 2 = 1
  <2>1. mid + 1 \in 1 .. n
    BY <1>11, <1>14
  <2>2. Median(values) = s[mid + 1]
    BY <1>12, <1>14
  <2>3. ~Less(s[mid + 1], s[mid + 1])
    BY <1>13, <2>1, FiguresOrdered
  <2> QED
    BY <1>8, <1>13, <2>1, <2>2, <2>3
<1>15. CASE n % 2 # 1
  <2>1. mid \in 1 .. n /\ mid + 1 \in 1 .. n /\ mid < mid + 1
    BY <1>11, <1>15
  <2>2. PICK a, b \in Figures : a = s[mid] /\ b = s[mid + 1]
    BY <1>13, <2>1
  <2>3. ~Less(b, a)
    BY <1>3, <1>8, <2>1, <2>2
  <2>4. Median(values) = Average(a, b)
    BY <1>12, <1>15, <2>2
  <2>5. Median(values) \in Figures /\ ~Less(Median(values), a) /\ ~Less(b, Median(values))
    BY <2>3, <2>4, AverageBetween
  <2>6. a = values[o[mid]] /\ b = values[o[mid + 1]] /\ o[mid] \in 1 .. n /\ o[mid + 1] \in 1 .. n
    BY <1>8, <2>1, <2>2
  <2> QED
    BY <2>5, <2>6
<1> QED
  BY <1>14, <1>15

\* Which of two figures a sorted table shows first; none comes last.
First(descends, x, y) ==
  IF ~IsFigure(x) THEN FALSE ELSE IF ~IsFigure(y) THEN TRUE
  ELSE IF descends THEN Less(y, x) ELSE Less(x, y)

\* That is an order, whichever way the column is sorted.
LEMMA FirstIsWeak ==
  ASSUME NEW d \in BOOLEAN, NEW x \in Figures \cup {NoValue}, NEW y \in Figures \cup {NoValue},
         NEW z \in Figures \cup {NoValue}
  PROVE  /\ ~First(d, x, x)
         /\ First(d, x, y) /\ First(d, y, z) => First(d, x, z)
         /\ First(d, x, z) => First(d, x, y) \/ First(d, y, z)
<1>1. NoValue \notin Figures
  BY ViewAssumption DEF Figures
<1>2. \A v \in Figures \cup {NoValue} : IsFigure(v) <=> v \in Figures
  BY <1>1 DEF IsFigure
<1>3. ~First(d, x, x)
  BY <1>2, FiguresOrdered DEF First
<1>4. ASSUME First(d, x, y), First(d, y, z) PROVE First(d, x, z)
  <2>1. x \in Figures /\ y \in Figures
    BY <1>2, <1>4 DEF First
  <2>2. CASE z \in Figures
    <3>1. IF d THEN Less(y, x) /\ Less(z, y) ELSE Less(x, y) /\ Less(y, z)
      BY <1>2, <1>4, <2>1, <2>2 DEF First
    <3>2. IF d THEN Less(z, x) ELSE Less(x, z)
      BY <2>1, <2>2, <3>1, FiguresOrdered, LessTransitive
    <3> QED
      BY <1>2, <2>1, <2>2, <3>2 DEF First
  <2>3. CASE z \notin Figures
    BY <1>2, <2>1, <2>3 DEF First
  <2> QED
    BY <2>2, <2>3
<1>5. ASSUME First(d, x, z) PROVE First(d, x, y) \/ First(d, y, z)
  <2>1. x \in Figures
    BY <1>2, <1>5 DEF First
  <2>2. CASE y \in Figures /\ z \in Figures
    <3>1. IF d THEN Less(z, x) ELSE Less(x, z)
      BY <1>2, <1>5, <2>1, <2>2 DEF First
    <3>2. IF d THEN Less(y, x) \/ Less(z, y) ELSE Less(x, y) \/ Less(y, z)
      BY <2>1, <2>2, <3>1, FiguresOrdered, LessTransitive
    <3> QED
      BY <1>2, <2>1, <2>2, <3>2 DEF First
  <2>3. CASE y \notin Figures
    BY <1>2, <2>1, <2>3 DEF First
  <2>4. CASE y \in Figures /\ z \notin Figures
    BY <1>2, <2>4 DEF First
  <2> QED
    BY <2>2, <2>3, <2>4
<1> QED
  BY <1>3, <1>4, <1>5

\* Which of two companies the sorted table lists first.
RowBefore(a, b) == First(sorting.descends, companies[a][sorting.key], companies[b][sorting.key])

\* Every peer is listed once; sorted, none before one it comes after.
Listed(m, o) ==
  /\ o \in [1 .. m -> 1 .. m] /\ SortedPeers = [k \in 1 .. m |-> o[k] + 1]
  /\ \A i \in 1 .. m : \E k \in 1 .. m : o[k] = i
  /\ \A j, k \in 1 .. m : o[j] = o[k] => j = k
  /\ sorting # NoValue => \A j, k \in 1 .. m : j < k => ~RowBefore(o[k] + 1, o[j] + 1)

\* Whatever it is sorted by, sortedPeers is such a list.
LEMMA RowsAre ==
  ASSUME ViewInv, NEW m, m = Len(companies) - 1
  PROVE  \E o : Listed(m, o)
<1>1. m \in Nat /\ DOMAIN companies = 1 .. m + 1 /\ \A i \in 1 .. m : i + 1 \in DOMAIN companies
  BY DEF ViewInv
<1>2. PICK rows : rows = [i \in 1 .. m |-> i + 1]
  OBVIOUS
<1>3. DOMAIN rows = 1 .. m /\ \A i \in 1 .. m : rows[i] = i + 1
  BY <1>2
<1>4. CASE sorting = NoValue
  <2>1. PICK o \in [1 .. m -> 1 .. m] : o = [i \in 1 .. m |-> i]
    OBVIOUS
  <2>2. SortedPeers = rows
    BY <1>2, <1>4 DEF SortedPeers
  <2>3. SortedPeers = [k \in 1 .. m |-> o[k] + 1]
    BY <1>2, <2>1, <2>2
  <2>4. Listed(m, o)
    BY <1>4, <2>1, <2>3 DEF Listed
  <2> QED
    BY <2>4
<1>5. CASE sorting # NoValue
  <2>1. rows \in Seq(Nat)
    BY <1>1, <1>2
  <2>2. PICK B : B = {p \in (1 .. m) \X (1 .. m) : RowBefore(rows[p[1]], rows[p[2]])}
    OBVIOUS
  <2>3. \A i, j \in 1 .. m : <<i, j>> \in B <=> RowBefore(i + 1, j + 1)
    BY <1>3, <2>2
  <2>4. /\ sorting.descends \in BOOLEAN /\ sorting.key \in METRICS
        /\ \A i \in 1 .. m : companies[i + 1][sorting.key] \in Figures \cup {NoValue}
    <3>1. sorting \in [key: METRICS, descends: BOOLEAN]
      BY <1>5 DEF ViewInv
    <3>2. \A c \in DOMAIN companies : companies[c] \in Metrics
      BY DEF ViewInv
    <3>3. \A i \in 1 .. m : companies[i + 1] \in Metrics
      BY <1>1, <3>2
    <3> QED
      BY <3>1, <3>3 DEF Metrics
  <2>5. WeakOn(DOMAIN rows, B)
    <3>1. \A i \in 1 .. m : <<i, i>> \notin B
      BY <2>3, <2>4, FirstIsWeak DEF RowBefore
    <3>2. ASSUME NEW i \in 1 .. m, NEW j \in 1 .. m, NEW k \in 1 .. m
          PROVE  /\ <<i, j>> \in B /\ <<j, k>> \in B => <<i, k>> \in B
                 /\ <<i, k>> \in B => <<i, j>> \in B \/ <<j, k>> \in B
      <4>1. PICK x, y, z \in Figures \cup {NoValue} :
              /\ x = companies[i + 1][sorting.key] /\ y = companies[j + 1][sorting.key]
              /\ z = companies[k + 1][sorting.key]
        BY <2>4
      <4>2. PICK d \in BOOLEAN : d = sorting.descends
        BY <2>4
      <4>3. /\ First(d, x, y) /\ First(d, y, z) => First(d, x, z)
            /\ First(d, x, z) => First(d, x, y) \/ First(d, y, z)
        BY FirstIsWeak
      <4>4. /\ <<i, j>> \in B <=> First(d, x, y)
            /\ <<j, k>> \in B <=> First(d, y, z)
            /\ <<i, k>> \in B <=> First(d, x, z)
        BY <2>3, <4>1, <4>2 DEF RowBefore
      <4> QED
        BY <4>3, <4>4
    <3>3. \A i, j, k \in 1 .. m : <<i, j>> \in B /\ <<j, k>> \in B => <<i, k>> \in B
      BY <3>2, Zenon
    <3>4. \A i, j, k \in 1 .. m : <<i, k>> \in B => <<i, j>> \in B \/ <<j, k>> \in B
      BY <3>2, Zenon
    <3> QED
      BY <1>3, <3>1, <3>3, <3>4, Zenon DEF WeakOn
  <2>6. SortedPeers = Sorted(rows, B)
    <3>1. SortedPeers = StableSort(rows, RowBefore)
      BY <1>2, <1>5 DEF SortedPeers, RowBefore, First
    <3> QED
      BY <1>3, <2>2, <3>1 DEF StableSort
  <2>7. PICK o : o = By(rows, B)
    OBVIOUS
  <2>8. \A k \in 1 .. m : o[k] \in 1 .. m /\ Sorted(rows, B)[k] = rows[o[k]]
    <3>1. \A k \in DOMAIN rows : By(rows, B)[k] \in DOMAIN rows /\ Sorted(rows, B)[k] = rows[By(rows, B)[k]]
      BY <2>1, <2>5, SortedIs
    <3> QED
      BY <1>3, <2>7, <3>1
  <2>9. /\ \A i \in 1 .. m : \E k \in 1 .. m : o[k] = i
        /\ \A j, k \in 1 .. m : o[j] = o[k] => j = k
        /\ \A j, k \in 1 .. m : j < k => <<o[k], o[j]>> \notin B
    <3>1. /\ \A i \in DOMAIN rows : \E k \in DOMAIN rows : By(rows, B)[k] = i
          /\ \A j, k \in DOMAIN rows : By(rows, B)[j] = By(rows, B)[k] => j = k
      BY <2>1, <2>5, SortedIs
    <3>2. \A j, k \in DOMAIN rows : j < k => <<By(rows, B)[k], By(rows, B)[j]>> \notin B
      BY <2>1, <2>5, SortedIs
    <3> QED
      BY <1>3, <2>7, <3>1, <3>2
  <2>10. DOMAIN Sorted(rows, B) = 1 .. m /\ Sorted(rows, B) = [k \in 1 .. m |-> Sorted(rows, B)[k]]
    BY <1>3 DEF Sorted
  <2>11. Sorted(rows, B) = [k \in 1 .. m |-> o[k] + 1]
    BY <1>3, <2>8, <2>10
  <2>12. PICK f \in [1 .. m -> 1 .. m] : f = [k \in 1 .. m |-> o[k]]
    BY <2>8
  <2>13. \A k \in 1 .. m : f[k] = o[k]
    BY <2>12
  <2>14. SortedPeers = [k \in 1 .. m |-> f[k] + 1]
    BY <2>6, <2>11, <2>13
  <2>15. \A j, k \in 1 .. m : j < k => ~RowBefore(f[k] + 1, f[j] + 1)
    BY <2>3, <2>8, <2>9, <2>13
  <2>16. \A i \in 1 .. m : \E k \in 1 .. m : f[k] = i
    BY <2>9, <2>13
  <2>17. \A j, k \in 1 .. m : f[j] = f[k] => j = k
    <3>1. \A j, k \in 1 .. m : f[j] = f[k] => o[j] = o[k]
      BY <2>13
    <3> QED
      BY <2>9, <3>1
  <2>18. Listed(m, f)
    BY <2>14, <2>15, <2>16, <2>17 DEF Listed
  <2> QED
    BY <2>18
<1> QED
  BY <1>4, <1>5

\* Peers are as many as the rows, and as many rows are dimmed as peers excluded.
LEMMA RowsCounted ==
  ASSUME ViewInv
  PROVE  /\ ToSet(SortedPeers) = Peers /\ Len(SortedPeers) = Cardinality(Peers)
         /\ Len(SortedPeers) - Cardinality({i \in DOMAIN SortedPeers : SortedPeers[i] \in excluded})
              = Cardinality(ActivePeers)
         /\ Len(SortedPeers) = Len(companies) - 1 /\ DOMAIN SortedPeers = 1 .. Len(companies) - 1
         /\ \A i \in DOMAIN SortedPeers : SortedPeers[i] \in Peers
<1>1. PICK m \in Nat : m = Len(companies) - 1 /\ Peers = 2 .. m + 1
  BY DEF ViewInv, Peers
<1>2. PICK o \in [1 .. m -> 1 .. m] :
        /\ SortedPeers = [k \in 1 .. m |-> o[k] + 1]
        /\ \A i \in 1 .. m : \E k \in 1 .. m : o[k] = i
        /\ \A j, k \in 1 .. m : o[j] = o[k] => j = k
  <2>1. PICK o : Listed(m, o)
    BY <1>1, RowsAre
  <2> QED
    BY <2>1 DEF Listed
<1>3. PICK rows : rows = SortedPeers
  OBVIOUS
<1>4. DOMAIN rows = 1 .. m /\ Len(rows) = m /\ \A k \in 1 .. m : rows[k] = o[k] + 1 /\ rows[k] \in Peers
  <2>1. DOMAIN rows = 1 .. m /\ Len(rows) = m /\ \A k \in 1 .. m : rows[k] = o[k] + 1
    BY <1>2, <1>3
  <2>2. \A k \in 1 .. m : o[k] + 1 \in 2 .. m + 1
    OBVIOUS
  <2> QED
    BY <1>1, <2>1, <2>2
<1>5. \A c \in Peers : \E k \in 1 .. m : rows[k] = c
  <2> SUFFICES ASSUME NEW c \in Peers PROVE \E k \in 1 .. m : rows[k] = c
    OBVIOUS
  <2>1. c - 1 \in 1 .. m /\ c \in Int
    BY <1>1
  <2>2. PICK k \in 1 .. m : o[k] = c - 1
    BY <1>2, <2>1
  <2> QED
    BY <1>4, <2>1, <2>2
<1>6. \A j, k \in 1 .. m : rows[j] = rows[k] => j = k
  <2>1. \A k \in 1 .. m : o[k] \in Int
    OBVIOUS
  <2> QED
    BY <1>2, <1>4, <2>1
<1>7. ToSet(rows) = Peers
  BY <1>4, <1>5 DEF ToSet
<1>8. IsFiniteSet(Peers) /\ Cardinality(Peers) = m
  <2>1. IsFiniteSet(2 .. m + 1) /\ Cardinality(2 .. m + 1) = IF 2 > m + 1 THEN 0 ELSE m + 1 - 2 + 1
    BY FS_Interval
  <2> QED
    BY <1>1, <2>1
<1>9. excluded \subseteq Peers /\ ActivePeers = Peers \ excluded
  BY DEF ViewInv, ActivePeers
<1>10. PICK D : D = {i \in 1 .. m : rows[i] \in excluded}
  OBVIOUS
<1>11. Cardinality(D) = Cardinality(excluded) /\ IsFiniteSet(excluded)
  <2>1. PICK f : f = [i \in D |-> rows[i]]
    OBVIOUS
  <2>2. f \in [D -> excluded] /\ \A i \in D : f[i] = rows[i]
    BY <1>10, <2>1
  <2>3. \A i, j \in D : f[i] = f[j] => i = j
    BY <1>6, <1>10, <2>2
  <2>4. \A c \in excluded : \E i \in D : f[i] = c
    BY <1>5, <1>9, <1>10, <2>2
  <2>5. f \in Bijection(D, excluded)
    BY <2>2, <2>3, <2>4 DEF Bijection, Injection, Surjection, IsInjective
  <2>6. IsFiniteSet(D)
    <3>1. IsFiniteSet(1 .. m) /\ D \subseteq 1 .. m
      BY <1>10, CountedTo
    <3> QED
      BY <3>1, FS_Subset
  <2>7. IsFiniteSet(excluded)
    BY <1>8, <1>9, FS_Subset
  <2>8. ExistsBijection(D, excluded)
    BY <2>5 DEF ExistsBijection
  <2> QED
    BY <2>6, <2>7, <2>8, FS_Bijection
<1>12. Cardinality(ActivePeers) = m - Cardinality(excluded) /\ Cardinality(excluded) \in Nat
  <2>1. Cardinality(Peers \ excluded) = Cardinality(Peers) - Cardinality(Peers \cap excluded)
    BY <1>8, FS_Difference
  <2>2. Peers \cap excluded = excluded
    BY <1>9
  <2>3. Cardinality(excluded) \in Nat
    BY <1>11, FS_CardinalityType
  <2> QED
    BY <1>8, <1>9, <2>1, <2>2, <2>3
<1>13. m - Cardinality(D) = Cardinality(ActivePeers)
  BY <1>11, <1>12
<1> QED
  BY <1>1, <1>3, <1>4, <1>7, <1>8, <1>10, <1>13

------------------------------------------------------------------------------
(* Where the radar draws what. *)

\* The radar is drawn from the ranks in the group of each metric.
LEMMA RadarIs ==
  ASSUME ActivePeers # {}, NEW metric \in METRICS, NEW group, group = Group(metric),
         NEW higher, higher = HigherIsBetter[metric],
         NEW median, median = Median(FiguresOf(metric, ActivePeers))
  PROVE  /\ \A c \in ActivePeers : IsFigure(companies[c][metric]) =>
              RadarChart.peers[c][metric] = Drawn(group, companies[c][metric], higher)
         /\ RadarChart.median[metric] =
              Ring(IF IsFigure(median) THEN AsPercent(Percentile(group, median, higher)) ELSE 50)
<1>1. \A v : Rank(metric, v) = Percentile(group, v, higher)
  BY DEF Rank
<1>2. PICK drawn : drawn = [c \in {d \in ActivePeers : IsFigure(companies[d][metric])} |->
                              AsPercent(Rank(metric, companies[c][metric]))]
  OBVIOUS
<1>3. Radar[metric] =
        [target |-> IF IsFigure(companies[1][metric]) THEN AsPercent(Rank(metric, companies[1][metric])) ELSE 0,
         median |-> IF IsFigure(median) THEN AsPercent(Rank(metric, median)) ELSE 50,
         peers  |-> drawn]
  BY <1>2 DEF Radar
<1>4. /\ Radar[metric].median = IF IsFigure(median) THEN AsPercent(Rank(metric, median)) ELSE 50
      /\ Radar[metric].peers = drawn
  BY <1>3
<1>5. RadarChart.median[metric] = Ring(Radar[metric].median)
  BY DEF RadarChart, Ring
<1>6. ASSUME NEW c \in ActivePeers, IsFigure(companies[c][metric])
      PROVE  RadarChart.peers[c][metric] = Drawn(group, companies[c][metric], higher)
  <2>1. c \in DOMAIN drawn /\ drawn[c] = AsPercent(Rank(metric, companies[c][metric]))
    BY <1>2, <1>6
  <2>2. c \in DOMAIN Radar[metric].peers /\ Radar[metric].peers[c] = drawn[c]
    BY <1>4, <2>1
  <2>3. RadarChart.peers[c][metric] = Ring(Radar[metric].peers[c])
    BY <2>2 DEF RadarChart, Ring
  <2> QED
    BY <1>1, <2>1, <2>2, <2>3 DEF Drawn
<1> QED
  BY <1>1, <1>4, <1>5, <1>6

\* What a page shows instead of a radar, and which of the two it shows.
LEMMA PageIs ==
  /\ PeerPage.radar = IF ActivePeers = {} THEN EmptyPeersNote ELSE RadarChart
  /\ PeerPage.table = PeerTable /\ PeerPage.active = Cardinality(ActivePeers)
  /\ PeerPage.of = Cardinality(Peers)
  /\ DOMAIN EmptyPeersNote = {"note"} /\ DOMAIN RadarChart = {"target", "median", "peers"}
  /\ EmptyPeersNote.note = "noBundledPeers" => universe = 0
  /\ PeerTable.rows = SortedPeers
  /\ PeerTable.dimmed = {i \in DOMAIN SortedPeers : SortedPeers[i] \in excluded}
<1>1. /\ PeerPage.radar = IF ActivePeers = {} THEN EmptyPeersNote ELSE RadarChart
      /\ PeerPage.table = PeerTable /\ PeerPage.active = Cardinality(ActivePeers)
      /\ PeerPage.of = Cardinality(Peers)
  BY DEF PeerPage
<1>2. DOMAIN EmptyPeersNote = {"note"} /\ (EmptyPeersNote.note = "noBundledPeers" => universe = 0)
  BY DEF EmptyPeersNote
<1>3. DOMAIN RadarChart = {"target", "median", "peers"}
  BY DEF RadarChart
<1>4. /\ PeerTable.rows = SortedPeers
      /\ PeerTable.dimmed = {i \in DOMAIN SortedPeers : SortedPeers[i] \in excluded}
  BY DEF PeerTable
<1> QED
  BY <1>1, <1>2, <1>3, <1>4

\* On the way down a sorted table the ranks of the charted peers never turn back.
LEMMA OrderTold ==
  ASSUME ViewInv, sorting # NoValue, NEW rows, rows = SortedPeers,
         NEW i \in DOMAIN rows, NEW j \in DOMAIN rows, i < j,
         IsFigure(companies[rows[j]][sorting.key])
  PROVE  /\ IsFigure(companies[rows[i]][sorting.key])
         /\ {rows[i], rows[j]} \subseteq ActivePeers =>
              IF sorting.descends = HigherIsBetter[sorting.key]
              THEN RadarChart.peers[rows[j]][sorting.key] <= RadarChart.peers[rows[i]][sorting.key]
              ELSE RadarChart.peers[rows[i]][sorting.key] <= RadarChart.peers[rows[j]][sorting.key]
<1>1. PICK m \in Nat : m = Len(companies) - 1
  BY DEF ViewInv
<1>2. PICK o : Listed(m, o)
  BY <1>1, RowsAre
<1>3. rows = [k \in 1 .. m |-> o[k] + 1]
  BY <1>2 DEF Listed
<1>4. i \in 1 .. m /\ j \in 1 .. m /\ rows[i] = o[i] + 1 /\ rows[j] = o[j] + 1
  BY <1>3
<1>5. ~RowBefore(rows[j], rows[i])
  BY <1>2, <1>4 DEF Listed
<1>6. PICK metric \in METRICS, d \in BOOLEAN : metric = sorting.key /\ d = sorting.descends
  BY DEF ViewInv
<1>7. PICK a, b : a = rows[i] /\ b = rows[j]
  OBVIOUS
<1>8. a \in DOMAIN companies /\ b \in DOMAIN companies
  BY <1>4, <1>7, RowsCounted, PlacesOfPage
<1>9. PICK x, y : x = companies[a][metric] /\ y = companies[b][metric]
  OBVIOUS
<1>10. (IsFigure(x) <=> x \in Figures) /\ (IsFigure(y) <=> y \in Figures)
  BY <1>8, <1>9, HasFigure
<1>11. ~First(d, y, x) /\ IsFigure(y)
  BY <1>5, <1>6, <1>7, <1>9 DEF RowBefore
<1>12. x \in Figures /\ y \in Figures
  BY <1>10, <1>11 DEF First
<1>13. IF d THEN ~Less(x, y) ELSE ~Less(y, x)
  BY <1>10, <1>11, <1>12 DEF First
<1>14. ASSUME a \in ActivePeers, b \in ActivePeers
       PROVE  IF d = HigherIsBetter[metric]
              THEN RadarChart.peers[b][metric] <= RadarChart.peers[a][metric]
              ELSE RadarChart.peers[a][metric] <= RadarChart.peers[b][metric]
  <2>1. PICK places \in SUBSET DOMAIN companies : places = {1} \cup ActivePeers
    BY PlacesOfPage
  <2>2. PICK n \in Nat : FiguresOf(metric, places) \in [1 .. n -> Figures]
    BY FiguresAre
  <2>3. PICK group \in [1 .. n -> Figures] : group = Group(metric)
    BY <2>1, <2>2 DEF Group
  <2>4. PICK higher \in BOOLEAN : higher = HigherIsBetter[metric]
    BY HigherTyped
  <2>5. PICK median : median = Median(FiguresOf(metric, ActivePeers))
    OBVIOUS
  <2>6. /\ RadarChart.peers[a][metric] = Drawn(group, x, higher)
        /\ RadarChart.peers[b][metric] = Drawn(group, y, higher)
    BY <1>9, <1>10, <1>12, <1>14, <2>3, <2>4, <2>5, RadarIs
  <2>7. CASE d
    <3>1. /\ higher => Drawn(group, y, higher) <= Drawn(group, x, higher)
          /\ ~higher => Drawn(group, x, higher) <= Drawn(group, y, higher)
      BY <1>12, <1>13, <2>7, DrawnGrows
    <3> QED
      BY <2>4, <2>6, <2>7, <3>1
  <2>8. CASE ~d
    <3>1. /\ higher => Drawn(group, x, higher) <= Drawn(group, y, higher)
          /\ ~higher => Drawn(group, y, higher) <= Drawn(group, x, higher)
      BY <1>12, <1>13, <2>8, DrawnGrows
    <3> QED
      BY <2>4, <2>6, <2>8, <3>1
  <2> QED
    BY <2>7, <2>8
<1> QED
  BY <1>6, <1>7, <1>9, <1>10, <1>12, <1>14

\* The median of a metric is drawn between the lowest and the highest peer.
LEMMA MedianDrawn ==
  ASSUME ViewInv, ActivePeers # {}, NEW metric \in METRICS,
         NEW charted, charted = {RadarChart.peers[c][metric] :
                                   c \in {d \in ActivePeers : IsFigure(companies[d][metric])}},
         charted # {}
  PROVE  /\ \E r \in charted : r <= RadarChart.median[metric]
         /\ \E r \in charted : r >= RadarChart.median[metric]
<1>1. PICK places \in SUBSET DOMAIN companies : places = {1} \cup ActivePeers
  BY PlacesOfPage
<1>2. PICK n \in Nat : FiguresOf(metric, places) \in [1 .. n -> Figures]
  BY FiguresAre
<1>3. PICK group \in [1 .. n -> Figures] : group = Group(metric)
  BY <1>1, <1>2 DEF Group
<1>4. PICK higher \in BOOLEAN : higher = HigherIsBetter[metric]
  BY HigherTyped
<1>5. PICK active \in SUBSET DOMAIN companies : active = ActivePeers
  BY PlacesOfPage
<1>6. PICK k \in Nat :
        /\ FiguresOf(metric, active) \in [1 .. k -> Figures]
        /\ \A i \in 1 .. k : \E c \in active :
             IsFigure(companies[c][metric]) /\ FiguresOf(metric, active)[i] = companies[c][metric]
        /\ \A c \in active : IsFigure(companies[c][metric]) =>
             \E i \in 1 .. k : FiguresOf(metric, active)[i] = companies[c][metric]
  BY FiguresAre
<1>7. PICK values \in [1 .. k -> Figures] : values = FiguresOf(metric, ActivePeers)
  BY <1>5, <1>6
<1>8. PICK median : median = Median(values)
  OBVIOUS
<1>9. k \in Nat \ {0}
  <2>1. PICK c \in ActivePeers : IsFigure(companies[c][metric])
    OBVIOUS
  <2> QED
    BY <1>5, <1>6, <2>1
<1>10. median \in Figures /\ IsFigure(median)
  <2>1. median \in Figures
    BY <1>8, <1>9, MedianBetween
  <2>2. NoValue \notin Figures
    BY ViewAssumption DEF Figures
  <2> QED
    BY <2>1, <2>2 DEF IsFigure
<1>11. PICK i, j \in 1 .. k : ~Less(median, values[i]) /\ ~Less(values[j], median)
  BY <1>8, <1>9, MedianBetween
<1>12. PICK x, y \in Figures : x = values[i] /\ y = values[j] /\ ~Less(median, x) /\ ~Less(y, median)
  BY <1>11
<1>13. /\ higher => Drawn(group, x, higher) <= Drawn(group, median, higher)
       /\ ~higher => Drawn(group, median, higher) <= Drawn(group, x, higher)
  BY <1>10, <1>12, DrawnGrows
<1>14. /\ higher => Drawn(group, median, higher) <= Drawn(group, y, higher)
       /\ ~higher => Drawn(group, y, higher) <= Drawn(group, median, higher)
  BY <1>10, <1>12, DrawnGrows
<1>15. /\ \A c \in ActivePeers : IsFigure(companies[c][metric]) =>
             RadarChart.peers[c][metric] = Drawn(group, companies[c][metric], higher)
       /\ RadarChart.median[metric] =
             Ring(IF IsFigure(median) THEN AsPercent(Percentile(group, median, higher)) ELSE 50)
  BY <1>3, <1>4, <1>7, <1>8, RadarIs
<1>16. RadarChart.median[metric] = Drawn(group, median, higher)
  BY <1>10, <1>15 DEF Drawn
<1>17. Drawn(group, x, higher) \in charted /\ Drawn(group, y, higher) \in charted
  <2>1. \A h \in 1 .. k : Drawn(group, values[h], higher) \in charted
    <3> SUFFICES ASSUME NEW h \in 1 .. k PROVE Drawn(group, values[h], higher) \in charted
      OBVIOUS
    <3>1. PICK c \in ActivePeers : IsFigure(companies[c][metric]) /\ values[h] = companies[c][metric]
      BY <1>5, <1>6, <1>7
    <3>2. RadarChart.peers[c][metric] = Drawn(group, values[h], higher)
      BY <1>15, <3>1
    <3> QED
      BY <3>1, <3>2
  <2> QED
    BY <1>12, <2>1
<1>18. PICK r, s, t : /\ r = Drawn(group, x, higher) /\ s = Drawn(group, median, higher)
                      /\ t = Drawn(group, y, higher)
  OBVIOUS
<1>19. (higher => r <= s /\ s <= t) /\ (~higher => s <= r /\ t <= s)
  BY <1>13, <1>14, <1>18
<1>20. \A u, v : u <= v <=> v >= u
  OBVIOUS
<1>21. /\ \E u \in charted : u <= s
       /\ \E u \in charted : u >= s
  BY <1>17, <1>18, <1>19, <1>20
<1> QED
  BY <1>16, <1>18, <1>21

\* The parts of TableAgreesWithRadar about the order of a page's table, its
\* note and its median.
PageOrdered(rows, radar) ==
  sorting # NoValue =>
    \A i, j \in DOMAIN rows : i < j /\ IsFigure(companies[rows[j]][sorting.key]) =>
      /\ IsFigure(companies[rows[i]][sorting.key])
      /\ {rows[i], rows[j]} \subseteq ActivePeers =>
           IF sorting.descends = HigherIsBetter[sorting.key]
           THEN radar.peers[rows[i]][sorting.key] >= radar.peers[rows[j]][sorting.key]
           ELSE radar.peers[rows[i]][sorting.key] <= radar.peers[rows[j]][sorting.key]
PageNoted(page) ==
  "note" \in DOMAIN page.radar =>
    page.active = 0 /\ (page.radar.note = "noBundledPeers" => page.table.rows = <<>>)
PageMedian(page) ==
  "median" \in DOMAIN page.radar =>
    \A metric \in METRICS :
      LET charted == {page.radar.peers[c][metric] : c \in {d \in ActivePeers : IsFigure(companies[d][metric])}}
      IN  charted # {} => /\ \E r \in charted : r <= page.radar.median[metric]
                          /\ \E r \in charted : r >= page.radar.median[metric]

\* Table and radar are of one mind.
LEMMA TableAgrees ==
  ASSUME ViewInv
  PROVE  TableAgreesWithRadar
<1>1. PICK page, rows, radar : page = PeerPage /\ rows = page.table.rows /\ radar = page.radar
  OBVIOUS
<1>2. rows = SortedPeers /\ radar = IF ActivePeers = {} THEN EmptyPeersNote ELSE RadarChart
  BY <1>1, PageIs
<1>3. ToSet(rows) = Peers /\ Len(rows) = page.of
  BY <1>1, <1>2, PageIs, RowsCounted
<1>4. Len(rows) - Cardinality(page.table.dimmed) = page.active
  BY <1>1, <1>2, PageIs, RowsCounted
<1>5. ASSUME sorting # NoValue, NEW i \in DOMAIN rows, NEW j \in DOMAIN rows, i < j,
             IsFigure(companies[rows[j]][sorting.key])
      PROVE  /\ IsFigure(companies[rows[i]][sorting.key])
             /\ {rows[i], rows[j]} \subseteq ActivePeers =>
                  IF sorting.descends = HigherIsBetter[sorting.key]
                  THEN radar.peers[rows[i]][sorting.key] >= radar.peers[rows[j]][sorting.key]
                  ELSE radar.peers[rows[i]][sorting.key] <= radar.peers[rows[j]][sorting.key]
  <2>1. IsFigure(companies[rows[i]][sorting.key])
    BY <1>2, <1>5, OrderTold
  <2>2. ASSUME {rows[i], rows[j]} \subseteq ActivePeers
        PROVE  IF sorting.descends = HigherIsBetter[sorting.key]
               THEN radar.peers[rows[i]][sorting.key] >= radar.peers[rows[j]][sorting.key]
               ELSE radar.peers[rows[i]][sorting.key] <= radar.peers[rows[j]][sorting.key]
    <3>1. radar = RadarChart
      BY <1>2, <2>2
    <3>2. IF sorting.descends = HigherIsBetter[sorting.key]
          THEN RadarChart.peers[rows[j]][sorting.key] <= RadarChart.peers[rows[i]][sorting.key]
          ELSE RadarChart.peers[rows[i]][sorting.key] <= RadarChart.peers[rows[j]][sorting.key]
      BY <1>2, <1>5, <2>2, OrderTold
    <3>3. \A u, v : u <= v <=> v >= u
      OBVIOUS
    <3> QED
      BY <3>1, <3>2, <3>3
  <2> QED
    BY <2>1, <2>2
<1>6. ASSUME "note" \in DOMAIN radar
      PROVE  page.active = 0 /\ (radar.note = "noBundledPeers" => rows = <<>>)
  <2>1. ActivePeers = {} /\ radar = EmptyPeersNote
    BY <1>2, <1>6, PageIs
  <2>2. page.active = 0
    BY <1>1, <2>1, PageIs, FS_EmptySet
  <2>3. ASSUME radar.note = "noBundledPeers" PROVE rows = <<>>
    <3>1. universe = 0
      BY <2>1, <2>3, PageIs
    <3>2. Len(companies) = 1
      BY <3>1 DEF ViewInv
    <3>3. DOMAIN rows = 1 .. 0
      BY <1>2, <3>2, RowsCounted
    <3>4. PICK o : Listed(0, o)
      BY <3>2, RowsAre
    <3>5. rows = [k \in 1 .. 0 |-> o[k] + 1]
      BY <1>2, <3>4 DEF Listed
    <3> QED
      BY <3>5
  <2> QED
    BY <2>2, <2>3
<1>7. ASSUME "median" \in DOMAIN radar, NEW metric \in METRICS, NEW charted,
             charted = {radar.peers[c][metric] : c \in {d \in ActivePeers : IsFigure(companies[d][metric])}},
             charted # {}
      PROVE  (\E r \in charted : r <= radar.median[metric]) /\ (\E r \in charted : r >= radar.median[metric])
  <2>1. ActivePeers # {} /\ radar = RadarChart
    BY <1>2, <1>7, PageIs
  <2> QED
    BY <1>7, <2>1, MedianDrawn
<1>8. PageOrdered(rows, radar)
  BY <1>5 DEF PageOrdered
<1>9. PageNoted(page)
  BY <1>1, <1>6 DEF PageNoted
<1>10. PageMedian(page)
  BY <1>1, <1>7 DEF PageMedian
<1>11. /\ ToSet(PeerPage.table.rows) = Peers /\ Len(PeerPage.table.rows) = PeerPage.of
       /\ Len(PeerPage.table.rows) - Cardinality(PeerPage.table.dimmed) = PeerPage.active
  BY <1>1, <1>3, <1>4
<1>12. PageOrdered(PeerPage.table.rows, PeerPage.radar) /\ PageNoted(PeerPage) /\ PageMedian(PeerPage)
  BY <1>1, <1>8, <1>9, <1>10, Zenon
<1> QED
  BY <1>11, <1>12, Zenon DEF TableAgreesWithRadar, PageOrdered, PageNoted, PageMedian

\* Whatever is excluded and however the table is sorted, ranks, table, radar
\* and insights tell one story of the same metrics (PeerBenchmarkClient).
THEOREM PeersToldAlike == ViewSpec => []OneStory
<1>1. ViewInv => OneStory
  BY RanksFollow, TableAgrees DEF OneStory
<1> QED
  BY <1>1, ViewInvHolds, PTL

------------------------------------------------------------------------------
(* What the charts draw of a dataset.                                        *)

ChartsInv == chart \in DOMAIN Entries /\ data \in Seq(Entries[chart])

\* A dataset is made of what its chart's entries may be.
LEMMA ChartsInvHolds == ChartsSpec => []ChartsInv
<1>1. ChartsInit => ChartsInv
  BY DEF ChartsInit, ChartsInv
<1>2. ChartsInv /\ [ChartsNext]_chartsVars => ChartsInv'
  BY DEF ChartsInv, ChartsNext, AddEntry, chartsVars
<1> QED
  BY <1>1, <1>2, PTL DEF ChartsSpec

\* It is a list of them, and each has the numbers its chart draws.
LEMMA EntriesTyped ==
  ASSUME ChartsInv
  PROVE  /\ Len(data) \in Nat /\ DOMAIN data = 1 .. Len(data)
         /\ data = [i \in 1 .. Len(data) |-> data[i]]
         /\ ToSet(data) = {data[i] : i \in 1 .. Len(data)}
         /\ \A i \in 1 .. Len(data) : Drawable(chart, data[i])
<1>1. PICK list, S : list = data /\ S = Entries[chart] /\ list \in Seq(S)
  BY DEF ChartsInv
<1>2. /\ Len(list) \in Nat /\ DOMAIN list = 1 .. Len(list)
      /\ list = [i \in 1 .. Len(list) |-> list[i]]
      /\ \A i \in 1 .. Len(list) : list[i] \in S
  BY <1>1
<1>3. ToSet(list) = {list[i] : i \in 1 .. Len(list)}
  BY <1>2 DEF ToSet
<1>4. \A i \in 1 .. Len(list) : Drawable(chart, list[i])
  BY <1>1, <1>2, ChartsAssumption DEF ChartsInv
<1> QED
  BY <1>1, <1>2, <1>3, <1>4

\* A rounded quotient is a whole number.
LEMMA RoundedIs ==
  ASSUME NEW n \in Int, NEW d \in Nat \ {0}
  PROVE  Rounded(n, d) \in Int
<1>1. PICK a \in Int, k \in Nat \ {0} : a = 2 * n + d /\ k = 2 * d
  OBVIOUS
<1>2. a \div k \in Int
  OBVIOUS
<1> QED
  BY <1>1, <1>2 DEF Rounded

\* A rounded quotient is half a unit off at most.
LEMMA RoundedNear ==
  ASSUME NEW n \in Int, NEW d \in Nat \ {0}
  PROVE  /\ Rounded(n, d) \in Int
         /\ 2 * (d * Rounded(n, d)) - 2 * n <= d
         /\ 2 * n - 2 * (d * Rounded(n, d)) <= d
<1>1. PICK a \in Int, k \in Nat \ {0} : a = 2 * n + d /\ k = 2 * d
  OBVIOUS
<1>2. \A i \in Int, m \in Nat \ {0} :
        /\ i \div m \in Int
        /\ m * (i \div m) <= i /\ i < m * (i \div m) + m
  OBVIOUS
<1>3. PICK q \in Int : q = a \div k
  BY <1>2
<1>4. k * q <= a /\ a < k * q + k
  BY <1>2, <1>3
<1>5. Rounded(n, d) = q
  BY <1>1, <1>3 DEF Rounded
<1>6. PICK x \in Int : x = d * q
  OBVIOUS
<1>7. k * q = 2 * x
  BY <1>1, <1>6
<1> QED
  BY <1>1, <1>4, <1>5, <1>6, <1>7

\* The rounded shares of a total, each half a unit off at most.
Shared(n, a, r, total) ==
  /\ a \in [1 .. n -> Int] /\ r \in [1 .. n -> Int]
  /\ \A k \in 1 .. n : r[k] = Rounded(10000 * a[k], total)

\* They miss the whole by half a unit a share at most.
LEMMA SharesAddUp ==
  ASSUME NEW n \in Nat, NEW t \in Nat \ {0}, NEW a, NEW r, Shared(n, a, r, t), SumOf(a) = t
  PROVE  SumOf(r) \in Int /\ 2 * Magnitude(SumOf(r) - 10000) <= n
<1>1. PICK x \in [0 .. n -> Int] : SumOf(a) = x[n] /\ x[0] = 0 /\ \A k \in 1 .. n : x[k] = x[k - 1] + a[k]
  <2>1. a \in Seq(Int) /\ Len(a) = n
    BY DEF Shared
  <2> QED
    BY <2>1, SumIs
<1>2. PICK y \in [0 .. n -> Int] : SumOf(r) = y[n] /\ y[0] = 0 /\ \A k \in 1 .. n : y[k] = y[k - 1] + r[k]
  <2>1. r \in Seq(Int) /\ Len(r) = n
    BY DEF Shared
  <2> QED
    BY <2>1, SumIs
<1> DEFINE Close(k, s, z) == 2 * (t * z) - 20000 * s <= k * t /\ 20000 * s - 2 * (t * z) <= k * t
           S == {k \in 0 .. n : Close(k, x[k], y[k])}
<1>3. 0 \in S
  BY <1>1, <1>2
<1>4. ASSUME NEW k \in 1 .. n, k - 1 \in S PROVE k \in S
  <2>1. PICK s \in Int, z \in Int, i \in Int, j \in Int :
          s = x[k - 1] /\ z = y[k - 1] /\ i = a[k] /\ j = r[k]
    <3>1. k - 1 \in 0 .. n
      OBVIOUS
    <3>2. x[k - 1] \in Int /\ y[k - 1] \in Int
      BY <3>1
    <3>3. a[k] \in Int /\ r[k] \in Int
      BY DEF Shared
    <3> QED
      BY <3>2, <3>3
  <2>2. j = Rounded(10000 * i, t)
    BY <2>1 DEF Shared
  <2>3. 2 * (t * j) - 20000 * i <= t /\ 20000 * i - 2 * (t * j) <= t
    BY <2>2, RoundedNear
  <2>4. x[k] = s + i /\ y[k] = z + j
    BY <1>1, <1>2, <2>1
  <2>5. 2 * (t * z) - 20000 * s <= (k - 1) * t /\ 20000 * s - 2 * (t * z) <= (k - 1) * t
    BY <1>4, <2>1
  <2>6. /\ t * (z + j) = t * z + t * j /\ t * z \in Int /\ t * j \in Int
        /\ (k - 1) * t = k * t - t /\ k * t \in Int
    OBVIOUS
  <2>7. 2 * (t * (z + j)) - 20000 * (s + i) <= k * t /\ 20000 * (s + i) - 2 * (t * (z + j)) <= k * t
    BY <2>3, <2>5, <2>6
  <2> QED
    BY <2>4, <2>7
<1> HIDE DEF S
<1>5. n \in S
  <2>1. 0 .. n \subseteq S
    BY <1>3, <1>4, UpTo
  <2> QED
    BY <2>1
<1>6. PICK z \in Int : z = SumOf(r) /\ z = y[n]
  BY <1>2
<1>7. 2 * (t * z) - 20000 * t <= n * t /\ 20000 * t - 2 * (t * z) <= n * t
  BY <1>1, <1>5, <1>6 DEF S
<1>8. PICK d \in Int : d = 2 * (z - 10000)
  OBVIOUS
<1>9. t * d = 2 * (t * z) - 20000 * t /\ t * (-d) = 20000 * t - 2 * (t * z)
  BY <1>8
<1>10. \A i \in Int : t * i <= n * t => i <= n
  OBVIOUS
<1>11. d <= n /\ -d <= n
  BY <1>7, <1>9, <1>10
<1> QED
  BY <1>6, <1>8, <1>11 DEF Magnitude

\* The values of an executive's pay, and how far they add up.
Values(row) == [j \in 1 .. Len(Components) |-> row.components[Components[j]]]

\* A stack rises without gaps from nothing to its executive's total.
LEMMA StackIs ==
  ASSUME NEW row, \A c \in ToSet(Components) : row.components[c] \in Int
  PROVE  /\ Values(row) \in [1 .. Len(Components) -> Int]
         /\ TotalPay(row) = SumOf(Values(row)) /\ TotalPay(row) \in Int
         /\ PayMixStack(row).total = TotalPay(row)
         /\ LET segments == PayMixStack(row).segments
            IN  /\ DOMAIN segments = 1 .. Len(Components) /\ Len(segments) = Len(Components)
                /\ segments[1].start = 0 /\ segments[Len(Components)].end = TotalPay(row)
                /\ \A i \in 2 .. Len(Components) : segments[i].start = segments[i - 1].end
<1> DEFINE n == Len(Components)
           v == Values(row)
<1>1. n \in Nat \ {0} /\ DOMAIN Components = 1 .. n /\ \A j \in 1 .. n : Components[j] \in ToSet(Components)
  BY ChartsAssumption DEF ToSet
<1>2. v \in [1 .. n -> Int] /\ \A j \in 1 .. n : v[j] = row.components[Components[j]]
  BY <1>1 DEF Values
<1>3. TotalPay(row) = SumOf(v)
  BY <1>1 DEF TotalPay, Mapped, Values
<1>4. v \in Seq(Int) /\ Len(v) = n
  BY <1>1, <1>2
<1> HIDE DEF v
<1>5. PICK sum \in [0 .. n -> Int] : SumsTo(v, sum, n)
  BY <1>4, SumsExist
<1>6. SumsTo(v, sum, n) /\ sum[0] = 0 /\ \A k \in 1 .. n : sum[k] = sum[k - 1] + v[k]
  BY <1>1, <1>5 DEF SumsTo
<1>7. SumOf(v) = sum[n]
  BY <1>4, <1>6, SumReached
<1> DEFINE Running(f) == f = [i \in 0 .. n |-> IF i = 0 THEN 0 ELSE f[i - 1] + row.components[Components[i]]]
           running == CHOOSE f : Running(f)
<1>8. Running(running)
  <2>1. \A i \in 0 .. n : sum[i] = IF i = 0 THEN 0 ELSE sum[i - 1] + row.components[Components[i]]
    BY <1>1, <1>2, <1>6
  <2>2. Running(sum)
    BY <1>5, <2>1
  <2> QED
    BY <2>2
<1>9. PayMixStack(row) = [total |-> running[n], segments |-> [i \in 1 .. n |-> [start |-> running[i - 1], end |-> running[i]]]]
  BY DEF PayMixStack
<1> HIDE DEF running
<1>10. \A k \in 0 .. n : running[k] = sum[k]
  <2> DEFINE S == {k \in 0 .. n : running[k] = sum[k]}
  <2>1. /\ running[0] = 0 /\ \A k \in 1 .. n : running[k] = running[k - 1] + row.components[Components[k]]
    BY <1>1, <1>8
  <2>2. 0 \in S
    BY <1>1, <1>6, <2>1
  <2>3. ASSUME NEW k \in 1 .. n, k - 1 \in S PROVE k \in S
    BY <1>1, <1>2, <1>6, <2>1, <2>3
  <2> HIDE DEF S
  <2>4. 0 .. n \subseteq S
    BY <1>1, <2>2, <2>3, UpTo
  <2> QED
    BY <2>4 DEF S
<1>11. PICK segments : segments = [i \in 1 .. n |-> [start |-> running[i - 1], end |-> running[i]]]
  OBVIOUS
<1>12. /\ DOMAIN segments = 1 .. n /\ Len(segments) = n
       /\ \A i \in 1 .. n : segments[i].start = running[i - 1] /\ segments[i].end = running[i]
  BY <1>1, <1>11
<1>13. PayMixStack(row).segments = segments /\ PayMixStack(row).total = running[n]
  BY <1>9, <1>11
<1>14. running[0] = 0 /\ running[n] = SumOf(v) /\ SumOf(v) \in Int
  BY <1>1, <1>6, <1>7, <1>10
<1>15. \A i \in 2 .. n : segments[i].start = segments[i - 1].end
  BY <1>1, <1>12
<1> QED
  BY <1>1, <1>2, <1>3, <1>12, <1>13, <1>14, <1>15 DEF v

\* A valid pay mix adds up.
LEMMA PayMixAdded ==
  ASSUME ChartsInv
  PROVE  PayMixAddsUp
<1> SUFFICES ASSUME chart = "payMix", ValidateExecutivePayMix
             PROVE  /\ SumOf(Mapped(data, LAMBDA row : PayMixStack(row).total)) = AggregatePayMix.grandTotal
                    /\ \A row \in ToSet(data) :
                         LET segments == PayMixStack(row).segments
                         IN  /\ segments[1].start = 0 /\ Last(segments).end = TotalPay(row)
                             /\ \A i \in 2 .. Len(segments) : segments[i].start = segments[i - 1].end
                             /\ 2 * Magnitude(SumOf(PayMixPercent(row)) - 10000) <= Len(Components)
  BY DEF PayMixAddsUp
<1>1. PICK m \in Nat : m = Len(data) /\ DOMAIN data = 1 .. m
  BY EntriesTyped
<1>2. PICK n \in Nat \ {0} : n = Len(Components) /\ DOMAIN Components = 1 .. n
  BY ChartsAssumption
<1>3. \A i \in 1 .. m : \A c \in ToSet(Components) : data[i].components[c] \in Int
  BY <1>1, EntriesTyped DEF Drawable
<1>4. \A j \in 1 .. n : Components[j] \in ToSet(Components)
  BY <1>2 DEF ToSet
<1>5. \A c \in ToSet(Components) : \E j \in 1 .. n : Components[j] = c
  BY <1>2 DEF ToSet
<1>6. PICK a : a = [i \in 1 .. m |-> Values(data[i])]
  OBVIOUS
<1>7. \A i \in 1 .. m : /\ a[i] \in [1 .. n -> Int] /\ PayMixStack(data[i]).total = SumOf(a[i])
                        /\ \A j \in 1 .. n : a[i][j] = data[i].components[Components[j]]
  <2> TAKE i \in 1 .. m
  <2>1. a[i] = Values(data[i]) /\ \A c \in ToSet(Components) : data[i].components[c] \in Int
    BY <1>3, <1>6
  <2>2. /\ Values(data[i]) \in [1 .. n -> Int] /\ PayMixStack(data[i]).total = SumOf(Values(data[i]))
    BY <1>2, <2>1, StackIs
  <2>3. \A j \in 1 .. n : Values(data[i])[j] = data[i].components[Components[j]]
    BY <1>2 DEF Values
  <2> QED
    BY <2>1, <2>2, <2>3
<1>8. SumOf(Mapped(data, LAMBDA row : PayMixStack(row).total)) = AggregatePayMix.grandTotal
  <2>1. a \in [1 .. m -> [1 .. n -> Int]]
    BY <1>6, <1>7
  <2>2. SumOf([i \in 1 .. m |-> SumOf(a[i])]) = SumOf([j \in 1 .. n |-> SumOf([i \in 1 .. m |-> a[i][j]])])
    BY <2>1, SumSwap
  <2>3. Mapped(data, LAMBDA row : PayMixStack(row).total) = [i \in 1 .. m |-> SumOf(a[i])]
    <3>1. Mapped(data, LAMBDA row : PayMixStack(row).total) = [i \in 1 .. m |-> PayMixStack(data[i]).total]
      BY <1>1 DEF Mapped
    <3> QED
      BY <1>7, <3>1
  <2>4. PICK totals : totals = [c \in ToSet(Components) |-> SumOf(Mapped(data, LAMBDA row : row.components[c]))]
    OBVIOUS
  <2>5. \A j \in 1 .. n : totals[Components[j]] = SumOf([i \in 1 .. m |-> a[i][j]])
    <3> TAKE j \in 1 .. n
    <3>1. totals[Components[j]] = SumOf(Mapped(data, LAMBDA row : row.components[Components[j]]))
      BY <1>4, <2>4
    <3>2. Mapped(data, LAMBDA row : row.components[Components[j]]) = [i \in 1 .. m |-> data[i].components[Components[j]]]
      BY <1>1 DEF Mapped
    <3>3. [i \in 1 .. m |-> data[i].components[Components[j]]] = [i \in 1 .. m |-> a[i][j]]
      BY <1>7
    <3> QED
      BY <3>1, <3>2, <3>3
  <2>6. Mapped(Components, LAMBDA c : totals[c]) = [j \in 1 .. n |-> SumOf([i \in 1 .. m |-> a[i][j]])]
    <3>1. Mapped(Components, LAMBDA c : totals[c]) = [j \in 1 .. n |-> totals[Components[j]]]
      BY <1>2 DEF Mapped
    <3> QED
      BY <2>5, <3>1
  <2>7. AggregatePayMix.grandTotal = SumOf(Mapped(Components, LAMBDA c : totals[c]))
    BY <2>4 DEF AggregatePayMix
  <2> QED
    BY <2>2, <2>3, <2>6, <2>7
<1>9. ASSUME NEW row \in ToSet(data)
      PROVE  LET segments == PayMixStack(row).segments
             IN  /\ segments[1].start = 0 /\ Last(segments).end = TotalPay(row)
                 /\ \A i \in 2 .. Len(segments) : segments[i].start = segments[i - 1].end
                 /\ 2 * Magnitude(SumOf(PayMixPercent(row)) - 10000) <= n
  <2>1. \A c \in ToSet(Components) : row.components[c] \in Int
    BY <1>1, <1>3 DEF ToSet
  <2>2. PICK segments : segments = PayMixStack(row).segments
    OBVIOUS
  <2>3. /\ Len(segments) = n /\ segments[1].start = 0 /\ segments[n].end = TotalPay(row)
        /\ \A i \in 2 .. n : segments[i].start = segments[i - 1].end
    BY <1>2, <2>1, <2>2, StackIs
  <2>4. PICK v : v = Values(row)
    OBVIOUS
  <2>5. v \in [1 .. n -> Int] /\ TotalPay(row) = SumOf(v) /\ TotalPay(row) \in Int
    BY <1>2, <2>1, <2>4, StackIs
  <2>6. PICK t \in Nat \ {0} : t = TotalPay(row)
    <3>1. TotalPay(row) > 0
      BY DEF ValidateExecutivePayMix
    <3> QED
      BY <2>5, <3>1
  <2>7. PICK r : r = [j \in 1 .. n |-> Rounded(10000 * v[j], t)]
    OBVIOUS
  <2>8. PayMixPercent(row) = r
    <3>1. PayMixPercent(row) = [j \in 1 .. n |-> IF TotalPay(row) > 0
                                                 THEN Rounded(10000 * row.components[Components[j]], TotalPay(row)) ELSE 0]
      BY <1>2 DEF PayMixPercent, Mapped
    <3>2. \A j \in 1 .. n : v[j] = row.components[Components[j]]
      BY <1>2, <2>4 DEF Values
    <3>3. TotalPay(row) > 0
      BY <2>6
    <3> QED
      BY <2>6, <2>7, <3>1, <3>2, <3>3
  <2>9. \A j \in 1 .. n : r[j] = Rounded(10000 * v[j], t) /\ r[j] \in Int
    <3> TAKE j \in 1 .. n
    <3>1. PICK x \in Int : x = 10000 * v[j]
      BY <2>5
    <3>2. Rounded(x, t) \in Int
      BY RoundedIs
    <3> QED
      BY <2>7, <3>1, <3>2
  <2>10. Shared(n, v, r, t)
    BY <2>5, <2>7, <2>9 DEF Shared
  <2>11. 2 * Magnitude(SumOf(r) - 10000) <= n
    BY <2>5, <2>6, <2>10, SharesAddUp
  <2> QED
    BY <2>2, <2>3, <2>8, <2>11 DEF Last
<1> QED
  BY <1>2, <1>8, <1>9

------------------------------------------------------------------------------
(* Sums of what is selected, and of a line of the heatmap.                   *)

\* How many are selected up to a position grows by one at each one selected.
LEMMA PlaceGrows ==
  ASSUME NEW n \in Nat, NEW E \in SUBSET (1 .. n)
  PROVE  /\ PlaceIn(E, 0) = 0 /\ PlaceIn(E, n) = Cardinality(E) /\ Cardinality(E) \in Nat
         /\ \A k \in 1 .. n :
              /\ PlaceIn(E, k - 1) \in 0 .. Cardinality(E) /\ PlaceIn(E, k) \in 0 .. Cardinality(E)
              /\ PlaceIn(E, k) = PlaceIn(E, k - 1) + (IF k \in E THEN 1 ELSE 0)
<1>1. IsFiniteSet(E) /\ Cardinality(E) \in Nat
  BY RankGrows
<1>2. \A m \in E : m \in Int /\ 1 <= m /\ m <= n
  OBVIOUS
<1>3. ASSUME NEW k \in 0 .. n
      PROVE  IsFiniteSet({m \in E : m <= k}) /\ PlaceIn(E, k) \in 0 .. Cardinality(E)
  <2>1. {m \in E : m <= k} \in SUBSET E
    OBVIOUS
  <2>2. IsFiniteSet({m \in E : m <= k}) /\ Cardinality({m \in E : m <= k}) <= Cardinality(E)
    BY <1>1, <2>1, FS_Subset
  <2>3. Cardinality({m \in E : m <= k}) \in Nat
    BY <2>2, FS_CardinalityType
  <2> QED
    BY <1>1, <2>2, <2>3 DEF PlaceIn
<1>4. PlaceIn(E, 0) = 0
  <2>1. {m \in E : m <= 0} = {}
    <3>1. \A m \in E : ~(m <= 0)
      BY <1>2
    <3> QED
      BY <3>1
  <2> QED
    BY <2>1, FS_EmptySet DEF PlaceIn
<1>5. PlaceIn(E, n) = Cardinality(E)
  <2>1. {m \in E : m <= n} = E
    BY <1>2
  <2> QED
    BY <2>1 DEF PlaceIn
<1>6. ASSUME NEW k \in 1 .. n
      PROVE  PlaceIn(E, k) = PlaceIn(E, k - 1) + (IF k \in E THEN 1 ELSE 0)
  <2>1. k - 1 \in 0 .. n
    OBVIOUS
  <2>2. PICK D : D = {m \in E : m <= k - 1}
    OBVIOUS
  <2>3. IsFiniteSet(D) /\ k \notin D /\ Cardinality(D) = PlaceIn(E, k - 1) /\ Cardinality(D) \in Int
    <3>1. IsFiniteSet(D) /\ PlaceIn(E, k - 1) \in 0 .. Cardinality(E)
      BY <1>3, <2>1, <2>2
    <3>2. Cardinality(D) = PlaceIn(E, k - 1)
      BY <2>2 DEF PlaceIn
    <3>3. k \notin D
      BY <2>2
    <3> QED
      BY <1>1, <3>1, <3>2, <3>3
  <2>4. \A m \in E : /\ m <= k <=> m <= k - 1 \/ m = k
                     /\ m = k => m <= k
    BY <1>2
  <2>5. CASE k \in E
    <3>1. {m \in E : m <= k} = D \cup {k}
      BY <2>2, <2>4, <2>5
    <3>2. Cardinality(D \cup {k}) = Cardinality(D) + 1
      BY <2>3, FS_AddElement
    <3> QED
      BY <2>3, <2>5, <3>1, <3>2 DEF PlaceIn
  <2>6. CASE k \notin E
    <3>1. {m \in E : m <= k} = D
      BY <2>2, <2>4, <2>6
    <3>2. PlaceIn(E, k) = PlaceIn(E, k - 1)
      BY <2>2, <3>1 DEF PlaceIn
    <3>3. PlaceIn(E, k - 1) + 0 = PlaceIn(E, k - 1)
      BY <2>3
    <3> QED
      BY <2>6, <3>2, <3>3
  <2> QED
    BY <2>5, <2>6
<1>7. ASSUME NEW k \in 1 .. n PROVE k - 1 \in 0 .. n /\ k \in 0 .. n
  OBVIOUS
<1> QED
  BY <1>1, <1>3, <1>4, <1>5, <1>6, <1>7

\* A sum of selected numbers is the sum of all with the others counted as nothing.
LEMMA SumSelected ==
  ASSUME NEW n \in Nat, NEW x \in [1 .. n -> Int], NEW E \in SUBSET (1 .. n)
  PROVE  SumOf(AtPositions(x, E)) = SumOf([k \in 1 .. n |-> IF k \in E THEN x[k] ELSE 0])
<1>1. PICK y : y = [k \in 1 .. n |-> IF k \in E THEN x[k] ELSE 0]
  OBVIOUS
<1>2. PICK a : a = AtPositions(x, E)
  OBVIOUS
<1>3. PICK c \in Nat : c = Cardinality(E)
  BY PlaceGrows
<1>4. /\ DOMAIN a = 1 .. c /\ a = [k \in 1 .. c |-> a[k]]
      /\ \A k \in 1 .. c : a[k] = x[Nth(E, k)] /\ Nth(E, k) \in 1 .. n
  <2>1. \A k \in 1 .. c : Nth(E, k) \in E
    BY <1>3, RankReached
  <2>2. a = [k \in 1 .. c |-> x[Nth(E, k)]]
    BY <1>2, <1>3 DEF AtPositions
  <2> QED
    BY <2>1, <2>2
<1>5. \A i \in 1 .. n : x[i] \in Int
  OBVIOUS
<1>6. a \in Seq(Int) /\ Len(a) = c
  <2>1. \A k \in 1 .. c : a[k] \in Int
    BY <1>4, <1>5
  <2>2. a \in [1 .. c -> Int]
    BY <1>4, <2>1
  <2> QED
    BY <2>2
<1>7. y \in Seq(Int) /\ Len(y) = n
  <2>1. y \in [1 .. n -> Int]
    BY <1>1, <1>5
  <2> QED
    BY <2>1
<1>8. PICK p : p \in [0 .. c -> Int] /\ SumOf(a) = p[c] /\ p[0] = 0 /\ \A k \in 1 .. c : p[k] = p[k - 1] + a[k]
  BY <1>6, SumIs
<1>9. PICK q : SumOf(y) = q[n] /\ q[0] = 0 /\ \A k \in 1 .. n : q[k] = q[k - 1] + y[k]
  BY <1>7, SumIs
<1>10. /\ PlaceIn(E, 0) = 0 /\ PlaceIn(E, n) = c
       /\ \A k \in 1 .. n : /\ PlaceIn(E, k - 1) \in 0 .. c /\ PlaceIn(E, k) \in 0 .. c
                            /\ PlaceIn(E, k) = PlaceIn(E, k - 1) + (IF k \in E THEN 1 ELSE 0)
  BY <1>3, PlaceGrows
<1>11. \A i \in 0 .. c : p[i] \in Int
  BY <1>8
<1> DEFINE S == {k \in 0 .. n : q[k] = p[PlaceIn(E, k)]}
<1>12. 0 \in S
  BY <1>8, <1>9, <1>10
<1>13. ASSUME NEW k \in 1 .. n, k - 1 \in S PROVE k \in S
  <2>1. PICK i, j \in 0 .. c : i = PlaceIn(E, k - 1) /\ j = PlaceIn(E, k) /\ j = i + IF k \in E THEN 1 ELSE 0
    BY <1>10
  <2>2. PICK z \in Int : z = p[i]
    BY <1>11
  <2>3. q[k] = z + y[k]
    BY <1>9, <1>13, <2>1, <2>2
  <2>4. ASSUME k \in E PROVE q[k] = p[j]
    <3>1. Nth(E, PlaceIn(E, k)) = k /\ PlaceIn(E, k) \in 1 .. Cardinality(E)
      BY <2>4, NthIs
    <3>2. a[j] = x[k] /\ j \in 1 .. c
      BY <1>3, <1>4, <2>1, <3>1
    <3>3. y[k] = x[k]
      BY <1>1, <2>4
    <3>4. j - 1 = i
      BY <2>1, <2>4
    <3>5. p[j] = z + x[k]
      BY <1>8, <2>2, <3>2, <3>4
    <3> QED
      BY <2>3, <3>3, <3>5
  <2>5. ASSUME k \notin E PROVE q[k] = p[j]
    <3>1. j = i /\ y[k] = 0
      <4>1. y[k] = 0
        BY <1>1, <2>5
      <4>2. j = i
        BY <2>1, <2>5
      <4> QED
        BY <4>1, <4>2
    <3>2. q[k] = z + 0
      BY <2>3, <3>1
    <3> QED
      BY <2>2, <3>1, <3>2
  <2>6. q[k] = p[PlaceIn(E, k)]
    BY <2>1, <2>4, <2>5
  <2>7. k \in 0 .. n
    OBVIOUS
  <2> QED
    BY <2>6, <2>7
<1> HIDE DEF S
<1>14. 0 .. n \subseteq S
  BY <1>12, <1>13, UpTo
<1>15. q[n] = p[PlaceIn(E, n)]
  BY <1>14 DEF S
<1> QED
  BY <1>1, <1>2, <1>8, <1>9, <1>10, <1>15

\* A sum of zeros and one number is that number.
LEMMA OneTerm ==
  ASSUME NEW n \in Nat, NEW s \in [1 .. n -> Int], NEW j \in 1 .. n,
         \A k \in 1 .. n : k # j => s[k] = 0
  PROVE  SumOf(s) = s[j]
<1>1. PICK sum : sum = [k \in 0 .. n |-> IF k < j THEN 0 ELSE s[j]]
  OBVIOUS
<1>2. s \in Seq(Int) /\ Len(s) = n
  OBVIOUS
<1>3. sum[0] = 0 /\ sum[n] = s[j]
  BY <1>1
<1>4. \A k \in 1 .. n : sum[k] = sum[k - 1] + s[k]
  BY <1>1
<1> QED
  BY <1>2, <1>3, <1>4, SumReached

\* A line that shows each of some numbers at a place of its own, and nothing elsewhere.
Lined(n, w, x, E, at, shown) ==
  /\ x \in [1 .. n -> Int] /\ E \in SUBSET (1 .. n)
  /\ at \in [1 .. n -> 1 .. w] /\ shown \in [1 .. w -> Int]
  /\ \A i, j \in E : at[i] = at[j] => i = j
  /\ \A i \in E : shown[at[i]] = x[i]
  /\ \A m \in 1 .. w : (\A i \in E : at[i] # m) => shown[m] = 0

\* It adds up to those numbers.
LEMMA LineAddsUp ==
  ASSUME NEW n \in Nat, NEW w \in Nat, NEW x, NEW E, NEW at, NEW shown, Lined(n, w, x, E, at, shown)
  PROVE  SumOf(AtPositions(x, E)) = SumOf(shown)
<1> USE DEF Lined
<1>1. PICK a : a = [i \in 1 .. n |-> [m \in 1 .. w |-> IF i \in E /\ at[i] = m THEN x[i] ELSE 0]]
  OBVIOUS
<1>2. a \in [1 .. n -> [1 .. w -> Int]]
  BY <1>1
<1>3. SumOf([i \in 1 .. n |-> SumOf(a[i])]) = SumOf([m \in 1 .. w |-> SumOf([i \in 1 .. n |-> a[i][m]])])
  BY <1>2, SumSwap
<1>4. ASSUME NEW i \in 1 .. n PROVE SumOf(a[i]) = IF i \in E THEN x[i] ELSE 0
  <2>1. PICK row \in [1 .. w -> Int] : row = a[i]
    BY <1>2
  <2>2. \A m \in 1 .. w : row[m] = IF i \in E /\ at[i] = m THEN x[i] ELSE 0
    BY <1>1, <2>1
  <2>3. CASE i \in E
    <3>1. PICK j \in 1 .. w : j = at[i]
      OBVIOUS
    <3>2. row[j] = x[i] /\ \A m \in 1 .. w : m # j => row[m] = 0
      BY <2>2, <2>3, <3>1
    <3>3. SumOf(row) = row[j]
      BY <3>2, OneTerm
    <3> QED
      BY <2>1, <2>3, <3>2, <3>3
  <2>4. CASE i \notin E
    <3>1. \A m \in 1 .. w : row[m] = 0
      BY <2>2, <2>4
    <3>2. SumOf(row) = w * 0
      BY <3>1, SumOfSame
    <3> QED
      BY <2>1, <2>4, <3>2
  <2> QED
    BY <2>3, <2>4
<1>5. ASSUME NEW m \in 1 .. w PROVE SumOf([i \in 1 .. n |-> a[i][m]]) = shown[m]
  <2>1. PICK col : col = [i \in 1 .. n |-> a[i][m]]
    OBVIOUS
  <2>2. \A i \in 1 .. n : col[i] = IF i \in E /\ at[i] = m THEN x[i] ELSE 0
    BY <1>1, <2>1
  <2>3. col \in [1 .. n -> Int]
    BY <1>2, <2>1
  <2>4. CASE \E i \in E : at[i] = m
    <3>1. PICK i \in E : at[i] = m
      BY <2>4
    <3>2. i \in 1 .. n /\ col[i] = x[i] /\ shown[m] = x[i]
      BY <2>2, <3>1
    <3>3. \A k \in 1 .. n : k # i => col[k] = 0
      BY <2>2, <3>1
    <3>4. SumOf(col) = col[i]
      BY <2>3, <3>2, <3>3, OneTerm
    <3> QED
      BY <2>1, <3>2, <3>4
  <2>5. CASE ~ \E i \in E : at[i] = m
    <3>1. \A k \in 1 .. n : col[k] = 0
      BY <2>2, <2>5
    <3>2. SumOf(col) = n * 0
      BY <2>3, <3>1, SumOfSame
    <3>3. shown[m] = 0
      BY <2>5
    <3> QED
      BY <2>1, <3>2, <3>3
  <2> QED
    BY <2>4, <2>5
<1>6. [i \in 1 .. n |-> SumOf(a[i])] = [k \in 1 .. n |-> IF k \in E THEN x[k] ELSE 0]
  BY <1>4
<1>7. [m \in 1 .. w |-> SumOf([i \in 1 .. n |-> a[i][m]])] = shown
  BY <1>5
<1>8. SumOf(AtPositions(x, E)) = SumOf([k \in 1 .. n |-> IF k \in E THEN x[k] ELSE 0])
  BY SumSelected
<1> QED
  BY <1>3, <1>6, <1>7, <1>8

\* The largest and the smallest of some numbers.
LEMMA Extremes ==
  ASSUME NEW n \in Nat \ {0}, NEW f \in [1 .. n -> Int], NEW S, S = {f[i] : i \in 1 .. n}
  PROVE  /\ Biggest(S) \in S /\ Biggest(S) \in Int /\ \A m \in S : m <= Biggest(S)
         /\ Smallest(S) \in S /\ Smallest(S) \in Int /\ \A m \in S : Smallest(S) <= m
<1>1. S \in SUBSET Int
  OBVIOUS
<1>2. 1 .. n \in SUBSET (1 .. n) /\ 1 .. n # {} /\ n \in Nat
  OBVIOUS
<1>3. PICK i \in 1 .. n : \A k \in 1 .. n : f[k] <= f[i]
  BY <1>2, LargestOf
<1>4. PICK g \in [1 .. n -> Int] : \A k \in 1 .. n : g[k] = -f[k]
  <2>1. [k \in 1 .. n |-> -f[k]] \in [1 .. n -> Int]
    OBVIOUS
  <2> QED
    BY <2>1
<1>5. PICK j \in 1 .. n : \A k \in 1 .. n : g[k] <= g[j]
  BY <1>2, LargestOf
<1>6. f[i] \in S /\ \A m \in S : m <= f[i]
  BY <1>3
<1>7. f[j] \in S /\ \A m \in S : f[j] <= m
  <2>1. \A k \in 1 .. n : f[j] <= f[k]
    BY <1>4, <1>5
  <2> QED
    BY <2>1
<1>8. Biggest(S) \in S /\ \A m \in S : m <= Biggest(S)
  BY <1>6 DEF Biggest
<1>9. Smallest(S) \in S /\ \A m \in S : Smallest(S) <= m
  BY <1>7 DEF Smallest
<1> QED
  BY <1>1, <1>8, <1>9

\* The cells of a role in a month.
Here(role, month) == {i \in DOMAIN data : data[i].role = role /\ data[i].month = month}

\* The grid shows the one cell there is at a place, or nothing.
LEMMA CellShown ==
  ASSUME ChartsInv, chart = "heatmap", ValidateInsiderHeatmap,
         NEW role \in ToSet(HeatRoles), NEW k \in 1 .. Len(HeatMonths)
  PROVE  LET cell == HeatmapGrid[role][k]
         IN  /\ \A i \in Here(role, HeatMonths[k]) : cell = data[i]
             /\ Here(role, HeatMonths[k]) = {} => cell.count = 0 /\ cell.net = 0 /\ cell.gross = 0
<1>1. PICK n \in Nat : n = Len(data) /\ DOMAIN data = 1 .. n
  BY EntriesTyped
<1>2. k \in DOMAIN HeatMonths
  BY ChartsAssumption
<1>3. PICK month : month = HeatMonths[k]
  OBVIOUS
<1>4. PICK H : H = Here(role, month)
  OBVIOUS
<1>5. H \in SUBSET (1 .. n) /\ H = {i \in DOMAIN data : data[i].role = role /\ data[i].month = month}
  BY <1>1, <1>4 DEF Here
<1>6. Where(data, LAMBDA cell : cell.role = role /\ cell.month = month) = AtPositions(data, H)
  BY <1>5 DEF Where
<1>7. PICK here : here = AtPositions(data, H)
  OBVIOUS
<1>8. HeatmapGrid[role][k] = IF here = <<>> THEN ZeroCell(role, month) ELSE Last(here)
  BY <1>2, <1>3, <1>6, <1>7 DEF HeatmapGrid, Mapped
<1>9. ASSUME NEW i \in H PROVE HeatmapGrid[role][k] = data[i]
  <2>1. \A j \in H : j = i
    <3> TAKE j \in H
    <3>1. i \in DOMAIN data /\ j \in DOMAIN data /\ data[i].role = data[j].role /\ data[i].month = data[j].month
      BY <1>5, <1>9
    <3>2. \A x, y \in DOMAIN data :
            <<data[x].role, data[x].month>> = <<data[y].role, data[y].month>> => x = y
      BY DEF ValidateInsiderHeatmap, Distinct
    <3> QED
      BY <3>1, <3>2
  <2>2. H = {i}
    BY <1>9, <2>1
  <2>3. Cardinality(H) = 1
    BY <2>2, FS_Singleton
  <2>4. 1 \in 1 .. Cardinality(H)
    BY <2>3
  <2>5. Nth(H, 1) \in H
    BY <1>5, <2>4, RankReached
  <2>6. Nth(H, 1) = i
    BY <2>1, <2>5
  <2>7. here = [x \in 1 .. 1 |-> data[Nth(H, x)]]
    BY <1>7, <2>3 DEF AtPositions
  <2>8. Len(here) = 1 /\ here[1] = data[i] /\ here # <<>>
    BY <2>6, <2>7
  <2> QED
    BY <1>8, <2>8 DEF Last
<1>10. ASSUME H = {} PROVE HeatmapGrid[role][k] = ZeroCell(role, month)
  <2>1. here = <<>>
    BY <1>5, <1>7, <1>10, FirstOfSelected
  <2> QED
    BY <1>8, <2>1
<1> QED
  BY <1>3, <1>4, <1>9, <1>10 DEF ZeroCell

\* The month, or the role, of each of the cells has a place.
PlaceOf(list, x) == CHOOSE k \in 1 .. Len(list) : list[k] = x

\* It is the only one, in a list without repetition.
LEMMA PlaceOfIs ==
  ASSUME NEW list, DOMAIN list = 1 .. Len(list), IsInjective(list), NEW x \in ToSet(list)
  PROVE  /\ PlaceOf(list, x) \in 1 .. Len(list) /\ list[PlaceOf(list, x)] = x
         /\ \A k \in 1 .. Len(list) : list[k] = x => k = PlaceOf(list, x)
<1>1. \E k \in 1 .. Len(list) : list[k] = x
  BY DEF ToSet
<1>2. PlaceOf(list, x) \in 1 .. Len(list) /\ list[PlaceOf(list, x)] = x
  BY <1>1 DEF PlaceOf
<1> QED
  BY <1>2 DEF IsInjective

\* The numbers of the cells, and what a role's row or a month's column shows of them.
ShowsRole(role, x, shown) ==
  /\ x \in [1 .. Len(data) -> Int] /\ shown \in [1 .. Len(HeatMonths) -> Int]
  /\ \A k \in 1 .. Len(HeatMonths) :
       /\ \A i \in Here(role, HeatMonths[k]) : shown[k] = x[i]
       /\ Here(role, HeatMonths[k]) = {} => shown[k] = 0

ShowsMonth(month, x, shown) ==
  /\ x \in [1 .. Len(data) -> Int] /\ shown \in [1 .. Len(HeatRoles) -> Int]
  /\ \A k \in 1 .. Len(HeatRoles) :
       /\ \A i \in Here(HeatRoles[k], month) : shown[k] = x[i]
       /\ Here(HeatRoles[k], month) = {} => shown[k] = 0

\* A row, and a column, adds up to the numbers of its role or month.
LEMMA RoleLine ==
  ASSUME ChartsInv, chart = "heatmap", ValidateInsiderHeatmap, NEW role \in ToSet(HeatRoles),
         NEW x, NEW shown, ShowsRole(role, x, shown)
  PROVE  SumOf(AtPositions(x, {i \in DOMAIN data : data[i].role = role})) = SumOf(shown)
<1>1. PICK n \in Nat : n = Len(data) /\ DOMAIN data = 1 .. n
  BY EntriesTyped
<1>2. PICK w \in Nat : w = Len(HeatMonths) /\ DOMAIN HeatMonths = 1 .. w /\ IsInjective(HeatMonths)
  <2>1. IsInjective(HeatMonths)
    BY Zenon DEF ValidateInsiderHeatmap
  <2> QED
    BY <2>1, ChartsAssumption
<1>3. PICK E : E = {i \in DOMAIN data : data[i].role = role}
  OBVIOUS
<1>4. PICK at : at = [i \in 1 .. n |-> PlaceOf(HeatMonths, data[i].month)]
  OBVIOUS
<1>5. \A i \in 1 .. n : data[i].month \in ToSet(HeatMonths)
  <2>1. \A i \in 1 .. n : data[i] \in ToSet(data)
    BY <1>1 DEF ToSet
  <2>2. \A cell \in ToSet(data) : cell.month \in ToSet(HeatMonths) /\ cell.role \in ToSet(HeatRoles)
    BY Zenon DEF ValidateInsiderHeatmap
  <2> QED
    BY <2>1, <2>2
<1>6. ASSUME NEW i \in 1 .. n
      PROVE  /\ at[i] \in 1 .. w /\ HeatMonths[at[i]] = data[i].month
             /\ \A k \in 1 .. w : HeatMonths[k] = data[i].month => k = at[i]
  <2>1. at[i] = PlaceOf(HeatMonths, data[i].month)
    BY <1>4
  <2> QED
    BY <1>2, <1>5, <2>1, PlaceOfIs
<1>7. \A i \in E, k \in 1 .. w : i \in Here(role, HeatMonths[k]) <=> at[i] = k
  BY <1>1, <1>3, <1>6 DEF Here
<1>8. \A k \in 1 .. w : \A i \in Here(role, HeatMonths[k]) : i \in E
  BY <1>3 DEF Here
<1>9. \A i, j \in E : at[i] = at[j] => i = j
  <2> TAKE i, j \in E
  <2> HAVE at[i] = at[j]
  <2>1. i \in DOMAIN data /\ j \in DOMAIN data /\ data[i].role = data[j].role /\ data[i].month = data[j].month
    BY <1>1, <1>3, <1>6
  <2>2. \A a, b \in DOMAIN data :
          <<data[a].role, data[a].month>> = <<data[b].role, data[b].month>> => a = b
    BY DEF ValidateInsiderHeatmap, Distinct
  <2> QED
    BY <2>1, <2>2
<1>10. E \in SUBSET (1 .. n)
  BY <1>1, <1>3
<1>11. Lined(n, w, x, E, at, shown)
  <2>1. at \in [1 .. n -> 1 .. w]
    BY <1>4, <1>6
  <2>2. x \in [1 .. n -> Int] /\ shown \in [1 .. w -> Int]
    BY <1>1, <1>2 DEF ShowsRole
  <2>3. \A k \in 1 .. w : /\ \A i \in Here(role, HeatMonths[k]) : shown[k] = x[i]
                          /\ Here(role, HeatMonths[k]) = {} => shown[k] = 0
    BY <1>2 DEF ShowsRole
  <2>4. \A i \in E : at[i] \in 1 .. w
    BY <1>6, <1>10
  <2>5. \A i \in E : shown[at[i]] = x[i]
    <3> TAKE i \in E
    <3>1. PICK k \in 1 .. w : k = at[i]
      BY <2>4
    <3>2. i \in Here(role, HeatMonths[k])
      BY <1>7, <3>1
    <3>3. shown[k] = x[i]
      BY <2>3, <3>2
    <3> QED
      BY <3>1, <3>3
  <2>6. \A k \in 1 .. w : (\A i \in E : at[i] # k) => shown[k] = 0
    BY <1>7, <1>8, <2>3
  <2> QED
    BY <1>9, <1>10, <2>1, <2>2, <2>5, <2>6 DEF Lined
<1> QED
  BY <1>3, <1>11, LineAddsUp

\* A column adds up to the numbers of its month.
LEMMA MonthLine ==
  ASSUME ChartsInv, chart = "heatmap", ValidateInsiderHeatmap, NEW month \in ToSet(HeatMonths),
         NEW x, NEW shown, ShowsMonth(month, x, shown)
  PROVE  SumOf(AtPositions(x, {i \in DOMAIN data : data[i].month = month})) = SumOf(shown)
<1>1. PICK n \in Nat : n = Len(data) /\ DOMAIN data = 1 .. n
  BY EntriesTyped
<1>2. PICK w \in Nat : w = Len(HeatRoles) /\ DOMAIN HeatRoles = 1 .. w /\ IsInjective(HeatRoles)
  BY ChartsAssumption
<1>3. PICK E : E = {i \in DOMAIN data : data[i].month = month}
  OBVIOUS
<1>4. PICK at : at = [i \in 1 .. n |-> PlaceOf(HeatRoles, data[i].role)]
  OBVIOUS
<1>5. \A i \in 1 .. n : data[i].role \in ToSet(HeatRoles)
  <2>1. \A i \in 1 .. n : data[i] \in ToSet(data)
    BY <1>1 DEF ToSet
  <2>2. \A cell \in ToSet(data) : cell.month \in ToSet(HeatMonths) /\ cell.role \in ToSet(HeatRoles)
    BY Zenon DEF ValidateInsiderHeatmap
  <2> QED
    BY <2>1, <2>2
<1>6. ASSUME NEW i \in 1 .. n
      PROVE  /\ at[i] \in 1 .. w /\ HeatRoles[at[i]] = data[i].role
             /\ \A k \in 1 .. w : HeatRoles[k] = data[i].role => k = at[i]
  <2>1. at[i] = PlaceOf(HeatRoles, data[i].role)
    BY <1>4
  <2> QED
    BY <1>2, <1>5, <2>1, PlaceOfIs
<1>7. \A i \in E, k \in 1 .. w : i \in Here(HeatRoles[k], month) <=> at[i] = k
  BY <1>1, <1>3, <1>6 DEF Here
<1>8. \A k \in 1 .. w : \A i \in Here(HeatRoles[k], month) : i \in E
  BY <1>3 DEF Here
<1>9. \A i, j \in E : at[i] = at[j] => i = j
  <2> TAKE i, j \in E
  <2> HAVE at[i] = at[j]
  <2>1. i \in DOMAIN data /\ j \in DOMAIN data /\ data[i].role = data[j].role /\ data[i].month = data[j].month
    BY <1>1, <1>3, <1>6
  <2>2. \A a, b \in DOMAIN data :
          <<data[a].role, data[a].month>> = <<data[b].role, data[b].month>> => a = b
    BY DEF ValidateInsiderHeatmap, Distinct
  <2> QED
    BY <2>1, <2>2
<1>10. E \in SUBSET (1 .. n)
  BY <1>1, <1>3
<1>11. Lined(n, w, x, E, at, shown)
  <2>1. at \in [1 .. n -> 1 .. w]
    BY <1>4, <1>6
  <2>2. x \in [1 .. n -> Int] /\ shown \in [1 .. w -> Int]
    BY <1>1, <1>2 DEF ShowsMonth
  <2>3. \A k \in 1 .. w : /\ \A i \in Here(HeatRoles[k], month) : shown[k] = x[i]
                          /\ Here(HeatRoles[k], month) = {} => shown[k] = 0
    BY <1>2 DEF ShowsMonth
  <2>4. \A i \in E : at[i] \in 1 .. w
    BY <1>6, <1>10
  <2>5. \A i \in E : shown[at[i]] = x[i]
    <3> TAKE i \in E
    <3>1. PICK k \in 1 .. w : k = at[i]
      BY <2>4
    <3>2. i \in Here(HeatRoles[k], month)
      BY <1>7, <3>1
    <3>3. shown[k] = x[i]
      BY <2>3, <3>2
    <3> QED
      BY <3>1, <3>3
  <2>6. \A k \in 1 .. w : (\A i \in E : at[i] # k) => shown[k] = 0
    BY <1>7, <1>8, <2>3
  <2> QED
    BY <1>9, <1>10, <2>1, <2>2, <2>5, <2>6 DEF Lined
<1> QED
  BY <1>3, <1>11, LineAddsUp

\* A valid heatmap adds up both ways, and its darkest cell is its largest.
LEMMA HeatmapAdded ==
  ASSUME ChartsInv
  PROVE  HeatmapAddsUp
<1> SUFFICES ASSUME chart = "heatmap", ValidateInsiderHeatmap
             PROVE  /\ RolesAddUp /\ MonthsAddUp
                    /\ \A i, j \in DOMAIN data :
                         data[i].gross < data[j].gross =>
                           HeatmapIntensities[i].intensity <= HeatmapIntensities[j].intensity
                    /\ (\E cell \in ToSet(data) : cell.gross > 0) =>
                         \E i \in DOMAIN data : HeatmapIntensities[i].intensity = 10000
  BY DEF HeatmapAddsUp
<1>1. PICK n \in Nat : n = Len(data) /\ DOMAIN data = 1 .. n
  BY EntriesTyped
<1>2. PICK w \in Nat : w = Len(HeatMonths) /\ DOMAIN HeatMonths = 1 .. w
  BY ChartsAssumption
<1>3. PICK v \in Nat : v = Len(HeatRoles) /\ DOMAIN HeatRoles = 1 .. v
  BY ChartsAssumption
<1>4. \A i \in 1 .. n : data[i].count \in Int /\ data[i].net \in Int /\ data[i].gross \in Int
  BY <1>1, EntriesTyped DEF Drawable
<1>5. PICK count, net, gross : /\ count = [i \in 1 .. n |-> data[i].count]
                               /\ net = [i \in 1 .. n |-> data[i].net]
                               /\ gross = [i \in 1 .. n |-> data[i].gross]
  OBVIOUS
<1>6. count \in [1 .. n -> Int] /\ net \in [1 .. n -> Int] /\ gross \in [1 .. n -> Int]
  BY <1>4, <1>5
<1>7. PICK grid : grid = HeatmapGrid
  OBVIOUS
<1>8. ASSUME NEW E \in SUBSET (1 .. n)
      PROVE  /\ Mapped(AtPositions(data, E), LAMBDA cell : cell.count) = AtPositions(count, E)
             /\ Mapped(AtPositions(data, E), LAMBDA cell : cell.net) = AtPositions(net, E)
             /\ Mapped(AtPositions(data, E), LAMBDA cell : cell.gross) = AtPositions(gross, E)
  <2>1. \A k \in 1 .. Cardinality(E) : Nth(E, k) \in 1 .. n
    BY <1>8, RankReached
  <2>2. \A k \in 1 .. Cardinality(E) : /\ count[Nth(E, k)] = data[Nth(E, k)].count
                                       /\ net[Nth(E, k)] = data[Nth(E, k)].net
                                       /\ gross[Nth(E, k)] = data[Nth(E, k)].gross
    BY <1>5, <2>1
  <2> QED
    BY <2>2 DEF Mapped, AtPositions
<1>9. ASSUME NEW E \in SUBSET (1 .. n)
      PROVE  /\ Totals(AtPositions(data, E)).count = SumOf(AtPositions(count, E))
             /\ Totals(AtPositions(data, E)).net = SumOf(AtPositions(net, E))
             /\ Totals(AtPositions(data, E)).gross = SumOf(AtPositions(gross, E))
  BY <1>8, <1>9 DEF Totals
<1>10. ASSUME NEW role \in ToSet(HeatRoles)
       PROVE  /\ RoleTotals[role].net = SumOf(Mapped(grid[role], LAMBDA cell : cell.net))
              /\ RoleTotals[role].count = SumOf(Mapped(grid[role], LAMBDA cell : cell.count))
  <2>1. PICK E : E = {i \in DOMAIN data : data[i].role = role}
    OBVIOUS
  <2>2. RoleTotals[role] = Totals(AtPositions(data, E)) /\ E \in SUBSET (1 .. n)
    BY <1>1, <2>1 DEF RoleTotals, Where
  <2>3. DOMAIN grid[role] = 1 .. w
    BY <1>2, <1>7 DEF HeatmapGrid, Mapped
  <2>4. PICK counts, nets : /\ counts = [k \in 1 .. w |-> grid[role][k].count]
                            /\ nets = [k \in 1 .. w |-> grid[role][k].net]
    OBVIOUS
  <2>5. /\ Mapped(grid[role], LAMBDA cell : cell.count) = counts
        /\ Mapped(grid[role], LAMBDA cell : cell.net) = nets
    BY <2>3, <2>4 DEF Mapped
  <2>6. ASSUME NEW k \in 1 .. w
        PROVE  /\ counts[k] \in Int /\ nets[k] \in Int
               /\ \A i \in Here(role, HeatMonths[k]) : counts[k] = count[i] /\ nets[k] = net[i]
               /\ Here(role, HeatMonths[k]) = {} => counts[k] = 0 /\ nets[k] = 0
    <3>1. PICK cell : cell = grid[role][k]
      OBVIOUS
    <3>2. /\ \A i \in Here(role, HeatMonths[k]) : cell = data[i]
          /\ Here(role, HeatMonths[k]) = {} => cell.count = 0 /\ cell.net = 0
      BY <1>2, <1>7, <3>1, CellShown
    <3>3. counts[k] = cell.count /\ nets[k] = cell.net
      BY <2>4, <3>1
    <3>4. \A i \in Here(role, HeatMonths[k]) : i \in 1 .. n
      BY <1>1 DEF Here
    <3>5. \A i \in 1 .. n : count[i] = data[i].count /\ net[i] = data[i].net
      BY <1>5
    <3>6. \A i \in Here(role, HeatMonths[k]) : counts[k] = count[i] /\ nets[k] = net[i]
      BY <3>2, <3>3, <3>4, <3>5
    <3>7. counts[k] \in Int /\ nets[k] \in Int
      <4>1. CASE Here(role, HeatMonths[k]) = {}
        BY <3>2, <3>3, <4>1
      <4>2. CASE Here(role, HeatMonths[k]) # {}
        BY <1>4, <3>4, <3>5, <3>6, <4>2
      <4> QED
        BY <4>1, <4>2
    <3> QED
      BY <3>2, <3>3, <3>6, <3>7
  <2>7. counts \in [1 .. w -> Int] /\ nets \in [1 .. w -> Int]
    BY <2>4, <2>6
  <2>8. ShowsRole(role, count, counts) /\ ShowsRole(role, net, nets)
    BY <1>1, <1>2, <1>6, <2>6, <2>7 DEF ShowsRole
  <2>9. SumOf(AtPositions(count, E)) = SumOf(counts) /\ SumOf(AtPositions(net, E)) = SumOf(nets)
    BY <2>1, <2>8, RoleLine
  <2> QED
    BY <1>9, <2>2, <2>5, <2>9
<1>11. ASSUME NEW k \in DOMAIN HeatMonths
       PROVE  MonthTotals[HeatMonths[k]].gross = SumOf(Mapped(HeatRoles, LAMBDA role : HeatmapGrid[role][k].gross))
  <2>1. PICK month : month = HeatMonths[k]
    OBVIOUS
  <2>2. month \in ToSet(HeatMonths) /\ k \in 1 .. w
    BY <1>2, <1>11, <2>1 DEF ToSet
  <2>3. PICK E : E = {i \in DOMAIN data : data[i].month = month}
    OBVIOUS
  <2>4. MonthTotals[month] = Totals(AtPositions(data, E)) /\ E \in SUBSET (1 .. n)
    BY <1>1, <2>2, <2>3 DEF MonthTotals, Where
  <2>5. PICK shown : shown = [j \in 1 .. v |-> grid[HeatRoles[j]][k].gross]
    OBVIOUS
  <2>6. Mapped(HeatRoles, LAMBDA role : HeatmapGrid[role][k].gross) = shown
    BY <1>3, <1>7, <2>5 DEF Mapped
  <2>7. ASSUME NEW j \in 1 .. v
        PROVE  /\ shown[j] \in Int
               /\ \A i \in Here(HeatRoles[j], month) : shown[j] = gross[i]
               /\ Here(HeatRoles[j], month) = {} => shown[j] = 0
    <3>1. PICK role \in ToSet(HeatRoles) : role = HeatRoles[j]
      BY <1>3 DEF ToSet
    <3>2. PICK cell : cell = grid[role][k]
      OBVIOUS
    <3>3. /\ \A i \in Here(role, month) : cell = data[i]
          /\ Here(role, month) = {} => cell.gross = 0
      BY <1>2, <1>7, <2>1, <2>2, <3>2, CellShown
    <3>4. shown[j] = cell.gross
      BY <2>5, <3>1, <3>2
    <3>5. \A i \in Here(role, month) : i \in 1 .. n
      BY <1>1 DEF Here
    <3> QED
      BY <1>4, <1>5, <3>1, <3>3, <3>4, <3>5
  <2>8. shown \in [1 .. v -> Int]
    BY <2>5, <2>7
  <2>9. ShowsMonth(month, gross, shown)
    BY <1>1, <1>3, <1>6, <2>7, <2>8 DEF ShowsMonth
  <2>10. SumOf(AtPositions(gross, E)) = SumOf(shown)
    BY <2>2, <2>3, <2>9, MonthLine
  <2> QED
    BY <1>9, <2>1, <2>4, <2>6, <2>10
<1>12. PICK S : S = {0} \cup {cell.gross : cell \in ToSet(data)}
  OBVIOUS
<1>13. PICK f : f = [k \in 1 .. n + 1 |-> IF k = n + 1 THEN 0 ELSE gross[k]]
  OBVIOUS
<1>14. f \in [1 .. n + 1 -> Int] /\ n + 1 \in Nat \ {0}
  BY <1>6, <1>13
<1>15. S = {f[k] : k \in 1 .. n + 1}
  <2>1. S = {0} \cup {gross[k] : k \in 1 .. n}
    BY <1>1, <1>5, <1>12 DEF ToSet
  <2>2. f[n + 1] = 0 /\ n + 1 \in 1 .. n + 1
    BY <1>13
  <2>3. \A k \in 1 .. n : k \in 1 .. n + 1 /\ f[k] = gross[k]
    BY <1>13
  <2>4. \A k \in 1 .. n + 1 : k = n + 1 \/ k \in 1 .. n
    OBVIOUS
  <2> QED
    BY <2>1, <2>2, <2>3, <2>4
<1>16. PICK max \in Int : max = Biggest(S) /\ max \in S /\ \A x \in S : x <= max
  BY <1>14, <1>15, Extremes
<1>17. max \in Nat /\ \A i \in 1 .. n : gross[i] <= max
  <2>1. 0 \in S /\ \A i \in 1 .. n : gross[i] \in S
    BY <1>1, <1>5, <1>12 DEF ToSet
  <2>2. \A i \in 1 .. n : gross[i] <= max
    BY <1>16, <2>1
  <2>3. 0 <= max
    BY <1>16, <2>1
  <2> QED
    BY <2>2, <2>3
<1>18. \A i \in 1 .. n :
         HeatmapIntensities[i].intensity = IF max > 0 THEN Rounded(10000 * gross[i], max) ELSE 0
  <2>1. HeatmapIntensities = [i \in 1 .. n |->
          [intensity |-> IF max > 0 THEN Rounded(10000 * data[i].gross, max) ELSE 0,
           direction |-> IF data[i].net > 0 THEN 1 ELSE IF data[i].net < 0 THEN -1 ELSE 0]]
    BY <1>1, <1>12, <1>16 DEF HeatmapIntensities, Mapped
  <2> QED
    BY <1>5, <2>1
<1>19. ASSUME NEW i \in 1 .. n, NEW j \in 1 .. n, gross[i] < gross[j]
       PROVE  HeatmapIntensities[i].intensity <= HeatmapIntensities[j].intensity
  <2>1. CASE max > 0
    <3>1. PICK d \in Nat \ {0} : d = 2 * max
      BY <2>1
    <3>2. PICK x, y \in Int : x = gross[i] /\ y = gross[j] /\ x < y
      BY <1>6, <1>19
    <3>3. PICK a, b \in Int : a = 2 * (10000 * x) + max /\ b = 2 * (10000 * y) + max /\ a <= b
      BY <3>2
    <3>4. \A k, l \in Int, z \in Nat \ {0} : k <= l => k \div z <= l \div z
      OBVIOUS
    <3>5. a \div d <= b \div d
      BY <3>3, <3>4
    <3>6. /\ HeatmapIntensities[i].intensity = a \div d
          /\ HeatmapIntensities[j].intensity = b \div d
      BY <1>18, <2>1, <3>1, <3>2, <3>3 DEF Rounded
    <3> QED
      BY <3>5, <3>6
  <2>2. CASE ~(max > 0)
    BY <1>18, <2>2
  <2> QED
    BY <2>1, <2>2
<1>20. ASSUME NEW cell \in ToSet(data), cell.gross > 0
       PROVE  \E i \in 1 .. n : HeatmapIntensities[i].intensity = 10000
  <2>1. PICK k \in 1 .. n : cell = data[k]
    BY <1>1 DEF ToSet
  <2>2. max > 0
    BY <1>5, <1>6, <1>17, <1>20, <2>1
  <2>3. PICK i \in 1 .. n : gross[i] = max
    <3>1. \E x \in 1 .. n + 1 : f[x] = max
      BY <1>15, <1>16
    <3>2. PICK x \in 1 .. n + 1 : f[x] = max
      BY <3>1
    <3>3. x # n + 1
      BY <1>13, <2>2, <3>2
    <3>4. x \in 1 .. n /\ gross[x] = max
      BY <1>13, <3>2, <3>3
    <3> QED
      BY <3>4
  <2>4. PICK x \in Int : x = 10000 * max
    OBVIOUS
  <2>5. max \in Nat \ {0}
    BY <1>17, <2>2
  <2>6. PICK r \in Int : r = Rounded(x, max)
    BY <2>5, RoundedIs
  <2>7. r = Rounded(x, max) /\ 2 * (max * r) - 2 * x <= max /\ 2 * x - 2 * (max * r) <= max
    BY <2>5, <2>6, RoundedNear
  <2>8. PICK e \in Int : e = r - 10000
    OBVIOUS
  <2>9. max * e = max * r - x
    BY <2>4, <2>8
  <2>10. e = 0
    <3>1. \A y \in Int : y > 0 => max <= max * y
      BY <2>2
    <3>2. \A y \in Int : y < 0 => max * y <= -max
      BY <2>2
    <3> QED
      BY <2>2, <2>7, <2>9, <3>1, <3>2
  <2> QED
    BY <1>18, <2>2, <2>3, <2>4, <2>7, <2>8, <2>10
<1>21. \A i, j \in DOMAIN data : data[i].gross < data[j].gross =>
         HeatmapIntensities[i].intensity <= HeatmapIntensities[j].intensity
  <2>1. \A i \in 1 .. n : gross[i] = data[i].gross
    BY <1>5
  <2> QED
    BY <1>1, <1>19, <2>1
<1>22. (\E cell \in ToSet(data) : cell.gross > 0) =>
         \E i \in DOMAIN data : HeatmapIntensities[i].intensity = 10000
  BY <1>1, <1>20
<1>23. RolesAddUp
  BY <1>7, <1>10 DEF RolesAddUp
<1>24. MonthsAddUp
  BY <1>11 DEF MonthsAddUp
<1> QED
  BY <1>21, <1>22, <1>23, <1>24


------------------------------------------------------------------------------
(* The summary of a restatement.                                             *)

\* The first of the largest changes, of the first k.
Maxes(diffs, f, n) ==
  f = [k \in 0 .. n |->
        IF k = 0 THEN [pct |-> 0, lineItem |-> NoValue]
        ELSE IF Magnitude(diffs[k].pctChange) > f[k - 1].pct
             THEN [pct |-> Magnitude(diffs[k].pctChange), lineItem |-> diffs[k].lineItem]
             ELSE f[k - 1]]

\* The recursion has a solution, for every number of changes.
LEMMA MaxesExist ==
  ASSUME NEW n \in Nat, NEW diffs
  PROVE  \E f : Maxes(diffs, f, n)
<1> DEFINE S == {k \in 0 .. n : \E f : Maxes(diffs, f, k)}
<1>1. 0 \in S
  <2>1. PICK f : f = [k \in 0 .. 0 |-> [pct |-> 0, lineItem |-> NoValue]]
    OBVIOUS
  <2>2. Maxes(diffs, f, 0)
    BY <2>1 DEF Maxes
  <2> QED
    BY <2>2
<1>2. ASSUME NEW k \in 1 .. n, k - 1 \in S PROVE k \in S
  <2>1. PICK f : Maxes(diffs, f, k - 1)
    BY <1>2
  <2>2. PICK last : last = IF Magnitude(diffs[k].pctChange) > f[k - 1].pct
                           THEN [pct |-> Magnitude(diffs[k].pctChange), lineItem |-> diffs[k].lineItem]
                           ELSE f[k - 1]
    OBVIOUS
  <2>3. PICK new : new = [j \in 0 .. k |-> IF j = k THEN last ELSE f[j]]
    OBVIOUS
  <2>4. DOMAIN new = 0 .. k /\ new[k] = last /\ \A j \in 0 .. k - 1 : new[j] = f[j]
    BY <2>3
  <2>5. \A j \in 0 .. k :
          new[j] = IF j = 0 THEN [pct |-> 0, lineItem |-> NoValue]
                   ELSE IF Magnitude(diffs[j].pctChange) > new[j - 1].pct
                        THEN [pct |-> Magnitude(diffs[j].pctChange), lineItem |-> diffs[j].lineItem]
                        ELSE new[j - 1]
    <3> SUFFICES ASSUME NEW j \in 0 .. k
                 PROVE  new[j] = IF j = 0 THEN [pct |-> 0, lineItem |-> NoValue]
                                 ELSE IF Magnitude(diffs[j].pctChange) > new[j - 1].pct
                                      THEN [pct |-> Magnitude(diffs[j].pctChange), lineItem |-> diffs[j].lineItem]
                                      ELSE new[j - 1]
      OBVIOUS
    <3>1. CASE j = k
      <4>1. new[j - 1] = f[k - 1] /\ j # 0
        BY <2>4, <3>1
      <4> QED
        BY <2>2, <2>4, <3>1, <4>1
    <3>2. CASE j # k
      <4>1. f[j] = IF j = 0 THEN [pct |-> 0, lineItem |-> NoValue]
                   ELSE IF Magnitude(diffs[j].pctChange) > f[j - 1].pct
                        THEN [pct |-> Magnitude(diffs[j].pctChange), lineItem |-> diffs[j].lineItem]
                        ELSE f[j - 1]
        BY <2>1, <3>2 DEF Maxes
      <4>2. new[j] = f[j] /\ (j # 0 => new[j - 1] = f[j - 1])
        BY <2>4, <3>2
      <4> QED
        BY <4>1, <4>2
    <3> QED
      BY <3>1, <3>2
  <2>6. Maxes(diffs, new, k)
    BY <2>3, <2>5 DEF Maxes
  <2> QED
    BY <2>6
<1> HIDE DEF S
<1>3. 0 .. n \subseteq S
  BY <1>1, <1>2, UpTo
<1> QED
  BY <1>3 DEF S

\* It is none of them, or one that no other exceeds.
LargestIs(diffs, f, k) ==
  /\ f[k].pct \in Nat
  /\ \A i \in 1 .. k : Magnitude(diffs[i].pctChange) <= f[k].pct
  /\ f[k].pct > 0 => \E i \in 1 .. k : /\ Magnitude(diffs[i].pctChange) = f[k].pct
                                       /\ diffs[i].lineItem = f[k].lineItem

\* What the recursion finds is the largest change.
LEMMA MaxesTell ==
  ASSUME NEW n \in Nat, NEW diffs, \A i \in 1 .. n : diffs[i].pctChange \in Int, NEW f, Maxes(diffs, f, n)
  PROVE  LargestIs(diffs, f, n)
<1> DEFINE S == {k \in 0 .. n : LargestIs(diffs, f, k)}
<1>1. f[0] = [pct |-> 0, lineItem |-> NoValue]
  BY DEF Maxes
<1>2. 0 \in S
  BY <1>1 DEF LargestIs
<1>3. ASSUME NEW k \in 1 .. n, k - 1 \in S PROVE k \in S
  <2>1. PICK x \in Nat : x = Magnitude(diffs[k].pctChange)
    BY DEF Magnitude
  <2>2. PICK before : before = f[k - 1]
    OBVIOUS
  <2>3. /\ before.pct \in Nat
        /\ \A i \in 1 .. k - 1 : Magnitude(diffs[i].pctChange) <= before.pct
        /\ before.pct > 0 => \E i \in 1 .. k - 1 : /\ Magnitude(diffs[i].pctChange) = before.pct
                                                   /\ diffs[i].lineItem = before.lineItem
    BY <1>3, <2>2 DEF LargestIs
  <2>4. f[k] = IF x > before.pct THEN [pct |-> x, lineItem |-> diffs[k].lineItem] ELSE before
    <3>1. f[k] = IF Magnitude(diffs[k].pctChange) > f[k - 1].pct
                 THEN [pct |-> Magnitude(diffs[k].pctChange), lineItem |-> diffs[k].lineItem]
                 ELSE f[k - 1]
      BY DEF Maxes
    <3> QED
      BY <2>1, <2>2, <3>1
  <2>5. \A i \in 1 .. k : i \in 1 .. k - 1 \/ i = k
    OBVIOUS
  <2>6. \A i \in 1 .. k - 1 : Magnitude(diffs[i].pctChange) \in Int
    BY DEF Magnitude
  <2>7. CASE x > before.pct
    <3>1. f[k].pct = x /\ f[k].lineItem = diffs[k].lineItem
      BY <2>4, <2>7
    <3>2. \A i \in 1 .. k : Magnitude(diffs[i].pctChange) <= x
      BY <2>1, <2>3, <2>5, <2>6, <2>7
    <3>3. LargestIs(diffs, f, k)
      BY <2>1, <3>1, <3>2 DEF LargestIs
    <3> QED
      BY <3>3
  <2>8. CASE ~(x > before.pct)
    <3>1. f[k] = before
      BY <2>4, <2>8
    <3>2. \A i \in 1 .. k : Magnitude(diffs[i].pctChange) <= before.pct
      BY <2>1, <2>3, <2>5, <2>8
    <3>3. LargestIs(diffs, f, k)
      BY <2>3, <3>1, <3>2 DEF LargestIs
    <3> QED
      BY <3>3
  <2> QED
    BY <2>7, <2>8
<1> HIDE DEF S
<1>4. 0 .. n \subseteq S
  BY <1>2, <1>3, UpTo
<1> QED
  BY <1>4 DEF S

\* The summary of a restatement and its material changes tell the same.
LEMMA SummaryMatches ==
  ASSUME ChartsInv
  PROVE  SummaryMatchesDiffs
<1> SUFFICES ASSUME chart = "restatement"
             PROVE  LET summary == RestatementSummary
                        material == MaterialDiffs
                    IN
                    /\ summary.materialCount = Len(material) /\ summary.itemCount = Len(data)
                    /\ \A d \in ToSet(RestatementDiffs) : Magnitude(d.pctChange) <= summary.maxAbsPctChange
                    /\ material # <<>> <=> summary.maxAbsPctChange >= 100 * MaterialityPct
                    /\ material # <<>> => \E d \in ToSet(material) :
                                            /\ d.lineItem = summary.maxAbsPctLineItem
                                            /\ Magnitude(d.pctChange) = summary.maxAbsPctChange
  BY DEF SummaryMatchesDiffs
<1>1. PICK n \in Nat : n = Len(data) /\ DOMAIN data = 1 .. n
  BY EntriesTyped
<1>2. PICK diffs : diffs = RestatementDiffs
  OBVIOUS
<1>3. DOMAIN diffs = 1 .. n /\ Len(diffs) = n /\ \A i \in 1 .. n : diffs[i] = Diff(data[i])
  BY <1>1, <1>2 DEF RestatementDiffs, Mapped
<1>4. PICK bar \in Nat \ {0} : bar = 100 * MaterialityPct
  BY ChartsAssumption
<1>5. ASSUME NEW i \in 1 .. n
      PROVE  /\ diffs[i].pctChange \in Int
             /\ diffs[i].isMaterial = (Magnitude(diffs[i].pctChange) >= bar)
  <2>1. data[i].original \in Int /\ data[i].restated \in Int
    BY <1>1, EntriesTyped DEF Drawable
  <2>2. PICK delta \in Int : delta = data[i].restated - data[i].original
    BY <2>1
  <2>3. data[i].original # 0 => Magnitude(data[i].original) \in Nat \ {0}
    BY <2>1 DEF Magnitude
  <2>4. 10000 * delta \in Int
    OBVIOUS
  <2>5. PICK pct \in Int : pct = IF data[i].original = 0 THEN 0
                                 ELSE Rounded(10000 * delta, Magnitude(data[i].original))
    <3>1. CASE data[i].original = 0
      BY <3>1
    <3>2. CASE data[i].original # 0
      <4>1. PICK d \in Nat \ {0}, x \in Int : d = Magnitude(data[i].original) /\ x = 10000 * delta
        BY <2>3, <2>4, <3>2
      <4>2. Rounded(x, d) \in Int
        BY RoundedIs
      <4> QED
        BY <3>2, <4>1, <4>2
    <3> QED
      BY <3>1, <3>2
  <2>6. Diff(data[i]).pctChange = pct /\ Diff(data[i]).isMaterial = (Magnitude(pct) >= bar)
    BY <1>4, <2>2, <2>5 DEF Diff
  <2> QED
    BY <1>3, <2>5, <2>6
<1>6. PICK M : M = {i \in DOMAIN diffs : diffs[i].isMaterial}
  OBVIOUS
<1>7. M \in SUBSET (1 .. n) /\ \A i \in 1 .. n : i \in M <=> Magnitude(diffs[i].pctChange) >= bar
  BY <1>3, <1>5, <1>6
<1>8. MaterialDiffs = AtPositions(diffs, M)
  BY <1>2, <1>6 DEF MaterialDiffs, Where
<1>9. PICK material : material = AtPositions(diffs, M)
  OBVIOUS
<1>10. material # <<>> <=> M # {}
  BY <1>7, <1>9, FirstOfSelected
<1>11. \A i \in M : diffs[i] \in ToSet(material)
  <2> TAKE i \in M
  <2>1. PICK k : k = PlaceIn(M, i)
    OBVIOUS
  <2>2. k \in 1 .. Cardinality(M) /\ Nth(M, k) = i
    BY <1>7, <2>1, NthIs
  <2>3. k \in DOMAIN material /\ material[k] = diffs[i]
    BY <1>9, <2>2 DEF AtPositions
  <2> QED
    BY <2>3 DEF ToSet
<1> DEFINE max == CHOOSE f : Maxes(diffs, f, n)
<1>12. Maxes(diffs, max, n)
  BY MaxesExist
<1>13. LargestIs(diffs, max, n)
  BY <1>5, <1>12, MaxesTell
<1>14. RestatementSummary = [itemCount |-> Len(diffs), materialCount |-> Len(MaterialDiffs),
                             maxAbsPctChange |-> max[n].pct, maxAbsPctLineItem |-> max[n].lineItem]
  BY <1>2, <1>3 DEF RestatementSummary, Maxes
<1> HIDE DEF max
<1>15. PICK largest : largest = max[n]
  OBVIOUS
<1>16. /\ largest.pct \in Nat
       /\ \A i \in 1 .. n : Magnitude(diffs[i].pctChange) <= largest.pct
       /\ largest.pct > 0 => \E i \in 1 .. n : /\ Magnitude(diffs[i].pctChange) = largest.pct
                                               /\ diffs[i].lineItem = largest.lineItem
  BY <1>13, <1>15 DEF LargestIs
<1>17. PICK summary : summary = RestatementSummary
  OBVIOUS
<1>18. /\ summary.materialCount = Len(MaterialDiffs) /\ summary.itemCount = Len(data)
       /\ summary.maxAbsPctChange = largest.pct /\ summary.maxAbsPctLineItem = largest.lineItem
  BY <1>1, <1>3, <1>14, <1>15, <1>17
<1>19. \A d \in ToSet(RestatementDiffs) : Magnitude(d.pctChange) <= summary.maxAbsPctChange
  BY <1>2, <1>3, <1>16, <1>18 DEF ToSet
<1>20. material # <<>> <=> largest.pct >= bar
  <2>1. ASSUME NEW i \in M PROVE largest.pct >= bar
    <3>1. PICK x \in Int : x = Magnitude(diffs[i].pctChange)
      BY <1>5, <1>7 DEF Magnitude
    <3> QED
      BY <1>7, <1>16, <3>1
  <2>2. ASSUME largest.pct >= bar PROVE M # {}
    <3>1. PICK i \in 1 .. n : Magnitude(diffs[i].pctChange) = largest.pct
      BY <1>16, <2>2
    <3> QED
      BY <1>7, <2>2, <3>1
  <2> QED
    BY <1>10, <2>1, <2>2
<1>21. material # <<>> => \E d \in ToSet(material) :
                            d.lineItem = largest.lineItem /\ Magnitude(d.pctChange) = largest.pct
  <2> HAVE material # <<>>
  <2>1. largest.pct >= bar /\ largest.pct > 0
    BY <1>16, <1>20
  <2>2. PICK i \in 1 .. n : Magnitude(diffs[i].pctChange) = largest.pct /\ diffs[i].lineItem = largest.lineItem
    BY <1>16, <2>1
  <2>3. i \in M
    BY <1>7, <2>1, <2>2
  <2> QED
    BY <1>11, <2>2, <2>3
<1> QED
  BY <1>4, <1>8, <1>9, <1>17, <1>18, <1>19, <1>20, <1>21

------------------------------------------------------------------------------
(* The centre of the peers.                                                  *)

\* As many as have a place from a to b, at most.
Covers(o, L, a, b) == \A i \in L : \E k \in a .. b : o[k] = i

\* What has a place from a to b is no more than these places are.
LEMMA PlacedWithin ==
  ASSUME NEW a \in Int, NEW b \in Int, a <= b + 1, NEW o, NEW L, Covers(o, L, a, b)
  PROVE  IsFiniteSet(L) /\ Cardinality(L) \in Nat /\ Cardinality(L) <= b - a + 1
<1>1. PICK T : T = {o[k] : k \in a .. b}
  OBVIOUS
<1>2. PICK f : f = [k \in a .. b |-> o[k]]
  OBVIOUS
<1>3. f \in Surjection(a .. b, T)
  BY <1>1, <1>2 DEF Surjection
<1>4. IsFiniteSet(a .. b) /\ Cardinality(a .. b) = b - a + 1
  <2>1. IsFiniteSet(a .. b) /\ Cardinality(a .. b) = IF a > b THEN 0 ELSE b - a + 1
    BY FS_Interval
  <2> QED
    BY <2>1
<1>5. IsFiniteSet(T) /\ Cardinality(T) <= Cardinality(a .. b)
  BY <1>3, <1>4, FS_Surjection
<1>6. L \in SUBSET T
  BY <1>1 DEF Covers
<1>7. IsFiniteSet(L) /\ Cardinality(L) <= Cardinality(T)
  BY <1>5, <1>6, FS_Subset
<1>8. Cardinality(L) \in Nat /\ Cardinality(T) \in Nat
  BY <1>5, <1>7, FS_CardinalityType
<1> QED
  BY <1>4, <1>5, <1>7, <1>8

\* The numbers of a list in order, s, each at the position o it comes from.
InOrder(n, list, s, o) ==
  /\ \A k \in 1 .. n : s[k] \in Int /\ o[k] \in 1 .. n /\ s[k] = list[o[k]]
  /\ \A i \in 1 .. n : \E k \in 1 .. n : o[k] = i
  /\ \A j, k \in 1 .. n : j <= k => s[j] <= s[k]

NumberList(list, n) == list \in Seq(Int) /\ Len(list) = n

Smaller(list) == {p \in (DOMAIN list) \X (DOMAIN list) : list[p[1]] < list[p[2]]}

\* Sorting puts the numbers of a list in order.
LEMMA PutInOrder ==
  ASSUME NEW n \in Nat \ {0}, NEW list, NumberList(list, n)
  PROVE  \E s, o : InOrder(n, list, s, o) /\ Len(s) = n /\ s = Sorted(list, Smaller(list))
<1>1. DOMAIN list = 1 .. n /\ \A i \in 1 .. n : list[i] \in Int
  BY DEF NumberList
<1>2. PICK B : B = Smaller(list)
  OBVIOUS
<1>3. \A i, j \in 1 .. n : <<i, j>> \in B <=> list[i] < list[j]
  BY <1>1, <1>2 DEF Smaller
<1>4. WeakOn(DOMAIN list, B)
  BY <1>1, <1>3 DEF WeakOn
<1>5. PICK s : s = Sorted(list, B)
  OBVIOUS
<1>6. PICK o : o = By(list, B)
  OBVIOUS
<1>7. s \in Seq(Int) /\ DOMAIN s = 1 .. n
  <2>1. list \in Seq(Int) /\ WeakOn(DOMAIN list, B)
    BY <1>4 DEF NumberList
  <2> QED
    BY <1>1, <1>5, <2>1, SortedIs
<1>8. \A k \in 1 .. n : o[k] \in 1 .. n /\ s[k] = list[o[k]]
  <2>1. list \in Seq(Int) /\ WeakOn(DOMAIN list, B)
    BY <1>4 DEF NumberList
  <2>2. \A k \in DOMAIN list : By(list, B)[k] \in DOMAIN list /\ Sorted(list, B)[k] = list[By(list, B)[k]]
    BY <2>1, SortedIs
  <2> QED
    BY <1>1, <1>5, <1>6, <2>2
<1>9. \A i \in 1 .. n : \E k \in 1 .. n : o[k] = i
  <2>1. list \in Seq(Int) /\ WeakOn(DOMAIN list, B)
    BY <1>4 DEF NumberList
  <2>2. \A i \in DOMAIN list : \E k \in DOMAIN list : By(list, B)[k] = i
    BY <2>1, SortedIs
  <2> QED
    BY <1>1, <1>6, <2>2
<1>10. \A j, k \in 1 .. n : j < k => <<o[k], o[j]>> \notin B
  <2>1. \A j, k \in DOMAIN list : j < k => <<By(list, B)[k], By(list, B)[j]>> \notin B
    <3>1. list \in Seq(Int) /\ WeakOn(DOMAIN list, B)
      BY <1>4 DEF NumberList
    <3> QED
      BY <3>1, SortedIs
  <2> QED
    BY <1>1, <1>6, <2>1
<1>11. \A k \in 1 .. n : s[k] \in Int
  BY <1>1, <1>8
<1>12. \A j, k \in 1 .. n : j <= k => s[j] <= s[k]
  <2> TAKE j, k \in 1 .. n
  <2> HAVE j <= k
  <2>1. PICK a, b \in 1 .. n : a = o[j] /\ b = o[k]
    BY <1>8
  <2>2. PICK x, y \in Int : x = s[j] /\ y = s[k]
    BY <1>11
  <2>3. x = list[a] /\ y = list[b]
    BY <1>8, <2>1, <2>2
  <2>4. CASE j = k
    BY <2>2, <2>4
  <2>5. CASE j < k
    <3>1. <<b, a>> \notin B
      BY <1>10, <2>1, <2>5
    <3>2. ~(y < x)
      BY <1>3, <2>3, <3>1
    <3> QED
      BY <2>2, <3>2
  <2> QED
    BY <2>4, <2>5
<1>13. InOrder(n, list, s, o)
  BY <1>8, <1>9, <1>11, <1>12 DEF InOrder
<1>14. Len(s) = n
  BY <1>7
<1> QED
  BY <1>2, <1>5, <1>13, <1>14

\* Those found at places from a to b only.
OnlyWithin(n, o, L, a, b) == \A k \in 1 .. n : o[k] \in L => k \in a .. b

\* They are no more than the places from a to b.
LEMMA FoundWithin ==
  ASSUME NEW n, NEW list, NEW s, NEW o, InOrder(n, list, s, o), NEW L \in SUBSET (1 .. n),
         NEW a \in Int, NEW b \in Int, a <= b + 1, OnlyWithin(n, o, L, a, b)
  PROVE  Cardinality(L) \in Nat /\ Cardinality(L) <= b - a + 1
<1>1. Covers(o, L, a, b)
  <2>1. \A i \in 1 .. n : \E k \in 1 .. n : o[k] = i
    BY DEF InOrder
  <2>2. \A k \in 1 .. n : o[k] \in L => k \in a .. b
    BY DEF OnlyWithin
  <2> QED
    BY <2>1, <2>2, Zenon DEF Covers
<1> QED
  BY <1>1, PlacedWithin

\* Below the middle of x and y is below y, above it is above x.
LEMMA BesideTheMiddle ==
  ASSUME NEW x \in Int, NEW y \in Int, NEW z \in Int, x <= y
  PROVE  /\ 2 * z < x + y => ~(y <= z)
         /\ 2 * z > x + y => ~(z <= x)
  OBVIOUS

\* At most half of some numbers are below their median, and at most half above it.
LEMMA HalfOnEitherSide ==
  ASSUME NEW n \in Nat \ {0}, NEW list, NumberList(list, n)
  PROVE  LET med == TwiceMedian(list)
         IN  /\ 2 * Cardinality({i \in 1 .. n : 2 * list[i] < med}) <= n
             /\ 2 * Cardinality({i \in 1 .. n : 2 * list[i] > med}) <= n
             /\ n = 1 => med = 2 * list[1]
<1>1. PICK s, o : InOrder(n, list, s, o) /\ Len(s) = n /\ s = Sorted(list, Smaller(list))
  BY PutInOrder
<1>2. PICK mid \in Nat : mid = n \div 2 /\ (n % 2 = 0 => n = 2 * mid) /\ (n % 2 # 0 => n = 2 * mid + 1)
  OBVIOUS
<1>3. PICK med : med = TwiceMedian(list)
  OBVIOUS
<1>4. med = IF n % 2 = 0 THEN s[mid] + s[mid + 1] ELSE 2 * s[mid + 1]
  BY <1>1, <1>2, <1>3 DEF TwiceMedian, StableSort, Smaller
<1>5. PICK low : low = {i \in 1 .. n : 2 * list[i] < med}
  OBVIOUS
<1>6. PICK high : high = {i \in 1 .. n : 2 * list[i] > med}
  OBVIOUS
<1>7. low \in SUBSET (1 .. n) /\ high \in SUBSET (1 .. n)
  BY <1>5, <1>6
<1>8. \A k \in 1 .. n : s[k] \in Int /\ o[k] \in 1 .. n /\ s[k] = list[o[k]]
  BY <1>1 DEF InOrder
<1>9. \A k \in 1 .. n : /\ o[k] \in low => 2 * s[k] < med
                        /\ o[k] \in high => 2 * s[k] > med
  BY <1>5, <1>6, <1>8
<1>10. \A j, k \in 1 .. n : j <= k => s[j] <= s[k]
  BY <1>1 DEF InOrder
<1>11. CASE n % 2 = 0
  <2>1. n = 2 * mid /\ mid \in 1 .. n /\ mid + 1 \in 1 .. n
    BY <1>2, <1>11
  <2>2. PICK x, y \in Int : x = s[mid] /\ y = s[mid + 1] /\ x <= y
    BY <1>8, <1>10, <2>1
  <2>3. med = x + y
    BY <1>4, <1>11, <2>2
  <2>4. OnlyWithin(n, o, low, 1, mid)
    <3> SUFFICES ASSUME NEW k \in 1 .. n, o[k] \in low
                 PROVE  k \in 1 .. mid
      BY DEF OnlyWithin
    <3>1. PICK z \in Int : z = s[k] /\ 2 * z < x + y
      BY <1>8, <1>9, <2>3
    <3>2. mid + 1 <= k => y <= z
      BY <1>10, <2>1, <2>2, <3>1
    <3>3. ~(y <= z)
      BY <2>2, <3>1, BesideTheMiddle
    <3> QED
      BY <3>2, <3>3
  <2>5. OnlyWithin(n, o, high, mid + 1, n)
    <3> SUFFICES ASSUME NEW k \in 1 .. n, o[k] \in high
                 PROVE  k \in mid + 1 .. n
      BY DEF OnlyWithin
    <3>1. PICK z \in Int : z = s[k] /\ 2 * z > x + y
      BY <1>8, <1>9, <2>3
    <3>2. k <= mid => z <= x
      BY <1>10, <2>1, <2>2, <3>1
    <3>3. ~(z <= x)
      BY <2>2, <3>1, BesideTheMiddle
    <3> QED
      BY <3>2, <3>3
  <2>6. Cardinality(low) \in Nat /\ Cardinality(low) <= mid - 1 + 1
    <3>1. 1 \in Int /\ mid \in Int /\ 1 <= mid + 1
      OBVIOUS
    <3> QED
      BY <1>1, <1>7, <2>4, <3>1, FoundWithin
  <2>7. Cardinality(high) \in Nat /\ Cardinality(high) <= n - (mid + 1) + 1
    <3>1. mid + 1 \in Int /\ n \in Int /\ mid + 1 <= n + 1
      BY <2>1
    <3> QED
      BY <1>1, <1>7, <2>5, <3>1, FoundWithin
  <2>8. 2 * Cardinality(low) <= n /\ 2 * Cardinality(high) <= n /\ n # 1
    BY <2>1, <2>6, <2>7
  <2> QED
    BY <1>3, <1>5, <1>6, <2>8
<1>12. CASE n % 2 # 0
  <2>1. n = 2 * mid + 1 /\ mid + 1 \in 1 .. n
    BY <1>2, <1>12
  <2>2. PICK y \in Int : y = s[mid + 1]
    BY <1>8, <2>1
  <2>3. med = 2 * y
    BY <1>4, <1>12, <2>2
  <2>4. OnlyWithin(n, o, low, 1, mid)
    <3> SUFFICES ASSUME NEW k \in 1 .. n, o[k] \in low
                 PROVE  k \in 1 .. mid
      BY DEF OnlyWithin
    <3>1. PICK z \in Int : z = s[k] /\ 2 * z < 2 * y
      BY <1>8, <1>9, <2>3
    <3>2. mid + 1 <= k => y <= z
      BY <1>10, <2>1, <2>2, <3>1
    <3> QED
      BY <3>1, <3>2
  <2>5. OnlyWithin(n, o, high, mid + 2, n)
    <3> SUFFICES ASSUME NEW k \in 1 .. n, o[k] \in high
                 PROVE  k \in mid + 2 .. n
      BY DEF OnlyWithin
    <3>1. PICK z \in Int : z = s[k] /\ 2 * z > 2 * y
      BY <1>8, <1>9, <2>3
    <3>2. k <= mid + 1 => z <= y
      BY <1>10, <2>1, <2>2, <3>1
    <3> QED
      BY <3>1, <3>2
  <2>6. Cardinality(low) \in Nat /\ Cardinality(low) <= mid - 1 + 1
    <3>1. 1 \in Int /\ mid \in Int /\ 1 <= mid + 1
      OBVIOUS
    <3> QED
      BY <1>1, <1>7, <2>4, <3>1, FoundWithin
  <2>7. Cardinality(high) \in Nat /\ Cardinality(high) <= n - (mid + 2) + 1
    <3>1. mid + 2 \in Int /\ n \in Int /\ mid + 2 <= n + 1
      BY <2>1
    <3> QED
      BY <1>1, <1>7, <2>5, <3>1, FoundWithin
  <2>8. 2 * Cardinality(low) <= n /\ 2 * Cardinality(high) <= n
    BY <2>1, <2>6, <2>7
  <2>9. n = 1 => y = list[1]
    <3> HAVE n = 1
    <3>1. mid + 1 = 1 /\ o[1] = 1
      BY <1>8, <2>1
    <3> QED
      BY <1>8, <2>2, <3>1
  <2> QED
    BY <1>3, <1>5, <1>6, <2>3, <2>8, <2>9
<1> QED
  BY <1>11, <1>12

\* All but one of a valid comparison are peers.
LEMMA PeersCounted ==
  ASSUME ChartsInv, chart = "valuation", ValidatePeerValuation
  PROVE  LET P == {i \in 1 .. Len(data) : data[i].role = "peer"}
         IN  /\ P \in SUBSET (1 .. Len(data)) /\ IsFiniteSet(P)
             /\ Len(data) >= 2 /\ Cardinality(P) = Len(data) - 1
<1>1. PICK n \in Nat : n = Len(data) /\ DOMAIN data = 1 .. n /\ n >= 2
  BY EntriesTyped DEF ValidatePeerValuation
<1>2. PICK P : P = {i \in 1 .. n : data[i].role = "peer"}
  OBVIOUS
<1>3. PICK Q : Q = {i \in 1 .. n : data[i].role = "subject"}
  OBVIOUS
<1>4. \A i \in 1 .. n : data[i].role \in {"subject", "peer"}
  BY <1>1, EntriesTyped DEF Drawable
<1>5. P \cup Q = 1 .. n /\ P \cap Q = {}
  BY <1>2, <1>3, <1>4
<1>6. P \in SUBSET (1 .. n) /\ Q \in SUBSET (1 .. n) /\ IsFiniteSet(1 .. n) /\ Cardinality(1 .. n) = n
  BY <1>2, <1>3, CountedTo
<1>7. IsFiniteSet(P) /\ IsFiniteSet(Q) /\ Cardinality(P) \in Nat /\ Cardinality(Q) \in Nat
  BY <1>6, FS_Subset, FS_CardinalityType
<1>8. n = Cardinality(P) + Cardinality(Q) - Cardinality({})
  BY <1>5, <1>6, <1>7, FS_Union
<1>9. Cardinality(Q) = 1
  <2>1. Where(data, LAMBDA p : p.role = "subject") = AtPositions(data, Q)
    BY <1>1, <1>3 DEF Where
  <2>2. Len(AtPositions(data, Q)) = Cardinality(Q)
    BY <1>7 DEF AtPositions
  <2> QED
    BY <2>1, <2>2 DEF ValidatePeerValuation
<1>10. Cardinality(P) = n - 1
  BY <1>7, <1>8, <1>9, FS_EmptySet
<1> QED
  BY <1>1, <1>2, <1>6, <1>7, <1>10

Multiples == {"forwardPE", "evToEbitda"}

\* Their multiples are theirs, in the order of the data.
LEMMA PeersListed ==
  ASSUME ChartsInv, chart = "valuation", ValidatePeerValuation, NEW metric \in Multiples
  PROVE  LET P == {i \in 1 .. Len(data) : data[i].role = "peer"}
             values == PeersOf(metric)
             m == Len(data) - 1
         IN  /\ values \in [1 .. m -> Int] /\ DOMAIN values = 1 .. m /\ Len(values) = m
             /\ values # <<>>
             /\ \A k \in 1 .. m : Nth(P, k) \in P /\ values[k] = data[Nth(P, k)][metric]
<1>1. PICK n \in Nat : n = Len(data) /\ DOMAIN data = 1 .. n /\ n >= 2
  BY EntriesTyped DEF ValidatePeerValuation
<1>2. PICK P : P = {i \in 1 .. n : data[i].role = "peer"}
  OBVIOUS
<1>3. PICK m \in Nat \ {0} : m = n - 1
  BY <1>1
<1>4. P \in SUBSET (1 .. n) /\ IsFiniteSet(P) /\ Cardinality(P) = m
  BY <1>1, <1>2, <1>3, PeersCounted
<1>5. Where(data, LAMBDA p : p.role = "peer") = AtPositions(data, P)
  BY <1>1, <1>2 DEF Where
<1>6. \A k \in 1 .. m : Nth(P, k) \in P
  BY <1>4, RankReached
<1>7. AtPositions(data, P) = [k \in 1 .. m |-> data[Nth(P, k)]]
  BY <1>4 DEF AtPositions
<1>8. PICK values : values = [k \in 1 .. m |-> data[Nth(P, k)][metric]]
  OBVIOUS
<1>9. PeersOf(metric) = values
  BY <1>5, <1>7, <1>8 DEF PeersOf, Mapped
<1>10. \A i \in 1 .. n : data[i][metric] \in Int
  BY <1>1, EntriesTyped DEF Drawable, Multiples
<1>11. \A k \in 1 .. m : data[Nth(P, k)][metric] \in Int
  BY <1>4, <1>6, <1>10
<1>12. values \in [1 .. m -> Int] /\ DOMAIN values = 1 .. m /\ Len(values) = m /\ values # <<>>
  BY <1>8, <1>11
<1> QED
  BY <1>1, <1>2, <1>3, <1>6, <1>8, <1>9, <1>12

\* The peers' median is the centre of the peers.
LEMMA PeersCentred ==
  ASSUME ChartsInv
  PROVE  PeersGiveTheCentre
<1> SUFFICES ASSUME chart = "valuation", ValidatePeerValuation, NEW metric \in Multiples
             PROVE  LET stats == PeerStats(metric)
                        values == PeersOf(metric)
                    IN
                    /\ stats.defined
                    /\ 2 * Cardinality({i \in DOMAIN values : 2 * values[i] < stats.median}) <= Len(values)
                    /\ 2 * Cardinality({i \in DOMAIN values : 2 * values[i] > stats.median}) <= Len(values)
                    /\ Len(values) = Len(data) - 1
                    /\ Len(data) = 2 => \E p \in ToSet(data) : p.role = "peer" /\ ValuationDistance(p) = 0
  BY DEF PeersGiveTheCentre, Multiples
<1>1. PICK n \in Nat : n = Len(data) /\ DOMAIN data = 1 .. n /\ n >= 2
  BY EntriesTyped DEF ValidatePeerValuation
<1>2. PICK m \in Nat \ {0} : m = n - 1
  BY <1>1
<1>3. PICK P : P = {i \in 1 .. n : data[i].role = "peer"}
  OBVIOUS
<1>4. ASSUME NEW which \in Multiples
      PROVE  /\ PeerStats(which).defined
             /\ PeerStats(which).median = TwiceMedian(PeersOf(which))
  <2>1. PeersOf(which) # <<>>
    BY PeersListed
  <2> QED
    BY <2>1 DEF PeerStats
<1>5. PICK values : values = PeersOf(metric)
  OBVIOUS
<1>6. values \in [1 .. m -> Int] /\ DOMAIN values = 1 .. m /\ Len(values) = m
  BY <1>1, <1>2, <1>5, PeersListed
<1>7. PICK med : med = TwiceMedian(values)
  OBVIOUS
<1>8. /\ 2 * Cardinality({i \in 1 .. m : 2 * values[i] < med}) <= m
      /\ 2 * Cardinality({i \in 1 .. m : 2 * values[i] > med}) <= m
  <2>1. NumberList(values, m)
    BY <1>6 DEF NumberList
  <2> QED
    BY <1>7, <2>1, HalfOnEitherSide
<1>9. n = 2 => \E p \in ToSet(data) : p.role = "peer" /\ ValuationDistance(p) = 0
  <2> HAVE n = 2
  <2>1. m = 1 /\ 1 \in 1 .. m
    BY <1>2
  <2>2. PICK i \in 1 .. n : i = Nth(P, 1) /\ data[i].role = "peer"
    BY <1>1, <1>2, <1>3, <2>1, PeersListed
  <2>3. ASSUME NEW which \in Multiples
        PROVE  PeerStats(which).median = 2 * data[i][which] /\ data[i][which] \in Int
    <3>1. PICK own : own = PeersOf(which)
      OBVIOUS
    <3>2. own \in [1 .. m -> Int] /\ own[1] = data[i][which]
      BY <1>1, <1>2, <1>3, <2>1, <2>2, <3>1, PeersListed
    <3>3. TwiceMedian(own) = 2 * own[1]
      <4>1. NumberList(own, m)
        BY <3>2 DEF NumberList
      <4> QED
        BY <2>1, <4>1, HalfOnEitherSide
    <3> QED
      BY <1>4, <2>1, <3>1, <3>2, <3>3
  <2>4. PICK p : p = data[i]
    OBVIOUS
  <2>5. PICK x \in Int, y \in Int : x = p.forwardPE /\ y = p.evToEbitda
    BY <2>3, <2>4 DEF Multiples
  <2>6. PeerStats("forwardPE").median = 2 * x /\ PeerStats("evToEbitda").median = 2 * y
    BY <2>3, <2>4, <2>5 DEF Multiples
  <2>7. ValuationDistance(p) = 0
    <3>1. ValuationDistance(p) = (2 * x - 2 * x) * (2 * x - 2 * x) + (2 * y - 2 * y) * (2 * y - 2 * y)
      BY <2>5, <2>6 DEF ValuationDistance
    <3>2. 2 * x - 2 * x = 0 /\ 2 * y - 2 * y = 0
      OBVIOUS
    <3> QED
      BY <3>1, <3>2
  <2>8. p \in ToSet(data)
    BY <1>1, <2>4 DEF ToSet
  <2> QED
    BY <2>2, <2>4, <2>7, <2>8
<1>10. PICK stats : stats = PeerStats(metric) /\ stats.defined /\ stats.median = med
  BY <1>4, <1>5, <1>7
<1> QED
  BY <1>1, <1>2, <1>5, <1>6, <1>8, <1>9, <1>10

------------------------------------------------------------------------------
(* The bridge, the small multiples and the sparkline.                        *)

\* A bar begins at nothing or where the one before it ended.
Placed(at, n) ==
  at = [k \in 0 .. n |->
         IF k = 0 THEN [start |-> 0, end |-> 0]
         ELSE IF data[k].kind = "absolute" THEN [start |-> 0, end |-> data[k].value]
         ELSE [start |-> at[k - 1].end, end |-> at[k - 1].end + data[k].value]]

\* The recursion has a solution, for every number of bars.
LEMMA PlacesExist ==
  ASSUME NEW n \in Nat
  PROVE  \E at : Placed(at, n)
<1> DEFINE S == {k \in 0 .. n : \E at : Placed(at, k)}
<1>1. 0 \in S
  <2>1. PICK at : at = [k \in 0 .. 0 |-> [start |-> 0, end |-> 0]]
    OBVIOUS
  <2>2. Placed(at, 0)
    BY <2>1 DEF Placed
  <2> QED
    BY <2>2
<1>2. ASSUME NEW k \in 1 .. n, k - 1 \in S PROVE k \in S
  <2>1. PICK at : Placed(at, k - 1)
    BY <1>2
  <2>2. PICK last : last = IF data[k].kind = "absolute" THEN [start |-> 0, end |-> data[k].value]
                           ELSE [start |-> at[k - 1].end, end |-> at[k - 1].end + data[k].value]
    OBVIOUS
  <2>3. PICK new : new = [j \in 0 .. k |-> IF j = k THEN last ELSE at[j]]
    OBVIOUS
  <2>4. DOMAIN new = 0 .. k /\ new[k] = last /\ \A j \in 0 .. k - 1 : new[j] = at[j]
    BY <2>3
  <2>5. ASSUME NEW j \in 0 .. k
        PROVE  new[j] = IF j = 0 THEN [start |-> 0, end |-> 0]
                        ELSE IF data[j].kind = "absolute" THEN [start |-> 0, end |-> data[j].value]
                        ELSE [start |-> new[j - 1].end, end |-> new[j - 1].end + data[j].value]
    <3>1. CASE j = k
      <4>1. new[j - 1] = at[k - 1] /\ j # 0
        BY <2>4, <3>1
      <4> QED
        BY <2>2, <2>4, <3>1, <4>1
    <3>2. CASE j # k
      <4>1. at[j] = IF j = 0 THEN [start |-> 0, end |-> 0]
                    ELSE IF data[j].kind = "absolute" THEN [start |-> 0, end |-> data[j].value]
                    ELSE [start |-> at[j - 1].end, end |-> at[j - 1].end + data[j].value]
        BY <2>1, <3>2 DEF Placed
      <4>2. new[j] = at[j] /\ (j # 0 => new[j - 1] = at[j - 1])
        BY <2>4, <3>2
      <4> QED
        BY <4>1, <4>2
    <3> QED
      BY <3>1, <3>2
  <2>6. Placed(new, k)
    BY <2>3, <2>5 DEF Placed
  <2> QED
    BY <2>6
<1> HIDE DEF S
<1>3. 0 .. n \subseteq S
  BY <1>1, <1>2, UpTo
<1> QED
  BY <1>3 DEF S

\* Bars rise or fall by their values, a delta from the end of the one before it.
LEMMA PositionsAre ==
  ASSUME ChartsInv, chart = "waterfall"
  PROVE  LET n == Len(data)
             p == ComputePositions
         IN  /\ DOMAIN p = 1 .. n
             /\ \A i \in 1 .. n :
                  /\ p[i].start \in Int /\ p[i].end \in Int /\ data[i].value \in Int
                  /\ data[i].kind = "absolute" => p[i].start = 0
                  /\ p[i].end = p[i].start + data[i].value
             /\ \A i \in 2 .. n : data[i].kind # "absolute" => p[i].start = p[i - 1].end
<1>1. PICK n \in Nat : n = Len(data) /\ DOMAIN data = 1 .. n
  BY EntriesTyped
<1>2. \A i \in 1 .. n : data[i].value \in Int
  BY <1>1, EntriesTyped DEF Drawable
<1> DEFINE at == CHOOSE f : Placed(f, n)
<1>3. Placed(at, n)
  BY PlacesExist
<1>4. ComputePositions = [k \in 1 .. n |-> at[k]]
  BY <1>1 DEF ComputePositions, Placed
<1> HIDE DEF at
<1>5. at[0] = [start |-> 0, end |-> 0]
  BY <1>3 DEF Placed
<1>6. \A k \in 1 .. n :
        at[k] = IF data[k].kind = "absolute" THEN [start |-> 0, end |-> data[k].value]
                ELSE [start |-> at[k - 1].end, end |-> at[k - 1].end + data[k].value]
  BY <1>3 DEF Placed
<1> DEFINE S == {k \in 0 .. n : at[k].start \in Int /\ at[k].end \in Int}
<1>7. 0 \in S
  BY <1>5
<1>8. ASSUME NEW k \in 1 .. n, k - 1 \in S PROVE k \in S
  <2>1. PICK e \in Int : e = at[k - 1].end
    BY <1>8
  <2>2. PICK v \in Int : v = data[k].value
    BY <1>2
  <2>3. at[k] = IF data[k].kind = "absolute" THEN [start |-> 0, end |-> v] ELSE [start |-> e, end |-> e + v]
    BY <1>6, <2>1, <2>2
  <2> QED
    BY <2>3
<1> HIDE DEF S
<1>9. 0 .. n \subseteq S
  BY <1>7, <1>8, UpTo
<1>10. PICK p : p = [k \in 1 .. n |-> at[k]]
  OBVIOUS
<1>11. ASSUME NEW i \in 1 .. n
       PROVE  /\ p[i].start \in Int /\ p[i].end \in Int
              /\ data[i].kind = "absolute" => p[i].start = 0
              /\ p[i].end = p[i].start + data[i].value
              /\ i > 1 /\ data[i].kind # "absolute" => p[i].start = p[i - 1].end
  <2>1. PICK e \in Int : e = at[i - 1].end
    BY <1>9 DEF S
  <2>2. PICK v \in Int : v = data[i].value
    BY <1>2
  <2>3. p[i] = IF data[i].kind = "absolute" THEN [start |-> 0, end |-> v] ELSE [start |-> e, end |-> e + v]
    BY <1>6, <1>10, <2>1, <2>2
  <2>4. i > 1 => p[i - 1] = at[i - 1]
    BY <1>10
  <2> QED
    BY <2>1, <2>2, <2>3, <2>4
<1> QED
  BY <1>1, <1>2, <1>4, <1>10, <1>11

\* The levels of the bars and nothing, and the scale that spans them.
LEMMA LevelsSpanned ==
  ASSUME NEW n \in Nat \ {0}, NEW p, DOMAIN p = 1 .. n,
         \A i \in 1 .. n : p[i].start \in Int /\ p[i].end \in Int
  PROVE  LET levels == UNION {{q.start, q.end} : q \in ToSet(p)}
             min    == Smallest({0} \cup levels)
             max    == Biggest(levels)
         IN  /\ min \in Int /\ max \in Int /\ min <= 0
             /\ \A i \in 1 .. n : /\ min <= p[i].start /\ p[i].start <= max
                                  /\ min <= p[i].end /\ p[i].end <= max
<1>1. PICK levels : levels = UNION {{q.start, q.end} : q \in ToSet(p)}
  OBVIOUS
<1>2. levels = UNION {{p[i].start, p[i].end} : i \in 1 .. n}
  BY <1>1 DEF ToSet
<1>3. \A v : v \in levels <=> \E i \in 1 .. n : v = p[i].start \/ v = p[i].end
  BY <1>2
<1>4. PICK m \in Nat \ {0} : m = 2 * n
  OBVIOUS
<1>5. PICK f : f = [k \in 1 .. m |-> IF k <= n THEN p[k].start ELSE p[k - n].end]
  OBVIOUS
<1>6. f \in [1 .. m -> Int]
  BY <1>4, <1>5
<1>7. levels = {f[k] : k \in 1 .. m}
  <2>1. ASSUME NEW k \in 1 .. m PROVE f[k] \in levels
    <3>1. CASE k <= n
      BY <1>3, <1>5, <3>1
    <3>2. CASE k > n
      <4>1. k - n \in 1 .. n /\ f[k] = p[k - n].end
        BY <1>4, <1>5, <3>2
      <4> QED
        BY <1>3, <4>1
    <3> QED
      BY <3>1, <3>2
  <2>2. ASSUME NEW i \in 1 .. n PROVE \E j, k \in 1 .. m : f[j] = p[i].start /\ f[k] = p[i].end
    <3>1. i \in 1 .. m /\ i + n \in 1 .. m /\ i <= n /\ ~(i + n <= n) /\ (i + n) - n = i
      BY <1>4
    <3> QED
      BY <1>5, <3>1
  <2>3. \A v \in levels : \E k \in 1 .. m : f[k] = v
    <3> TAKE v \in levels
    <3>1. PICK i \in 1 .. n : v = p[i].start \/ v = p[i].end
      BY <1>3
    <3>2. PICK j, k \in 1 .. m : f[j] = p[i].start /\ f[k] = p[i].end
      BY <2>2
    <3> QED
      BY <3>1, <3>2, Zenon
  <2> QED
    BY <2>1, <2>3
<1>8. PICK max \in Int : max = Biggest(levels) /\ \A v \in levels : v <= max
  BY <1>6, <1>7, Extremes
<1>9. PICK g : g = [k \in 1 .. m + 1 |-> IF k = m + 1 THEN 0 ELSE f[k]]
  OBVIOUS
<1>10. g \in [1 .. m + 1 -> Int] /\ m + 1 \in Nat \ {0}
  BY <1>6, <1>9
<1>11. {0} \cup levels = {g[k] : k \in 1 .. m + 1}
  <2>1. g[m + 1] = 0 /\ m + 1 \in 1 .. m + 1
    BY <1>9
  <2>2. \A k \in 1 .. m : k \in 1 .. m + 1 /\ g[k] = f[k]
    BY <1>9
  <2>3. \A k \in 1 .. m + 1 : k = m + 1 \/ k \in 1 .. m
    OBVIOUS
  <2> QED
    BY <1>7, <2>1, <2>2, <2>3
<1>12. PICK min \in Int : min = Smallest({0} \cup levels) /\ \A v \in {0} \cup levels : min <= v
  BY <1>10, <1>11, Extremes
<1>13. \A i \in 1 .. n : p[i].start \in levels /\ p[i].end \in levels
  BY <1>3
<1> QED
  BY <1>1, <1>8, <1>12, <1>13

\* The larger and the smaller of two numbers.
LEMMA TwoOf ==
  ASSUME NEW a \in Int, NEW b \in Int
  PROVE  /\ Biggest({a, b}) = IF a < b THEN b ELSE a
         /\ Smallest({a, b}) = IF a < b THEN a ELSE b
<1>1. PICK x \in {a, b} : x = IF a < b THEN b ELSE a
  OBVIOUS
<1>2. \A n \in {a, b} : (\A m \in {a, b} : m <= n) <=> n = x
  BY <1>1
<1>3. PICK y \in {a, b} : y = IF a < b THEN a ELSE b
  OBVIOUS
<1>4. \A n \in {a, b} : (\A m \in {a, b} : n <= m) <=> n = y
  BY <1>3
<1>5. Biggest({a, b}) = x
  BY <1>2 DEF Biggest
<1>6. Smallest({a, b}) = y
  BY <1>4 DEF Smallest
<1> QED
  BY <1>1, <1>3, <1>5, <1>6

\* The ends of a bar, where a value is on a scale from min over range, the larger of two.
High(p)               == IF p.start < p.end THEN p.end ELSE p.start
Low(p)                == IF p.start < p.end THEN p.start ELSE p.end
Pixels(v, min, range) == PLOT_H * (range - (v - min))
Larger(m, n)          == IF m < n THEN n ELSE m

\* The i-th bar stands where its position says, on a scale from min over range.
Standing(pos, bars, i, min, range) ==
  LET p   == pos[i]
      bar == bars[i]
      top == Pixels(High(p), min, range)
  IN  /\ bar.top = <<top, range>>
      /\ bar.height = <<Larger(range, Pixels(Low(p), min, range) - top), range>>
      /\ bar.connector = <<Pixels(p.start, min, range), range>>
      /\ bar.level = <<Pixels(p.end, min, range), range>>
      /\ p.start - min \in 0 .. range /\ p.end - min \in 0 .. range

\* The drawing has a scale on which every bar stands at its position.
LEMMA BarsAre ==
  ASSUME ChartsInv, chart = "waterfall", data # <<>>
  PROVE  \E min \in Int, range \in Nat \ {0} :
           \A i \in 1 .. Len(data) : Standing(ComputePositions, WaterfallBars, i, min, range)
<1>1. PICK n \in Nat \ {0} : n = Len(data)
  BY EntriesTyped
<1>2. PICK pos : pos = ComputePositions
  OBVIOUS
<1>3. DOMAIN pos = 1 .. n /\ \A i \in 1 .. n : pos[i].start \in Int /\ pos[i].end \in Int
  BY <1>1, <1>2, PositionsAre
<1>4. PICK levels : levels = UNION {{q.start, q.end} : q \in ToSet(pos)}
  OBVIOUS
<1>5. PICK min \in Int, max \in Int :
        /\ min = Smallest({0} \cup levels) /\ max = Biggest(levels)
        /\ \A i \in 1 .. n : /\ min <= pos[i].start /\ pos[i].start <= max
                             /\ min <= pos[i].end /\ pos[i].end <= max
  BY <1>3, <1>4, LevelsSpanned
<1>6. min <= max
  <2>1. 1 \in 1 .. n
    OBVIOUS
  <2>2. PICK x \in Int : x = pos[1].start
    BY <1>3, <2>1
  <2>3. min <= x /\ x <= max
    BY <1>5, <2>1, <2>2
  <2> QED
    BY <2>3
<1>7. PICK range \in Nat \ {0} : range = IF max = min THEN 1 ELSE max - min
  <2>1. CASE max = min
    BY <2>1
  <2>2. CASE max # min
    <3>1. max - min \in Nat \ {0}
      BY <1>6, <2>2
    <3> QED
      BY <2>2, <3>1
  <2> QED
    BY <2>1, <2>2
<1>8. WaterfallBars = [i \in 1 .. n |->
         [top       |-> <<Pixels(Biggest({pos[i].start, pos[i].end}), min, range), range>>,
          height    |-> <<Biggest({range, Pixels(Smallest({pos[i].start, pos[i].end}), min, range)
                                            - Pixels(Biggest({pos[i].start, pos[i].end}), min, range)}), range>>,
          connector |-> <<Pixels(pos[i].start, min, range), range>>,
          level     |-> <<Pixels(pos[i].end, min, range), range>>]]
  BY <1>2, <1>3, <1>4, <1>5, <1>7 DEF WaterfallBars, Mapped, Pixels
<1>9. ASSUME NEW i \in 1 .. n
      PROVE  Standing(pos, WaterfallBars, i, min, range)
  <2>1. PICK a, b \in Int : a = pos[i].start /\ b = pos[i].end
    BY <1>3
  <2>2. a - min \in 0 .. range /\ b - min \in 0 .. range
    <3>1. min <= a /\ a <= max /\ min <= b /\ b <= max
      BY <1>5, <2>1
    <3>2. a - min \in Int /\ b - min \in Int /\ 0 <= a - min /\ 0 <= b - min
      BY <3>1
    <3>3. a - min <= range /\ b - min <= range
      BY <1>7, <3>1
    <3> QED
      BY <3>2, <3>3
  <2>3. PICK hi, lo \in Int : hi = High(pos[i]) /\ lo = Low(pos[i])
    BY <2>1 DEF High, Low
  <2>4. Biggest({a, b}) = hi /\ Smallest({a, b}) = lo
    BY <2>1, <2>3, TwoOf DEF High, Low
  <2>5. PICK size \in Int : size = Pixels(lo, min, range) - Pixels(hi, min, range)
    <3>1. Pixels(lo, min, range) \in Int /\ Pixels(hi, min, range) \in Int
      BY DEF Pixels, PLOT_H
    <3> QED
      BY <3>1
  <2>6. Biggest({range, size}) = Larger(range, size)
    BY <2>5, TwoOf DEF Larger
  <2>7. WaterfallBars[i] =
          [top |-> <<Pixels(hi, min, range), range>>, height |-> <<Biggest({range, size}), range>>,
           connector |-> <<Pixels(a, min, range), range>>, level |-> <<Pixels(b, min, range), range>>]
    BY <1>8, <2>1, <2>4, <2>5
  <2> QED
    BY <2>1, <2>2, <2>3, <2>5, <2>6, <2>7 DEF Standing
<1> QED
  BY <1>1, <1>2, <1>9

\* A step of v from a to b, and the scale.
BarAt(a, v, b, hi, lo, min, range) ==
  /\ {a, v, b, hi, lo, min} \subseteq Int /\ range \in Nat \ {0}
  /\ b = a + v /\ hi = Larger(a, b) /\ lo = IF a < b THEN a ELSE b
  /\ a - min \in 0 .. range /\ b - min \in 0 .. range

\* What a position means for the bar drawn at it.
LEMMA BarFacts ==
  ASSUME NEW min, NEW range, NEW a, NEW v, NEW b, NEW hi, NEW lo,
         BarAt(a, v, b, hi, lo, min, range)
  PROVE  LET top    == Pixels(hi, min, range)
             height == Larger(range, Pixels(lo, min, range) - top)
             size   == PLOT_H * Magnitude(v)
         IN  /\ height = IF size < range THEN range ELSE size
             /\ top >= 0 /\ top + height <= (IF size < range THEN PLOT_H + 1 ELSE PLOT_H) * range
             /\ Pixels(a, min, range) - Pixels(b, min, range) = PLOT_H * v
<1> a \in Int /\ v \in Int /\ b \in Int /\ hi \in Int /\ lo \in Int /\ min \in Int /\ range \in Nat \ {0}
  BY DEF BarAt
<1>0. /\ b = a + v /\ hi = Larger(a, b) /\ lo = IF a < b THEN a ELSE b
      /\ a - min \in 0 .. range /\ b - min \in 0 .. range
  BY DEF BarAt
<1>1. PICK top, step \in Int : top = 240 * (range - (hi - min)) /\ step = 240 * (hi - lo)
  OBVIOUS
<1>2. /\ Pixels(hi, min, range) = top /\ Pixels(lo, min, range) - top = step
      /\ Pixels(a, min, range) - Pixels(b, min, range) = 240 * v
  <2>1. /\ Pixels(hi, min, range) = top
        /\ Pixels(lo, min, range) = 240 * (range - (lo - min))
        /\ Pixels(a, min, range) = 240 * (range - (a - min))
        /\ Pixels(b, min, range) = 240 * (range - (b - min))
    BY <1>1 DEF Pixels, PLOT_H
  <2>2. 240 * (range - (lo - min)) - top = step
    BY <1>1
  <2>3. 240 * (range - (a - min)) - 240 * (range - (b - min)) = 240 * v
    BY <1>0
  <2> QED
    BY <2>1, <2>2, <2>3
<1>3. hi - lo = Magnitude(v) /\ step = 240 * Magnitude(v)
  BY <1>0, <1>1 DEF Magnitude, Larger
<1>4. hi - min \in 0 .. range /\ lo - min \in 0 .. range
  BY <1>0 DEF Larger
<1>5. PICK height \in Int : height = Larger(range, step)
  BY DEF Larger
<1>6. height = IF step < range THEN range ELSE step
  BY <1>1, <1>5 DEF Larger
<1>7. top >= 0 /\ top <= 240 * range /\ top + step <= 240 * range
  BY <1>1, <1>4
<1>8. top + height <= (IF step < range THEN 241 ELSE 240) * range
  BY <1>1, <1>6, <1>7
<1>9. PLOT_H = 240 /\ PLOT_H + 1 = 241
  BY DEF PLOT_H
<1> QED
  BY <1>2, <1>3, <1>5, <1>6, <1>7, <1>8, <1>9

\* A bridge is drawn to scale and connected.
LEMMA BridgeDrawn ==
  ASSUME ChartsInv, chart = "waterfall", ValidateWaterfall
  PROVE  BridgeToScale
<1>1. PICK n \in Nat \ {0} : n = Len(data) /\ DOMAIN data = 1 .. n
  BY EntriesTyped DEF ValidateWaterfall
<1>2. data # <<>> /\ data[1].kind = "absolute"
  BY <1>1 DEF ValidateWaterfall
<1>3. PICK pos, bars : pos = ComputePositions /\ bars = WaterfallBars
  OBVIOUS
<1>4. PICK min \in Int, range \in Nat \ {0} :
        \A k \in 1 .. n : Standing(pos, bars, k, min, range)
  BY <1>1, <1>2, <1>3, BarsAre
<1>5. ASSUME NEW i \in 1 .. n
      PROVE  LET size == PLOT_H * Magnitude(data[i].value)
             IN  /\ bars[i].connector[1] - bars[i].level[1] = PLOT_H * data[i].value
                 /\ bars[i].height[1] = IF size < bars[i].top[2] THEN bars[i].top[2] ELSE size
                 /\ bars[i].top[1] >= 0
                 /\ bars[i].top[1] + bars[i].height[1] <=
                      (IF size < bars[i].top[2] THEN PLOT_H + 1 ELSE PLOT_H) * bars[i].top[2]
  <2>1. PICK a, b, v \in Int : a = pos[i].start /\ b = pos[i].end /\ v = data[i].value /\ b = a + v
    BY <1>1, <1>3, <1>5, PositionsAre
  <2>2. PICK hi, lo \in Int : /\ hi = High(pos[i]) /\ lo = Low(pos[i])
                              /\ hi = Larger(a, b) /\ lo = IF a < b THEN a ELSE b
    BY <2>1 DEF High, Low, Larger
  <2>3. PICK top, height : /\ top = Pixels(hi, min, range)
                           /\ height = Larger(range, Pixels(lo, min, range) - top)
    OBVIOUS
  <2>4. /\ bars[i].top = <<top, range>> /\ bars[i].height = <<height, range>>
        /\ bars[i].connector = <<Pixels(a, min, range), range>>
        /\ bars[i].level = <<Pixels(b, min, range), range>>
        /\ a - min \in 0 .. range /\ b - min \in 0 .. range
    BY <1>4, <1>5, <2>1, <2>2, <2>3 DEF Standing
  <2>5. PICK size : size = PLOT_H * Magnitude(v)
    OBVIOUS
  <2>6. /\ height = IF size < range THEN range ELSE size
        /\ top >= 0 /\ top + height <= (IF size < range THEN PLOT_H + 1 ELSE PLOT_H) * range
        /\ Pixels(a, min, range) - Pixels(b, min, range) = PLOT_H * v
    <3>1. BarAt(a, v, b, hi, lo, min, range)
      BY <2>1, <2>2, <2>4 DEF BarAt
    <3> QED
      BY <2>3, <2>5, <3>1, BarFacts
  <2> QED
    BY <2>1, <2>4, <2>5, <2>6
<1>6. ASSUME NEW i \in 1 .. n
      PROVE  bars[i].connector = IF data[i].kind = "absolute" THEN bars[1].connector ELSE bars[i - 1].level
  <2>1. CASE data[i].kind # "absolute"
    <3>1. i - 1 \in 1 .. n /\ i \in 2 .. n
      BY <1>2, <1>6, <2>1
    <3>2. pos[i].start = pos[i - 1].end
      BY <1>1, <1>3, <2>1, <3>1, PositionsAre
    <3>3. bars[i].connector = bars[i - 1].level
      BY <1>4, <1>6, <3>1, <3>2 DEF Standing
    <3> QED
      BY <2>1, <3>3
  <2>2. CASE data[i].kind = "absolute"
    <3>1. 1 \in 1 .. n
      OBVIOUS
    <3>2. pos[i].start = 0 /\ pos[1].start = 0
      BY <1>1, <1>2, <1>3, <1>6, <2>2, <3>1, PositionsAre
    <3>3. bars[i].connector = bars[1].connector
      BY <1>4, <1>6, <3>1, <3>2 DEF Standing
    <3> QED
      BY <2>2, <3>3
  <2> QED
    BY <2>1, <2>2
<1> QED
  BY <1>1, <1>3, <1>5, <1>6 DEF BridgeToScale

\* A power of ten for every number.
Powers(f, v) == f = [n \in 1 .. v |-> IF n < 10 THEN 1 ELSE 10 * f[n \div 10]]

\* It is positive.
LEMMA PowerIs ==
  ASSUME NEW v \in Nat \ {0}
  PROVE  PowerOfTen(v) \in Nat \ {0}
<1> DEFINE S == {k \in 0 .. v : \E f : Powers(f, k)}
<1>1. \A n \in Nat : n >= 10 => n \div 10 \in 1 .. n - 1
  OBVIOUS
<1>2. 0 \in S
  <2>1. PICK f : f = [k \in 1 .. 0 |-> 1]
    OBVIOUS
  <2>2. Powers(f, 0)
    BY <2>1 DEF Powers
  <2> QED
    BY <2>2
<1>3. ASSUME NEW k \in 1 .. v, k - 1 \in S PROVE k \in S
  <2>1. PICK f : Powers(f, k - 1)
    BY <1>3
  <2>2. \A n \in 1 .. k - 1 : f[n] = IF n < 10 THEN 1 ELSE 10 * f[n \div 10]
    BY <2>1 DEF Powers
  <2>3. PICK new : new = [n \in 1 .. k |-> IF n = k THEN (IF n < 10 THEN 1 ELSE 10 * f[n \div 10]) ELSE f[n]]
    OBVIOUS
  <2>4. ASSUME NEW n \in 1 .. k PROVE new[n] = IF n < 10 THEN 1 ELSE 10 * new[n \div 10]
    <3>1. n >= 10 => new[n \div 10] = f[n \div 10]
      <4> HAVE n >= 10
      <4>1. PICK q \in 1 .. k : q = n \div 10 /\ q # k
        BY <1>1
      <4> QED
        BY <2>3, <4>1
    <3>2. new[n] = IF n < 10 THEN 1 ELSE 10 * f[n \div 10]
      BY <2>2, <2>3
    <3> QED
      BY <3>1, <3>2
  <2>5. new = [n \in 1 .. k |-> IF n < 10 THEN 1 ELSE 10 * new[n \div 10]]
    BY <2>3, <2>4
  <2> QED
    BY <2>5 DEF Powers
<1> HIDE DEF S
<1>4. 0 .. v \subseteq S
  BY <1>2, <1>3, UpTo
<1>5. \E f : Powers(f, v)
  BY <1>4 DEF S
<1> DEFINE power == CHOOSE f : Powers(f, v)
<1>6. Powers(power, v)
  BY <1>5
<1>7. PowerOfTen(v) = power[v]
  BY DEF PowerOfTen, Powers
<1> HIDE DEF power
<1>8. \A n \in 1 .. v : power[n] = IF n < 10 THEN 1 ELSE 10 * power[n \div 10]
  BY <1>6 DEF Powers
<1> DEFINE T == {k \in 0 .. v : \A n \in 1 .. k : power[n] \in Nat \ {0}}
<1>9. 0 \in T
  OBVIOUS
<1>10. ASSUME NEW k \in 1 .. v, k - 1 \in T PROVE k \in T
  <2>1. \A n \in 1 .. k - 1 : power[n] \in Nat \ {0}
    BY <1>10
  <2>2. power[k] \in Nat \ {0}
    <3>1. CASE k < 10
      BY <1>8, <3>1
    <3>2. CASE k >= 10
      <4>1. PICK q \in 1 .. k - 1 : q = k \div 10
        BY <1>1, <3>2
      <4>2. PICK x \in Nat \ {0} : x = power[q]
        BY <2>1
      <4>3. power[k] = 10 * x
        BY <1>8, <3>2, <4>1, <4>2
      <4> QED
        BY <4>3
    <3> QED
      BY <3>1, <3>2
  <2> QED
    BY <2>1, <2>2
<1> HIDE DEF T
<1>11. 0 .. v \subseteq T
  BY <1>9, <1>10, UpTo
<1> QED
  BY <1>7, <1>11 DEF T

\* The top of a panel is not below its largest value.
LEMMA NiceMaxIs ==
  ASSUME NEW v \in Int
  PROVE  NiceMax(v) \in Int /\ v <= NiceMax(v)
<1>1. CASE v <= 0
  BY <1>1 DEF NiceMax
<1>2. CASE v > 0
  <2>1. PICK p \in Nat \ {0} : p = PowerOfTen(v)
    BY <1>2, PowerIs
  <2>2. \A i \in Int, m \in Nat \ {0} : i \div m \in Int /\ i < m * (i \div m) + m
    OBVIOUS
  <2>3. PICK q \in Int : q = (v + p - 1) \div p /\ v + p - 1 < p * q + p
    BY <2>2
  <2>4. NiceMax(v) = q * p
    BY <1>2, <2>1, <2>3 DEF NiceMax
  <2>5. q * p = p * q /\ p * q \in Int
    OBVIOUS
  <2> QED
    BY <2>3, <2>4, <2>5
<1> QED
  BY <1>1, <1>2

\* Small multiples and a sparkline stay within the plot save for negative figures,
\* and higher is larger.
LEMMA SeriesDrawn ==
  ASSUME ChartsInv, chart = "series", data # <<>>
  PROVE  SeriesToScale
<1>1. PICK n \in Nat \ {0} : n = Len(data) /\ DOMAIN data = 1 .. n
  BY EntriesTyped
<1>2. PICK f : f = [i \in 1 .. n |-> data[i].value]
  OBVIOUS
<1>3. f \in [1 .. n -> Int] /\ \A i \in 1 .. n : f[i] = data[i].value /\ f[i] \in Int
  <2>1. \A i \in 1 .. n : data[i].value \in Int
    BY <1>1, EntriesTyped DEF Drawable
  <2> QED
    BY <1>2, <2>1
<1>4. PICK values : values = {d.value : d \in ToSet(data)}
  OBVIOUS
<1>5. values = {f[i] : i \in 1 .. n}
  BY <1>1, <1>3, <1>4 DEF ToSet
<1>6. PICK min, max \in Int :
        /\ min = Smallest(values) /\ max = Biggest(values) /\ min \in values /\ max \in values
        /\ \A i \in 1 .. n : min <= f[i] /\ f[i] <= max
  <2>1. /\ Biggest(values) \in values /\ Biggest(values) \in Int /\ \A m \in values : m <= Biggest(values)
        /\ Smallest(values) \in values /\ Smallest(values) \in Int /\ \A m \in values : Smallest(values) <= m
    BY <1>3, <1>5, Extremes
  <2>2. \A i \in 1 .. n : f[i] \in values
    BY <1>5
  <2> QED
    BY <2>1, <2>2, Zenon
<1>7. PICK range \in Nat : range = max - min
  <2>1. 1 \in 1 .. n
    OBVIOUS
  <2> QED
    BY <1>3, <1>6, <2>1
<1>8. PICK line, ys : line = Sparkline /\ ys = [i \in 1 .. n |-> IF range = 0 THEN <<1, 2>> ELSE <<f[i] - min, range>>]
  OBVIOUS
<1>9. Last(data).value = f[n] /\ data[1].value = f[1]
  BY <1>1, <1>3 DEF Last
<1>10. line = [ys |-> ys, direction |-> IF f[n] > f[1] THEN "up" ELSE IF f[n] < f[1] THEN "down" ELSE "flat"]
  <2>1. Sparkline =
          [ys |-> [i \in 1 .. n |-> IF max - min = 0 THEN <<1, 2>> ELSE <<data[i].value - min, max - min>>],
           direction |-> IF Last(data).value > data[1].value THEN "up"
                         ELSE IF Last(data).value < data[1].value THEN "down" ELSE "flat"]
    BY <1>1, <1>4, <1>6 DEF Sparkline, Mapped
  <2>2. [i \in 1 .. n |-> IF max - min = 0 THEN <<1, 2>> ELSE <<data[i].value - min, max - min>>] = ys
    BY <1>3, <1>7, <1>8
  <2> QED
    BY <1>8, <1>9, <2>1, <2>2, Zenon
<1>11. line.ys = ys /\ (line.direction = "up" <=> f[1] < f[n])
  <2>1. f[1] \in Int /\ f[n] \in Int
    BY <1>3
  <2> QED
    BY <1>10, <2>1
<1>12. \A i \in 1 .. n : Within(ys[i])
  BY <1>3, <1>6, <1>7, <1>8 DEF Within
<1>13. \A i, j \in 1 .. n : f[i] < f[j] => ys[i][1] < ys[j][1] /\ ys[i][2] = ys[j][2]
  <2> TAKE i, j \in 1 .. n
  <2> HAVE f[i] < f[j]
  <2>1. range # 0
    BY <1>3, <1>6, <1>7
  <2> QED
    BY <1>3, <1>8, <2>1
<1>14. f[1] < f[n] <=> ys[1][1] < Last(ys)[1]
  <2>1. Last(ys) = ys[n] /\ 1 \in 1 .. n /\ n \in 1 .. n
    BY <1>8 DEF Last
  <2>2. CASE range = 0
    <3>1. f[1] = f[n]
      BY <1>3, <1>6, <1>7, <2>1, <2>2
    <3>2. ys[1] = <<1, 2>> /\ ys[n] = <<1, 2>>
      BY <1>8, <2>1, <2>2
    <3> QED
      BY <1>3, <2>1, <3>1, <3>2
  <2>3. CASE range # 0
    <3>1. ys[1] = <<f[1] - min, range>> /\ ys[n] = <<f[n] - min, range>>
      BY <1>8, <2>1, <2>3
    <3>2. PICK a, b \in Int : a = f[1] /\ b = f[n]
      BY <1>3, <2>1
    <3> QED
      BY <2>1, <3>1, <3>2
  <2> QED
    BY <2>2, <2>3
<1>15. PICK top \in Int : top = NiceMax(max) /\ max <= top
  BY NiceMaxIs
<1>16. PICK heights : heights = [i \in 1 .. n |-> <<f[i], top>>]
  OBVIOUS
<1>17. PanelHeights = heights
  BY <1>1, <1>3, <1>4, <1>6, <1>15, <1>16 DEF PanelHeights, Mapped
<1>18. \A i \in 1 .. n : /\ heights[i][1] = f[i] /\ heights[i][2] = top
                         /\ Within(heights[i]) <=> data[i].value >= 0
  <2> TAKE i \in 1 .. n
  <2>1. heights[i][1] = f[i] /\ heights[i][2] = top
    BY <1>16
  <2>2. PICK v \in Int : v = f[i] /\ v = data[i].value /\ v <= top
    BY <1>3, <1>6, <1>15
  <2>3. Within(heights[i]) <=> v >= 0
    BY <2>1, <2>2 DEF Within
  <2> QED
    BY <2>1, <2>2, <2>3
<1>19. Ordered(ys)
  BY <1>1, <1>3, <1>13 DEF Ordered
<1>20. Ordered(heights)
  BY <1>1, <1>3, <1>18 DEF Ordered
<1>21. (line.direction = "up") = (ys[1][1] < Last(ys)[1])
  BY <1>11, <1>14
<1> QED
  BY <1>1, <1>8, <1>11, <1>12, <1>17, <1>18, <1>19, <1>20, <1>21 DEF SeriesToScale

\* Every drawing is to scale.
LEMMA AllDrawnToScale ==
  ASSUME ChartsInv
  PROVE  DrawnToScale
<1> QED
  BY BridgeDrawn, SeriesDrawn DEF DrawnToScale

\* For any entries and however many: what the chart components draw of a dataset is
\* what it says, once it passes its validator (apps/web/lib/charts, packages/ui), with
\* the exceptions DrawnToScale names: steps of less than a pixel, negative panels.
THEOREM ChartsDrawnTrue == ChartsSpec => []ChartsTellTheData
<1>1. ChartsInv => ChartsTellTheData
  BY PayMixAdded, HeatmapAdded, SummaryMatches, PeersCentred, AllDrawnToScale DEF ChartsTellTheData
<1> QED
  BY <1>1, ChartsInvHolds, PTL
=============================================================================
