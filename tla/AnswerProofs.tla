---------------------------- MODULE AnswerProofs ----------------------------
(***************************************************************************)
(* What the web app answers from lists it selects, sorts, flattens and     *)
(* cuts: the insider activity and the executive pay of an issuer, whatever *)
(* its filings, and what operators are told of the ledger and of the       *)
(* comparison of pay.                                                      *)
(***************************************************************************)
EXTENDS Governance, Operations, SelectionProofs, SequenceTheorems

------------------------------------------------------------------------------
(* Lists in an order. *)

\* Which of two comes first, if either does; to be neither's turn is transitive.
WeakOn(D, B) ==
  /\ \A x \in D : <<x, x>> \notin B
  /\ \A x, y, z \in D : <<x, y>> \in B /\ <<y, z>> \in B => <<x, z>> \in B
  /\ \A x, y, z \in D : <<x, z>> \in B => <<x, y>> \in B \/ <<y, z>> \in B

LEMMA StablyTotal ==
  ASSUME NEW D \in SUBSET Nat, NEW B, WeakOn(D, B)
  PROVE  TotalOn(D, Stably(D, B))
<1> DEFINE R == Stably(D, B)
<1>1. \A x, y \in D : <<x, y>> \in R <=> <<x, y>> \in B \/ (<<y, x>> \notin B /\ x < y)
  BY DEF Stably
<1>2. \A x \in D : x \in Nat /\ ~(x < x)
  OBVIOUS
<1>3. \A x, y \in D : x # y => x < y \/ y < x
  OBVIOUS
<1>4. \A x, y, z \in D : x < y /\ y < z => x < z
  BY <1>2
<1> HIDE DEF R
<1>5. \A x \in D : <<x, x>> \notin R
  BY <1>1, <1>2 DEF WeakOn
<1>6. \A x, y \in D : x # y => <<x, y>> \in R \/ <<y, x>> \in R
  BY <1>1, <1>3
<1>7. ASSUME NEW x \in D, NEW y \in D, NEW z \in D, <<x, y>> \in R, <<y, z>> \in R
      PROVE  <<x, z>> \in R
  <2>1. CASE <<x, y>> \in B
    <3>1. <<x, z>> \in B \/ <<z, y>> \in B
      BY <2>1 DEF WeakOn
    <3>2. <<z, y>> \notin B
      BY <1>1, <1>7 DEF WeakOn
    <3> QED
      BY <1>1, <3>1, <3>2
  <2>2. CASE <<x, y>> \notin B /\ <<y, z>> \in B
    <3>1. <<y, x>> \in B \/ <<x, z>> \in B
      BY <2>2 DEF WeakOn
    <3>2. <<y, x>> \notin B
      BY <1>1, <1>7, <2>2
    <3> QED
      BY <1>1, <3>1, <3>2
  <2>3. CASE <<x, y>> \notin B /\ <<y, z>> \notin B
    <3>1. <<y, x>> \notin B /\ x < y /\ <<z, y>> \notin B /\ y < z
      BY <1>1, <1>7, <2>3
    <3>2. <<z, x>> \in B => <<z, y>> \in B \/ <<y, x>> \in B
      BY DEF WeakOn
    <3>3. x < z
      BY <1>4, <3>1
    <3> QED
      BY <1>1, <3>1, <3>2, <3>3
  <2> QED
    BY <2>1, <2>2, <2>3
<1> QED
  BY <1>5, <1>6, <1>7 DEF TotalOn, R

\* What a list is sorted by: where each of its elements comes from.
By(s, B) == Arranged(DOMAIN s, Stably(DOMAIN s, B))

LEMMA SortedIs ==
  ASSUME NEW A, NEW s \in Seq(A), NEW B, WeakOn(DOMAIN s, B)
  PROVE  /\ Sorted(s, B) \in Seq(A) /\ DOMAIN Sorted(s, B) = DOMAIN s
         /\ \A k \in DOMAIN s : By(s, B)[k] \in DOMAIN s /\ Sorted(s, B)[k] = s[By(s, B)[k]]
         /\ \A i \in DOMAIN s : \E k \in DOMAIN s : By(s, B)[k] = i
         /\ \A j, k \in DOMAIN s : By(s, B)[j] = By(s, B)[k] => j = k
         /\ \A j, k \in DOMAIN s : j < k => <<By(s, B)[k], By(s, B)[j]>> \notin B
<1> DEFINE o == By(s, B)
           R == Stably(DOMAIN s, B)
<1>1. PICK n \in Nat : n = Len(s)
  OBVIOUS
<1>2. DOMAIN s = 1 .. n /\ IsFiniteSet(DOMAIN s) /\ Cardinality(DOMAIN s) = n
  BY <1>1, CountedTo
<1>3. TotalOn(DOMAIN s, R)
  BY <1>2, StablyTotal
<1> HIDE DEF R
<1>4. /\ o \in [1 .. n -> DOMAIN s]
      /\ \A x \in DOMAIN s : \E k \in 1 .. n : o[k] = x
      /\ \A j, k \in 1 .. n : j < k <=> <<o[j], o[k]>> \in R
  <2>1. o = Arranged(DOMAIN s, R)
    BY DEF By, R
  <2> HIDE DEF o
  <2>2. o \in [1 .. n -> DOMAIN s]
    BY <1>2, <1>3, <2>1, ArrangedIs
  <2>3. \A x \in DOMAIN s : Ahead(DOMAIN s, R, x) + 1 \in 1 .. n /\ o[Ahead(DOMAIN s, R, x) + 1] = x
    BY <1>2, <1>3, <2>1, ArrangedIs
  <2>4. \A j, k \in 1 .. n : j < k <=> <<o[j], o[k]>> \in R
    BY <1>2, <1>3, <2>1, ArrangedIs
  <2> QED
    BY <2>2, <2>3, <2>4
<1>5. Sorted(s, B) = [k \in 1 .. n |-> s[o[k]]]
  BY <1>2 DEF Sorted, By
<1> HIDE DEF o
<1>6. \A k \in 1 .. n : o[k] \in DOMAIN s /\ s[o[k]] \in A
  BY <1>4
<1>7. Sorted(s, B) \in Seq(A)
  <2>1. Sorted(s, B) \in [1 .. n -> A]
    BY <1>5, <1>6
  <2> QED
    BY <2>1
<1>8. ASSUME NEW j \in 1 .. n, NEW k \in 1 .. n, o[j] = o[k] PROVE j = k
  <2>1. ~(j < k) /\ ~(k < j)
    BY <1>3, <1>4, <1>6, <1>8 DEF TotalOn
  <2> QED
    BY <2>1
<1>9. ASSUME NEW j \in 1 .. n, NEW k \in 1 .. n, j < k PROVE <<o[k], o[j]>> \notin B
  <2>1. <<o[j], o[k]>> \in R
    BY <1>4, <1>9
  <2>2. <<o[j], o[k]>> \in B \/ <<o[k], o[j]>> \notin B
    BY <2>1 DEF R, Stably
  <2>3. <<o[j], o[k]>> \in B => <<o[k], o[j]>> \notin B
    BY <1>6 DEF WeakOn
  <2> QED
    BY <2>2, <2>3
<1> QED
  BY <1>2, <1>4, <1>5, <1>6, <1>7, <1>8, <1>9 DEF o

LEMMA CutIs ==
  ASSUME NEW A, NEW s \in Seq(A), NEW n \in Nat
  PROVE  /\ Cut(s, n) \in Seq(A)
         /\ Len(Cut(s, n)) = IF n < Len(s) THEN n ELSE Len(s)
         /\ \A i \in 1 .. Len(Cut(s, n)) : Cut(s, n)[i] = s[i]
<1>1. PICK m : m = IF n < Len(s) THEN n ELSE Len(s)
  OBVIOUS
<1>2. m \in 0 .. Len(s) /\ Cut(s, n) = SubSeq(s, 1, m)
  BY <1>1 DEF Cut
<1>3. SubSeq(s, 1, m) \in Seq(A) /\ Len(SubSeq(s, 1, m)) = m
      /\ \A i \in 1 .. m : SubSeq(s, 1, m)[i] = s[i]
  BY <1>2
<1> QED
  BY <1>1, <1>2, <1>3

\* To select from a list and to sort it, in whichever order.
LEMMA SortSelected ==
  ASSUME NEW A, NEW s \in Seq(A), NEW B, WeakOn(DOMAIN s, B), NEW E \in SUBSET DOMAIN s, NEW C,
         \A j, k \in 1 .. Cardinality(E) : <<j, k>> \in C <=> <<Nth(E, j), Nth(E, k)>> \in B
  PROVE  AtPositions(Sorted(s, B), {k \in DOMAIN s : By(s, B)[k] \in E})
           = Sorted(AtPositions(s, E), C)
<1> DEFINE o == By(s, B)
           R == Stably(DOMAIN s, B)
           W == {k \in DOMAIN s : o[k] \in E}
           t == AtPositions(s, E)
<1>1. PICK n \in Nat : n = Len(s)
  OBVIOUS
<1>2. PICK D : D = DOMAIN s
  OBVIOUS
<1>3. D = 1 .. n /\ IsFiniteSet(D) /\ Cardinality(D) = n /\ E \in SUBSET (1 .. n)
  BY <1>1, <1>2, CountedTo
<1>4. TotalOn(D, R)
  BY <1>2, <1>3, StablyTotal
<1>5. PICK e \in Nat : e = Cardinality(E)
  BY <1>3, RankGrows
<1>6. /\ DOMAIN t = 1 .. e
      /\ \A k \in 1 .. e : Nth(E, k) \in E /\ t[k] = s[Nth(E, k)]
      /\ \A i \in E : \E k \in 1 .. e : Nth(E, k) = i
      /\ \A j, k \in 1 .. e : Nth(E, j) = Nth(E, k) => j = k
  BY <1>3, <1>5, Positions
<1>7. \A j, k \in 1 .. e : j < k <=> Nth(E, j) < Nth(E, k)
  BY <1>3, <1>5, NthGrows
<1>8. o = Arranged(D, R)
  BY <1>2 DEF By
<1> HIDE DEF o, t
<1>9. W = {k \in 1 .. Cardinality(D) : o[k] \in E}
  BY <1>2, <1>3
<1>10. W \in SUBSET (1 .. n) /\ Cardinality(W) = e /\ AtPositions(o, W) = Arranged(E, R)
  <2> HIDE DEF R, W
  <2> QED
    BY <1>2, <1>3, <1>4, <1>5, <1>8, <1>9, ArrangedPart
<1> DEFINE Q == Stably(1 .. e, C)
           h == [k \in 1 .. e |-> Nth(E, k)]
           q == Arranged(1 .. e, Q)
<1>11. ASSUME NEW j \in 1 .. e, NEW k \in 1 .. e
       PROVE  <<j, k>> \in Q <=> <<h[j], h[k]>> \in R
  <2>1. /\ Nth(E, j) \in D /\ Nth(E, k) \in D
        /\ <<j, k>> \in C <=> <<Nth(E, j), Nth(E, k)>> \in B
        /\ <<k, j>> \in C <=> <<Nth(E, k), Nth(E, j)>> \in B
        /\ j < k <=> Nth(E, j) < Nth(E, k)
    BY <1>3, <1>5, <1>6, <1>7
  <2>2. <<j, k>> \in Q <=> <<j, k>> \in C \/ (<<k, j>> \notin C /\ j < k)
    BY DEF Stably
  <2>3. <<h[j], h[k]>> \in R <=> \/ <<Nth(E, j), Nth(E, k)>> \in B
                                 \/ <<Nth(E, k), Nth(E, j)>> \notin B /\ Nth(E, j) < Nth(E, k)
    BY <1>2, <2>1 DEF Stably
  <2> QED
    BY <2>1, <2>2, <2>3
<1>12. \A k \in 1 .. e : q[k] \in 1 .. e /\ h[q[k]] = Arranged(E, R)[k]
  <2>1. h \in [1 .. e -> E] /\ \A k \in 1 .. e : h[k] = Nth(E, k)
    BY <1>6
  <2>2. (\A i \in E : \E k \in 1 .. e : h[k] = i) /\ \A j, k \in 1 .. e : h[j] = h[k] => j = k
    BY <1>6
  <2> HIDE DEF h, Q, R
  <2>3. IsFiniteSet(E) /\ TotalOn(E, R)
    <3>1. IsFiniteSet(E)
      BY <1>3, FS_Subset
    <3>2. E \subseteq D
      BY <1>2
    <3> QED
      BY <1>4, <3>1, <3>2 DEF TotalOn
  <2>4. PICK T : T = 1 .. e
    OBVIOUS
  <2>5. h \in [T -> E] /\ \A j, k \in T : <<j, k>> \in Q <=> <<h[j], h[k]>> \in R
    BY <1>11, <2>1, <2>4
  <2>6. (\A i \in E : \E k \in T : h[k] = i) /\ \A j, k \in T : h[j] = h[k] => j = k
    BY <2>2, <2>4
  <2>7. \A k \in 1 .. Cardinality(E) :
          Arranged(T, Q)[k] \in T /\ h[Arranged(T, Q)[k]] = Arranged(E, R)[k]
    BY <2>3, <2>5, <2>6, ArrangedImage
  <2> QED
    BY <1>5, <2>4, <2>7
<1>13. ASSUME NEW k \in 1 .. e PROVE Sorted(s, B)[Nth(W, k)] = t[q[k]]
  <2>1. Nth(W, k) \in D /\ AtPositions(o, W)[k] = o[Nth(W, k)]
    <3> HIDE DEF W
    <3>1. Nth(W, k) \in W /\ AtPositions(o, W)[k] = o[Nth(W, k)]
      BY <1>10, Positions
    <3> QED
      BY <1>3, <1>10, <3>1
  <2>2. Sorted(s, B)[Nth(W, k)] = s[o[Nth(W, k)]]
    BY <1>2, <2>1, SortedIs DEF o
  <2>3. o[Nth(W, k)] = h[q[k]] /\ q[k] \in 1 .. e
    BY <1>10, <1>12, <2>1
  <2>4. h[q[k]] = Nth(E, q[k])
    BY <2>3
  <2> QED
    BY <1>6, <2>2, <2>3, <2>4
<1>14. AtPositions(Sorted(s, B), W) = [k \in 1 .. e |-> Sorted(s, B)[Nth(W, k)]]
  <2> HIDE DEF W
  <2> QED
    BY <1>10 DEF AtPositions
<1>15. Sorted(t, C) = [k \in 1 .. e |-> t[q[k]]]
  BY <1>6 DEF Sorted
<1> HIDE DEF q, W
<1>16. AtPositions(Sorted(s, B), W) = Sorted(t, C)
  BY <1>13, <1>14, <1>15
<1> QED
  BY <1>16 DEF W, t, o

\* What is selected of a cut is where the selection of the whole begins.
LEMMA CutSelected ==
  ASSUME NEW A, NEW s \in Seq(A), NEW m \in Nat, NEW E \in SUBSET DOMAIN s
  PROVE  LET D == {i \in DOMAIN Cut(s, m) : i \in E}
         IN  IsPrefix(AtPositions(Cut(s, m), D), Cut(AtPositions(s, E), m))
<1> DEFINE c == Cut(s, m)
           D == {i \in DOMAIN c : i \in E}
           a == AtPositions(c, D)
           w == AtPositions(s, E)
<1>1. PICK n \in Nat : n = Len(s)
  OBVIOUS
<1>2. PICK l \in Nat : l = Len(c)
  BY CutIs
<1> HIDE DEF D, a, w
<1>3. /\ l = IF m < n THEN m ELSE n
      /\ DOMAIN c = 1 .. l /\ \A i \in 1 .. l : i \in 1 .. n /\ c[i] = s[i]
  <2>1. c \in Seq(A) /\ l = IF m < n THEN m ELSE n
    BY <1>1, <1>2, CutIs
  <2>2. \A i \in 1 .. l : c[i] = s[i]
    BY <1>2, CutIs
  <2>3. DOMAIN c = 1 .. l
    <3>1. c \in Seq(A)
      BY <2>1
    <3>2. DOMAIN c = 1 .. Len(c)
      <4> HIDE DEF c
      <4> QED
        BY <3>1
    <3> QED
      BY <1>2, <3>2
  <2>4. \A i \in 1 .. l : i \in 1 .. n
    BY <2>1
  <2> QED
    BY <2>1, <2>2, <2>3, <2>4
<1> HIDE DEF c
<1>4. D \in SUBSET (1 .. l) /\ E \in SUBSET (1 .. n) /\ D \subseteq E /\ D = {i \in E : i <= l}
  BY <1>1, <1>3 DEF D
<1> USE DEF a, w
<1>5. PICK d \in Nat, e \in Nat : d = Cardinality(D) /\ e = Cardinality(E) /\ d <= e /\ d <= l
  <2>1. IsFiniteSet(E) /\ Cardinality(E) \in Nat
    BY <1>4, RankGrows
  <2>2. Cardinality(D) \in 0 .. l
    BY <1>4, RankGrows
  <2>3. Cardinality(D) <= Cardinality(E)
    BY <1>4, <2>1, FS_Subset
  <2> QED
    BY <2>1, <2>2, <2>3
<1>6. ASSUME NEW k \in 1 .. d
      PROVE  Nth(D, k) \in 1 .. l /\ Nth(D, k) = Nth(E, k)
  <2>1. Nth(D, k) \in D /\ PlaceIn(D, Nth(D, k)) = k
    BY <1>4, <1>5, RankReached
  <2>2. PICK i \in D : i = Nth(D, k)
    BY <2>1
  <2>3. {j \in E : j <= i} = {j \in D : j <= i}
    BY <1>3, <1>4
  <2>4. PlaceIn(E, i) = k
    BY <2>1, <2>2, <2>3 DEF PlaceIn
  <2>5. Nth(E, k) = i
    BY <1>4, <2>4, NthIs
  <2> QED
    BY <1>4, <2>2, <2>5
<1>7. /\ a \in Seq(A) /\ Len(a) = d /\ w \in Seq(A) /\ Len(w) = e
      /\ \A k \in 1 .. d : a[k] = w[k]
  <2>0. D \in SUBSET (1 .. l)
    BY <1>4
  <2>1. DOMAIN a = 1 .. d /\ \A k \in 1 .. d : Nth(D, k) \in D /\ a[k] = c[Nth(D, k)]
    BY <1>5, <2>0, Positions
  <2>2. DOMAIN w = 1 .. e /\ \A k \in 1 .. e : Nth(E, k) \in E /\ w[k] = s[Nth(E, k)]
    BY <1>4, <1>5, Positions
  <2>3. a = [k \in 1 .. d |-> a[k]] /\ w = [k \in 1 .. e |-> w[k]]
    BY <1>5 DEF AtPositions
  <2> HIDE DEF a, w
  <2>4. \A i \in 1 .. n : s[i] \in A
    BY <1>1
  <2>5. \A k \in 1 .. d : a[k] \in A /\ a[k] = w[k]
    BY <1>3, <1>5, <1>6, <2>1, <2>2, <2>4
  <2>6. \A k \in 1 .. e : w[k] \in A
    BY <1>4, <2>2, <2>4
  <2>7. a \in [1 .. d -> A] /\ w \in [1 .. e -> A]
    BY <2>3, <2>5, <2>6
  <2> QED
    BY <2>5, <2>7
<1> HIDE DEF a, w
<1>8. PICK u : u = Cut(w, m)
  OBVIOUS
<1>9. u \in Seq(A) /\ d <= Len(u) /\ \A k \in 1 .. Len(u) : u[k] = w[k]
  <2>1. u \in Seq(A) /\ Len(u) = (IF m < e THEN m ELSE e) /\ \A k \in 1 .. Len(u) : u[k] = w[k]
    BY <1>7, <1>8, CutIs
  <2>2. d <= m
    BY <1>3, <1>5
  <2> QED
    BY <1>5, <2>1, <2>2
<1>10. IsPrefix(a, u)
  <2>1. Len(a) <= Len(u)
    BY <1>7, <1>9
  <2>2. SubSeq(a, 1, d) = [k \in 1 .. d |-> a[k]] /\ SubSeq(u, 1, d) = [k \in 1 .. d |-> u[k]]
    <3>1. d <= Len(a) /\ Len(a) \in Nat /\ Len(u) \in Nat
      BY <1>7, <1>9
    <3>2. /\ SubSeq(a, 1, d) \in Seq(A) /\ Len(SubSeq(a, 1, d)) = d
          /\ \A k \in 1 .. d : SubSeq(a, 1, d)[k] = a[k]
      BY <1>7, <3>1
    <3>3. /\ SubSeq(u, 1, d) \in Seq(A) /\ Len(SubSeq(u, 1, d)) = d
          /\ \A k \in 1 .. d : SubSeq(u, 1, d)[k] = u[k]
      BY <1>9, <3>1
    <3>4. \A r \in Seq(A) : r = [k \in 1 .. Len(r) |-> r[k]]
      OBVIOUS
    <3> QED
      BY <3>2, <3>3, <3>4
  <2>3. \A k \in 1 .. d : a[k] = u[k]
    BY <1>7, <1>9
  <2> QED
    BY <1>7, <2>1, <2>2, <2>3 DEF IsPrefix
<1> QED
  BY <1>8, <1>10 DEF a, w, c, D

------------------------------------------------------------------------------
(* Lists of lists. *)

LEMMA SpotIs ==
  ASSUME NEW A, NEW lists \in Seq(Seq(A))
  PROVE  /\ \A p : p \in Spots(lists) <=>
              \E i \in DOMAIN lists : \E j \in DOMAIN lists[i] : p = <<i, j>>
         /\ \A p \in Spots(lists) :
              /\ p = <<p[1], p[2]>> /\ p[1] \in DOMAIN lists /\ p[2] \in DOMAIN lists[p[1]]
              /\ p[1] \in Nat /\ p[2] \in Nat /\ lists[p[1]][p[2]] \in A
<1>1. \A p : p \in Spots(lists) <=>
         \E i \in DOMAIN lists : \E j \in DOMAIN lists[i] : p = <<i, j>>
  BY DEF Spots
<1>2. \A i \in DOMAIN lists : i \in Nat /\ lists[i] \in Seq(A)
  OBVIOUS
<1>3. \A i \in DOMAIN lists : \A j \in DOMAIN lists[i] : j \in Nat /\ lists[i][j] \in A
  BY <1>2
<1> QED
  BY <1>1, <1>2, <1>3

LEMMA SpotsOrdered ==
  ASSUME NEW A, NEW lists \in Seq(Seq(A))
  PROVE  IsFiniteSet(Spots(lists)) /\ TotalOn(Spots(lists), ListByList(lists))
<1> DEFINE S == Spots(lists)
           R == ListByList(lists)
<1>1. IsFiniteSet(S)
  <2>1. PICK n \in Nat : n = Len(lists)
    OBVIOUS
  <2>2. DOMAIN lists = 1 .. n
    BY <2>1
  <2> DEFINE row == [i \in 1 .. n |-> {<<i, j>> : j \in DOMAIN lists[i]}]
             Rows == {row[i] : i \in 1 .. n}
  <2>3. IsFiniteSet(Rows)
    <3>1. row \in Surjection(1 .. n, Rows)
      BY DEF Surjection
    <3> HIDE DEF row, Rows
    <3> QED
      BY <3>1, CountedTo, FS_Surjection
  <2>4. ASSUME NEW i \in 1 .. n PROVE IsFiniteSet(row[i])
    <3>1. PICK m \in Nat : m = Len(lists[i])
      BY <2>2
    <3>2. DOMAIN lists[i] = 1 .. m
      BY <2>2, <3>1
    <3> DEFINE f == [j \in 1 .. m |-> <<i, j>>]
    <3>3. f \in Surjection(1 .. m, row[i])
      BY <3>2 DEF Surjection
    <3> HIDE DEF f, row
    <3> QED
      BY <3>3, CountedTo, FS_Surjection
  <2>5. S = UNION Rows
    <3>1. Rows = {{<<i, j>> : j \in DOMAIN lists[i]} : i \in 1 .. n}
      OBVIOUS
    <3> QED
      BY <2>2, <3>1 DEF Spots
  <2> HIDE DEF S, row
  <2>6. \A T \in Rows : IsFiniteSet(T)
    BY <2>4
  <2> HIDE DEF Rows
  <2> QED
    BY <2>3, <2>5, <2>6, FS_UNION
<1>2. \A p, q \in S : <<p, q>> \in R <=> p[1] < q[1] \/ (p[1] = q[1] /\ p[2] < q[2])
  BY DEF ListByList
<1>3. \A p \in S : p = <<p[1], p[2]>> /\ p[1] \in Nat /\ p[2] \in Nat
  BY SpotIs
<1> HIDE DEF S, R
<1>4. \A p \in S : <<p, p>> \notin R
  BY <1>2, <1>3
<1>5. ASSUME NEW p \in S, NEW q \in S, p # q PROVE <<p, q>> \in R \/ <<q, p>> \in R
  <2>1. p[1] # q[1] \/ p[2] # q[2]
    BY <1>3, <1>5
  <2> QED
    BY <1>2, <1>3, <2>1
<1>6. ASSUME NEW p \in S, NEW q \in S, NEW r \in S, <<p, q>> \in R, <<q, r>> \in R
      PROVE  <<p, r>> \in R
  <2>1. p[1] \in Nat /\ p[2] \in Nat /\ q[1] \in Nat /\ q[2] \in Nat /\ r[1] \in Nat /\ r[2] \in Nat
    BY <1>3
  <2> QED
    BY <1>2, <1>6, <2>1
<1>7. TotalOn(S, R)
  BY <1>4, <1>5, <1>6 DEF TotalOn
<1> QED
  BY <1>1, <1>7 DEF S, R

\* Where the elements of the flattened list come from.
Origin(lists) == Arranged(Spots(lists), ListByList(lists))
At(lists, p)  == lists[p[1]][p[2]]

LEMMA FlatIs ==
  ASSUME NEW A, NEW lists \in Seq(Seq(A))
  PROVE  /\ Flat(lists) \in Seq(A)
         /\ \A k \in DOMAIN Flat(lists) :
              Origin(lists)[k] \in Spots(lists) /\ Flat(lists)[k] = At(lists, Origin(lists)[k])
         /\ \A p \in Spots(lists) : \E k \in DOMAIN Flat(lists) : Origin(lists)[k] = p
         /\ \A j, k \in DOMAIN Flat(lists) : Origin(lists)[j] = Origin(lists)[k] => j = k
<1> DEFINE S == Spots(lists)
           R == ListByList(lists)
           o == Origin(lists)
<1>1. IsFiniteSet(S) /\ TotalOn(S, R)
  BY SpotsOrdered
<1>2. o = Arranged(S, R)
  BY DEF Origin
<1>3. \A p \in S : At(lists, p) \in A
  BY SpotIs DEF At
<1> HIDE DEF S, R
<1>4. PICK n \in Nat : n = Cardinality(S)
  BY <1>1, FS_CardinalityType
<1>5. o \in [1 .. n -> S] /\ DOMAIN o = 1 .. n
  BY <1>1, <1>2, <1>4, ArrangedIs
<1>6. \A p \in S : Ahead(S, R, p) + 1 \in 1 .. n /\ o[Ahead(S, R, p) + 1] = p
  <2> HIDE DEF o
  <2> QED
    BY <1>1, <1>2, <1>4, ArrangedIs
<1>7. \A j, k \in 1 .. n : j < k <=> <<o[j], o[k]>> \in R
  <2> HIDE DEF o
  <2> QED
    BY <1>1, <1>2, <1>4, ArrangedIs
<1>8. Flat(lists) = [k \in DOMAIN o |-> At(lists, o[k])]
  BY DEF Flat, Origin, At
<1> HIDE DEF o
<1>9. DOMAIN Flat(lists) = 1 .. n /\ \A k \in 1 .. n : o[k] \in S /\ Flat(lists)[k] = At(lists, o[k])
  BY <1>5, <1>8
<1>10. Flat(lists) \in Seq(A)
  <2>1. Flat(lists) = [k \in 1 .. n |-> At(lists, o[k])]
    BY <1>5, <1>8
  <2>2. \A k \in 1 .. n : At(lists, o[k]) \in A
    BY <1>3, <1>9
  <2>3. Flat(lists) \in [1 .. n -> A]
    BY <2>1, <2>2
  <2> QED
    BY <2>3
<1>11. ASSUME NEW j \in 1 .. n, NEW k \in 1 .. n, o[j] = o[k] PROVE j = k
  <2>1. ~(j < k) /\ ~(k < j)
    BY <1>1, <1>7, <1>9, <1>11 DEF TotalOn
  <2> QED
    BY <2>1
<1>12. \A p \in S : \E k \in 1 .. n : o[k] = p
  BY <1>6
<1> QED
  BY <1>9, <1>10, <1>11, <1>12 DEF S, o

\* How many elements of a kind a flattened list has.
LEMMA FlatCount ==
  ASSUME NEW A, NEW lists \in Seq(Seq(A)), NEW T
  PROVE  Cardinality({k \in DOMAIN Flat(lists) : Flat(lists)[k] \in T})
           = Cardinality({p \in Spots(lists) : At(lists, p) \in T})
<1> DEFINE f == Flat(lists)
           o == Origin(lists)
           K == {k \in DOMAIN f : f[k] \in T}
           P == {p \in Spots(lists) : At(lists, p) \in T}
           g == [k \in K |-> o[k]]
<1>1. /\ \A k \in DOMAIN f : o[k] \in Spots(lists) /\ f[k] = At(lists, o[k])
      /\ \A p \in Spots(lists) : \E k \in DOMAIN f : o[k] = p
      /\ \A j, k \in DOMAIN f : o[j] = o[k] => j = k
  BY FlatIs
<1>2. IsFiniteSet(K)
  <2>1. f \in Seq(A)
    BY FlatIs
  <2>2. PICK n \in Nat : n = Len(f)
    BY <2>1
  <2>3. DOMAIN f = 1 .. n
    <3> HIDE DEF f
    <3> QED
      BY <2>1, <2>2
  <2>4. IsFiniteSet(DOMAIN f)
    BY <2>3, CountedTo
  <2> QED
    BY <2>4, FS_Subset
<1> HIDE DEF f, o
<1>3. g \in [K -> P] /\ (\A j, k \in K : g[j] = g[k] => j = k) /\ \A p \in P : \E k \in K : g[k] = p
  BY <1>1
<1>4. ExistsBijection(K, P)
  <2> HIDE DEF g, K, P
  <2> QED
    BY <1>3 DEF ExistsBijection, Bijection, Injection, Surjection, IsInjective
<1>5. Cardinality(K) = Cardinality(P)
  <2> HIDE DEF K, P
  <2> QED
    BY <1>2, <1>4, FS_Bijection
<1> QED
  BY <1>5 DEF f, K, P

\* The places of the elements of a kind, in a list and in some of many lists.
Found(list, T)     == {k \in DOMAIN list : list[k] \in T}
Held(lists, E, T)  == {p \in Spots(lists) : p[1] \in E /\ At(lists, p) \in T}

\* What the selected lists hold is held at their places among all lists.
LEMMA PartCount ==
  ASSUME NEW A, NEW lists \in Seq(Seq(A)), NEW E \in SUBSET DOMAIN lists, NEW T
  PROVE  /\ AtPositions(lists, E) \in Seq(Seq(A))
         /\ Cardinality(Found(Flat(AtPositions(lists, E)), T)) = Cardinality(Held(lists, E, T))
<1> DEFINE part == AtPositions(lists, E)
           P == {p \in Spots(part) : At(part, p) \in T}
           Q == {p \in Spots(lists) : p[1] \in E /\ At(lists, p) \in T}
           g == [p \in P |-> <<Nth(E, p[1]), p[2]>>]
<1>1. PICK n \in Nat : n = Len(lists)
  OBVIOUS
<1>2. DOMAIN lists = 1 .. n /\ E \in SUBSET (1 .. n)
  BY <1>1
<1>3. PICK e \in Nat : e = Cardinality(E)
  BY <1>2, RankGrows
<1>4. /\ DOMAIN part = 1 .. e
      /\ \A k \in 1 .. e : Nth(E, k) \in E /\ part[k] = lists[Nth(E, k)]
      /\ \A i \in E : \E k \in 1 .. e : Nth(E, k) = i
      /\ \A j, k \in 1 .. e : Nth(E, j) = Nth(E, k) => j = k
  BY <1>2, <1>3, Positions
<1>5. part \in Seq(Seq(A))
  <2>1. part = [k \in 1 .. e |-> part[k]]
    BY <1>3 DEF AtPositions
  <2> HIDE DEF part
  <2>2. \A k \in 1 .. e : part[k] \in Seq(A)
    BY <1>4
  <2>3. part \in [1 .. e -> Seq(A)]
    BY <2>1, <2>2
  <2> QED
    BY <2>3
<1> HIDE DEF part
<1>6. \A p \in Spots(part) :
        /\ p = <<p[1], p[2]>> /\ p[1] \in 1 .. e /\ p[2] \in DOMAIN part[p[1]]
        /\ Nth(E, p[1]) \in E /\ part[p[1]] = lists[Nth(E, p[1])]
  <2>1. \A p \in Spots(part) : p = <<p[1], p[2]>> /\ p[1] \in DOMAIN part /\ p[2] \in DOMAIN part[p[1]]
    BY <1>5, SpotIs
  <2> QED
    BY <1>4, <2>1
<1>7. \A p \in P : g[p] = <<Nth(E, p[1]), p[2]>>
  OBVIOUS
<1>8. g \in [P -> Q]
  <2>1. ASSUME NEW p \in P PROVE <<Nth(E, p[1]), p[2]>> \in Q
    <3>1. <<Nth(E, p[1]), p[2]>> \in Spots(lists)
      <4>1. Nth(E, p[1]) \in DOMAIN lists /\ p[2] \in DOMAIN lists[Nth(E, p[1])]
        BY <1>6
      <4> QED
        BY <4>1, SpotIs
    <3>2. At(lists, <<Nth(E, p[1]), p[2]>>) = At(part, p)
      BY <1>6 DEF At
    <3> QED
      BY <1>6, <3>1, <3>2
  <2> QED
    BY <2>1
<1>9. ASSUME NEW p \in P, NEW q \in P, g[p] = g[q] PROVE p = q
  <2>1. Nth(E, p[1]) = Nth(E, q[1]) /\ p[2] = q[2]
    BY <1>7, <1>9
  <2>2. p[1] = q[1]
    BY <1>4, <1>6, <2>1
  <2> QED
    BY <1>6, <2>1, <2>2
<1>10. ASSUME NEW q \in Q PROVE \E p \in P : g[p] = q
  <2>1. q = <<q[1], q[2]>> /\ q[2] \in DOMAIN lists[q[1]] /\ q[1] \in E
    BY SpotIs
  <2>2. PICK k \in 1 .. e : Nth(E, k) = q[1]
    BY <1>4, <2>1
  <2>3. <<k, q[2]>> \in Spots(part)
    <3>1. k \in DOMAIN part /\ q[2] \in DOMAIN part[k]
      BY <1>4, <2>1, <2>2
    <3> QED
      BY <1>5, <3>1, SpotIs
  <2>4. At(part, <<k, q[2]>>) = At(lists, q)
    BY <1>4, <2>2 DEF At
  <2>5. <<k, q[2]>> \in P
    BY <2>3, <2>4
  <2>6. g[<<k, q[2]>>] = q
    BY <1>7, <2>1, <2>2, <2>5
  <2> QED
    BY <2>5, <2>6
<1>11. IsFiniteSet(P)
  BY <1>5, SpotsOrdered, FS_Subset
<1>12. ExistsBijection(P, Q)
  <2> HIDE DEF g, P, Q
  <2> QED
    BY <1>8, <1>9, <1>10 DEF ExistsBijection, Bijection, Injection, Surjection, IsInjective
<1>13. Cardinality(P) = Cardinality(Q)
  <2> HIDE DEF P, Q
  <2> QED
    BY <1>11, <1>12, FS_Bijection
<1>14. Cardinality({k \in DOMAIN Flat(part) : Flat(part)[k] \in T}) = Cardinality(P)
  BY <1>5, FlatCount
<1> QED
  BY <1>5, <1>13, <1>14 DEF part, Found, Held

LEMMA ListHas ==
  ASSUME NEW A, NEW s \in Seq(A)
  PROVE  /\ \A i \in DOMAIN s : s[i] \in A
         /\ Len(s) \in Nat /\ DOMAIN s = 1 .. Len(s)
  OBVIOUS

LEMMA SameDomain ==
  ASSUME NEW A, NEW s \in Seq(A), NEW B, NEW t \in Seq(B), DOMAIN s = DOMAIN t
  PROVE  Len(s) = Len(t)
  OBVIOUS

\* What is selected is a list of those selected.
LEMMA SelectedList ==
  ASSUME NEW A, NEW s \in Seq(A), NEW E \in SUBSET DOMAIN s
  PROVE  /\ AtPositions(s, E) \in Seq({s[i] : i \in E}) /\ AtPositions(s, E) \in Seq(A)
         /\ Len(AtPositions(s, E)) = Cardinality(E)
         /\ DOMAIN AtPositions(s, E) = 1 .. Cardinality(E)
         /\ \A k \in 1 .. Cardinality(E) : Nth(E, k) \in E /\ AtPositions(s, E)[k] = s[Nth(E, k)]
<1> DEFINE t == AtPositions(s, E)
           V == {s[i] : i \in E}
<1>1. PICK n \in Nat : n = Len(s)
  OBVIOUS
<1>2. E \in SUBSET (1 .. n) /\ V \subseteq A
  BY <1>1
<1>3. PICK e \in Nat : e = Cardinality(E)
  BY <1>2, RankGrows
<1>4. DOMAIN t = 1 .. e /\ \A k \in 1 .. e : Nth(E, k) \in E /\ t[k] = s[Nth(E, k)]
  BY <1>2, <1>3, Positions
<1>5. t = [k \in 1 .. e |-> t[k]]
  BY <1>3 DEF AtPositions
<1> HIDE DEF t
<1>6. \A k \in 1 .. e : t[k] \in V
  BY <1>4
<1> HIDE DEF V
<1>7. t \in [1 .. e -> V] /\ t \in [1 .. e -> A]
  BY <1>2, <1>5, <1>6
<1>8. t \in Seq(V) /\ t \in Seq(A) /\ Len(t) = e
  BY <1>7
<1> QED
  BY <1>3, <1>4, <1>8 DEF t, V

\* To cut a sorted list and to select from what is left is where it begins to
\* select, to sort and to cut; what is cut then are elements selected.
LEMMA SelectBeforeCut ==
  ASSUME NEW A, NEW P \in Seq(A), NEW B, WeakOn(DOMAIN P, B), NEW M \in Nat, NEW E \in SUBSET DOMAIN P,
         NEW C, WeakOn(DOMAIN AtPositions(P, E), C),
         \A j, k \in 1 .. Cardinality(E) : <<j, k>> \in C <=> <<Nth(E, j), Nth(E, k)>> \in B,
         NEW all, all = Cut(Sorted(P, B), M), NEW page, page = Cut(Sorted(AtPositions(P, E), C), M),
         NEW T, \A i \in DOMAIN P : i \in E <=> P[i] \in T
  PROVE  /\ IsPrefix(AtPositions(all, Found(all, T)), page)
         /\ all \in Seq(A) /\ page \in Seq(A) /\ \A i \in DOMAIN page : page[i] \in T
         /\ Len(page) = IF M < Cardinality(E) THEN M ELSE Cardinality(E)
<1>1. PICK s, t, u, o : s = Sorted(P, B) /\ t = AtPositions(P, E) /\ u = Sorted(t, C) /\ o = By(P, B)
  OBVIOUS
<1>2. s \in Seq(A) /\ DOMAIN s = DOMAIN P
  BY <1>1, SortedIs
<1>3. \A k \in DOMAIN P : o[k] \in DOMAIN P /\ s[k] = P[o[k]]
  BY <1>1, SortedIs
<1>4. all \in Seq(A) /\ \A i \in DOMAIN all : i \in DOMAIN s /\ all[i] = s[i]
  <2>1. all \in Seq(A) /\ \A i \in 1 .. Len(all) : all[i] = s[i]
    BY <1>1, <1>2, CutIs
  <2>2. PICK m \in Nat, n \in Nat : m = Len(all) /\ n = Len(s)
    BY <1>2, <2>1, ListHas
  <2>3. m <= n
    <3>1. m = IF M < n THEN M ELSE n
      BY <1>1, <1>2, <2>2, CutIs
    <3> QED
      BY <3>1
  <2>4. DOMAIN all = 1 .. m /\ DOMAIN s = 1 .. n
    BY <1>2, <2>1, <2>2, ListHas
  <2> QED
    BY <2>1, <2>2, <2>3, <2>4
<1>5. PICK F : F = {k \in DOMAIN P : o[k] \in E}
  OBVIOUS
<1>6. AtPositions(s, F) = u
  BY <1>1, <1>5, SortSelected
<1>7. F \in SUBSET DOMAIN s
  BY <1>2, <1>5
<1>8. IsPrefix(AtPositions(all, {i \in DOMAIN all : i \in F}), page)
  BY <1>1, <1>2, <1>6, <1>7, CutSelected
<1>9. Found(all, T) = {i \in DOMAIN all : i \in F}
  <2>1. \A i \in DOMAIN all : i \in F <=> all[i] \in T
    BY <1>2, <1>3, <1>4, <1>5
  <2> QED
    BY <2>1 DEF Found
<1>10. PICK V : V = {P[i] : i \in E}
  OBVIOUS
<1>11. t \in Seq(V) /\ Len(t) = Cardinality(E)
  BY <1>1, <1>10, SelectedList
<1>12. u \in Seq(V) /\ DOMAIN u = DOMAIN t
  BY <1>1, <1>11, SortedIs
<1>13. Len(u) = Cardinality(E)
  BY <1>11, <1>12, SameDomain
<1>14. page \in Seq(V) /\ Len(page) = IF M < Cardinality(E) THEN M ELSE Cardinality(E)
  BY <1>1, <1>12, <1>13, CutIs
<1>15. V \subseteq A /\ V \subseteq T
  BY <1>10, ListHas
<1>16. page \in Seq(A) /\ \A i \in DOMAIN page : page[i] \in T
  BY <1>14, <1>15, ListHas
<1> QED
  BY <1>4, <1>8, <1>9, <1>14, <1>16

------------------------------------------------------------------------------
(* The insider activity of an issuer. *)

Forms == {f \in Filings :
            /\ f.form \in INSIDER_FORMS => f.body \in OwnershipReports
            /\ f.form \in PROXY_CANDIDATES => f.body \in ProxyTables}

SubmissionsTyped == submissions \in Seq(Forms)

\* What is filed is typed, and the reports are reports.
LEMMA SubmissionsTypedHolds == GovernanceSpec => []SubmissionsTyped
<1>1. GovernanceInit => SubmissionsTyped
  BY DEF GovernanceInit, SubmissionsTyped
<1>2. ASSUME SubmissionsTyped, [GovernanceNext]_governanceVars
      PROVE  SubmissionsTyped'
  <2>1. ASSUME NEW form \in PROXY_CANDIDATES \cup {"4"}, NEW body, FileDocument(form, body),
               body \in ProxyTables \cup OwnershipReports,
               form = "4" => body \in OwnershipReports,
               form \in PROXY_CANDIDATES => body \in ProxyTables
        PROVE  SubmissionsTyped'
    <3>1. Len(submissions) \in Nat
      BY <1>2 DEF SubmissionsTyped
    <3> DEFINE last == IF submissions = <<>> THEN FirstYear ELSE submissions[1].date
    <3>2. PICK date \in {last, last + 1} :
            /\ submissions' = <<[accession |-> Len(submissions) + 1, date |-> date,
                                 form |-> form, body |-> body]>> \o submissions
      BY <2>1 DEF FileDocument
    <3>3. last \in Int
      <4>1. CASE submissions = <<>>
        BY <3>2, <4>1, GovernanceAssumption
      <4>2. CASE submissions # <<>>
        <5>1. submissions[1] \in Forms
          BY <1>2, <4>2 DEF SubmissionsTyped
        <5>2. submissions[1].date \in Int
          BY <5>1 DEF Forms, Filings
        <5> QED
          BY <3>2, <4>2, <5>2
      <4> QED
        BY <4>1, <4>2
    <3>4. PICK number \in Nat : number = Len(submissions) + 1
      BY <3>1
    <3>5. date \in Int
      BY <3>2, <3>3
    <3>6. PICK new : new = [accession |-> number, date |-> date, form |-> form, body |-> body]
      OBVIOUS
    <3>7. new \in Forms
      <4>1. form \in INSIDER_FORMS => form = "4"
        BY DEF PROXY_CANDIDATES, INSIDER_FORMS
      <4>2. form \in PROXY_CANDIDATES \cup INSIDER_FORMS
        BY DEF INSIDER_FORMS
      <4> QED
        BY <2>1, <3>5, <3>6, <4>1, <4>2 DEF Forms, Filings
    <3>8. submissions' = <<new>> \o submissions
      BY <3>2, <3>4, <3>6
    <3> QED
      BY <1>2, <3>7, <3>8 DEF SubmissionsTyped
  <2>2. CASE \E form \in PROXY_CANDIDATES, table \in ProxyTables : FileDocument(form, table)
    <3>1. "4" \notin PROXY_CANDIDATES
      BY DEF PROXY_CANDIDATES
    <3> QED
      BY <2>1, <2>2, <3>1
  <2>3. CASE \E form \in {"4"}, report \in OwnershipReports : FileDocument(form, report)
    <3>1. "4" \notin PROXY_CANDIDATES
      BY DEF PROXY_CANDIDATES
    <3> QED
      BY <2>1, <2>3, <3>1
  <2>4. CASE UNCHANGED governanceVars
    BY <1>2, <2>4 DEF governanceVars, SubmissionsTyped
  <2> QED
    BY <1>2, <2>2, <2>3, <2>4 DEF GovernanceNext
<1> QED
  BY <1>1, <1>2, PTL DEF GovernanceSpec

ActivityRows ==
  [date: Int, code: STRING \cup {NoValue}, side: {"A", "D", NoValue}, shares: Int \cup {NoValue},
   derivative: BOOLEAN, reporter: STRING \cup {NoValue}, roles: SUBSET Roles,
   accession: Nat, filed: Int]

OwnershipForms == {f \in Forms : f.form \in INSIDER_FORMS}

LEMMA ReportParsed ==
  ASSUME NEW f \in OwnershipForms
  PROVE  /\ ParseReport(f) \in Seq(ActivityRows)
         /\ \A i \in DOMAIN ParseReport(f) : ParseReport(f)[i].accession = f.accession
<1>1. f.body \in OwnershipReports /\ f.accession \in Nat /\ f.date \in Int
  BY DEF OwnershipForms, Forms, Filings
<1>2. PICK report : report = f.body
  OBVIOUS
<1>3. report.owners \in Seq(Owners) /\ report.transactions \in Seq(Transactions)
  BY <1>1, <1>2, GovernanceAssumption
<1> DEFINE reporter == ParseReporter(report)
           Row(t) == Spread([t EXCEPT !.date = IF @ = NoValue THEN f.date ELSE @],
                            [reporter |-> reporter.name, roles |-> reporter.roles,
                             accession |-> f.accession, filed |-> f.date])
           holdings == [date |-> NoValue, code |-> NoValue, side |-> NoValue,
                        shares |-> NoValue, derivative |-> FALSE]
           list == IF report.transactions = <<>> THEN <<holdings>> ELSE report.transactions
<1>4. ParseReport(f) = IF reporter = NoValue THEN <<>> ELSE Mapped(list, Row)
  BY <1>2 DEF ParseReport
<1>5. list \in Seq(Transactions)
  <2>1. holdings \in Transactions
    BY DEF Transactions
  <2> HIDE DEF holdings
  <2> QED
    BY <1>3, <2>1
<1>6. ASSUME NEW t \in Transactions, reporter # NoValue
      PROVE  Row(t) \in ActivityRows /\ Row(t).accession = f.accession
  <2>1. reporter \in Owners
    <3>1. report.owners # <<>> /\ reporter = report.owners[1]
      BY <1>6 DEF ParseReporter
    <3> QED
      BY <1>3, <3>1
  <2>2. PICK name \in STRING \cup {NoValue}, roles \in SUBSET Roles :
          name = reporter.name /\ roles = reporter.roles
    BY <2>1 DEF Owners
  <2>3. PICK u : u = [t EXCEPT !.date = IF @ = NoValue THEN f.date ELSE @]
    OBVIOUS
  <2>4. /\ u.date \in Int /\ u.code = t.code /\ u.side = t.side /\ u.shares = t.shares
        /\ u.derivative = t.derivative
        /\ DOMAIN u = {"date", "code", "side", "shares", "derivative"}
    BY <1>1, <2>3 DEF Transactions
  <2>5. PICK v : v = [reporter |-> name, roles |-> roles, accession |-> f.accession, filed |-> f.date]
    OBVIOUS
  <2>6. /\ v.reporter = name /\ v.roles = roles /\ v.accession = f.accession /\ v.filed = f.date
        /\ DOMAIN v = {"reporter", "roles", "accession", "filed"}
    BY <2>5
  <2>7. PICK r : r = Spread(u, v)
    OBVIOUS
  <2>8. Row(t) = r
    BY <2>2, <2>3, <2>5, <2>7
  <2>9. r = [x \in DOMAIN u \cup DOMAIN v |-> IF x \in DOMAIN u THEN u[x] ELSE v[x]]
    BY <2>7 DEF Spread
  <2>10. DOMAIN r = {"date", "code", "side", "shares", "derivative",
                     "reporter", "roles", "accession", "filed"}
    BY <2>4, <2>6, <2>9
  <2>11. /\ r.date = u.date /\ r.code = u.code /\ r.side = u.side /\ r.shares = u.shares
         /\ r.derivative = u.derivative
    BY <2>4, <2>9
  <2>12. r.reporter = name /\ r.roles = roles /\ r.accession = f.accession /\ r.filed = f.date
    BY <2>4, <2>6, <2>9
  <2>13. t.code \in STRING \cup {NoValue} /\ t.side \in {"A", "D", NoValue}
         /\ t.shares \in Int \cup {NoValue} /\ t.derivative \in BOOLEAN
    BY DEF Transactions
  <2>14. r \in ActivityRows
    BY <1>1, <2>2, <2>4, <2>9, <2>10, <2>11, <2>12, <2>13 DEF ActivityRows
  <2> QED
    BY <2>8, <2>12, <2>14
<1> HIDE DEF Row, list
<1>7. CASE reporter = NoValue
  BY <1>4, <1>7
<1>8. CASE reporter # NoValue
  <2>1. ParseReport(f) = [i \in DOMAIN list |-> Row(list[i])]
    BY <1>4, <1>8 DEF Mapped
  <2>2. PICK n \in Nat : n = Len(list)
    BY <1>5
  <2>3. DOMAIN list = 1 .. n /\ \A i \in 1 .. n : list[i] \in Transactions
    BY <1>5, <2>2
  <2>4. \A i \in 1 .. n : Row(list[i]) \in ActivityRows /\ Row(list[i]).accession = f.accession
    BY <1>6, <1>8, <2>3
  <2>5. ParseReport(f) \in [1 .. n -> ActivityRows]
    BY <2>1, <2>3, <2>4
  <2> QED
    BY <2>1, <2>3, <2>4, <2>5
<1> QED
  BY <1>7, <1>8

LEMMA SourcesListed ==
  ASSUME SubmissionsTyped
  PROVE  InsiderSources \in Seq(OwnershipForms)
<1> DEFINE E == {i \in DOMAIN submissions : submissions[i].form \in INSIDER_FORMS}
           s == AtPositions(submissions, E)
           B == {p \in (DOMAIN s) \X (DOMAIN s) : s[p[1]].date > s[p[2]].date}
<1>1. submissions \in Seq(Forms)
  BY DEF SubmissionsTyped
<1>2. s \in Seq(OwnershipForms)
  <2>1. s \in Seq({submissions[i] : i \in E})
    BY <1>1, SelectedList
  <2>2. {submissions[i] : i \in E} \subseteq OwnershipForms
    BY <1>1 DEF OwnershipForms
  <2> HIDE DEF s, E
  <2> QED
    BY <2>1, <2>2
<1>3. InsiderSources = Cut(Sorted(s, B), MaxForms)
  BY DEF InsiderSources, StableSort, Where
<1> HIDE DEF s
<1>4. \A i \in DOMAIN s : s[i].date \in Int
  BY <1>2 DEF OwnershipForms, Forms, Filings
<1>5. WeakOn(DOMAIN s, B)
  <2>1. \A i, j \in DOMAIN s : <<i, j>> \in B <=> s[i].date > s[j].date
    OBVIOUS
  <2> HIDE DEF B
  <2>2. \A i \in DOMAIN s : <<i, i>> \notin B
    BY <1>4, <2>1
  <2>3. ASSUME NEW i \in DOMAIN s, NEW j \in DOMAIN s, NEW k \in DOMAIN s
        PROVE  /\ <<i, j>> \in B /\ <<j, k>> \in B => <<i, k>> \in B
               /\ <<i, k>> \in B => <<i, j>> \in B \/ <<j, k>> \in B
    <3>1. s[i].date \in Int /\ s[j].date \in Int /\ s[k].date \in Int
      BY <1>4
    <3> QED
      BY <2>1, <3>1
  <2> QED
    BY <2>2, <2>3 DEF WeakOn
<1> HIDE DEF B
<1>6. Sorted(s, B) \in Seq(OwnershipForms)
  BY <1>2, <1>5, SortedIs
<1>7. MaxForms \in Nat
  BY GovernanceAssumption
<1> QED
  BY <1>3, <1>6, <1>7, CutIs

\* The rows of the forms that could be read.
Parsed == Mapped(InsiderSources, ParseReport)
Readable(failing) == {i \in DOMAIN InsiderSources :
                        InsiderSources[i].body.xml /\ InsiderSources[i].accession \notin failing}

LEMMA ReportsParsed ==
  ASSUME SubmissionsTyped
  PROVE  /\ Parsed \in Seq(Seq(ActivityRows)) /\ DOMAIN Parsed = DOMAIN InsiderSources
         /\ \A p \in Spots(Parsed) : At(Parsed, p).accession = InsiderSources[p[1]].accession
         /\ \A failing : ParsedReports(failing) = Flat(AtPositions(Parsed, Readable(failing)))
<1> DEFINE s == InsiderSources
<1>1. s \in Seq(OwnershipForms)
  BY SourcesListed
<1>2. Parsed = [i \in DOMAIN s |-> ParseReport(s[i])]
  BY DEF Parsed, Mapped
<1> HIDE DEF s
<1>3. PICK n \in Nat : n = Len(s)
  BY <1>1
<1>4. DOMAIN s = 1 .. n /\ \A i \in 1 .. n : s[i] \in OwnershipForms
  BY <1>1, <1>3
<1>5. \A i \in 1 .. n : /\ ParseReport(s[i]) \in Seq(ActivityRows)
                        /\ \A j \in DOMAIN ParseReport(s[i]) :
                             ParseReport(s[i])[j].accession = s[i].accession
  BY <1>4, ReportParsed
<1>6. Parsed \in Seq(Seq(ActivityRows)) /\ DOMAIN Parsed = 1 .. n
  <2>1. Parsed \in [1 .. n -> Seq(ActivityRows)]
    BY <1>2, <1>4, <1>5
  <2> QED
    BY <2>1
<1>7. ASSUME NEW p \in Spots(Parsed) PROVE At(Parsed, p).accession = s[p[1]].accession
  <2>1. p[1] \in 1 .. n /\ p[2] \in DOMAIN Parsed[p[1]]
    BY <1>6, SpotIs
  <2>2. Parsed[p[1]] = ParseReport(s[p[1]])
    BY <1>2, <1>4, <2>1
  <2> QED
    BY <1>5, <2>1, <2>2 DEF At
<1>8. ASSUME NEW failing
      PROVE  ParsedReports(failing) = Flat(AtPositions(Parsed, Readable(failing)))
  <2> DEFINE E == Readable(failing)
             t == AtPositions(s, E)
  <2>1. E \in SUBSET DOMAIN s /\ E = {i \in DOMAIN s : s[i].body.xml /\ s[i].accession \notin failing}
    BY DEF Readable, s
  <2>2. ParsedReports(failing) = Flat(Mapped(t, ParseReport))
    BY <2>1 DEF ParsedReports, Where, s
  <2> HIDE DEF E
  <2>3. /\ DOMAIN t = 1 .. Cardinality(E)
        /\ \A k \in 1 .. Cardinality(E) : Nth(E, k) \in E /\ t[k] = s[Nth(E, k)]
    <3>1. E \in SUBSET DOMAIN s
      BY <2>1
    <3> QED
      BY <1>1, <3>1, SelectedList
  <2> HIDE DEF t
  <2>4. Mapped(t, ParseReport) = [k \in 1 .. Cardinality(E) |-> ParseReport(t[k])]
    BY <2>3 DEF Mapped
  <2>5. AtPositions(Parsed, E) = [k \in 1 .. Cardinality(E) |-> Parsed[Nth(E, k)]]
    BY DEF AtPositions
  <2>6. \A k \in 1 .. Cardinality(E) : Parsed[Nth(E, k)] = ParseReport(t[k])
    BY <1>2, <2>1, <2>3
  <2>7. Mapped(t, ParseReport) = AtPositions(Parsed, E)
    BY <2>4, <2>5, <2>6
  <2> QED
    BY <2>2, <2>7 DEF E
<1> QED
  BY <1>4, <1>6, <1>7, <1>8 DEF s

ByNewer(s) == {p \in (DOMAIN s) \X (DOMAIN s) : Newer(s[p[1]], s[p[2]])}

LEMMA NewerWeak ==
  ASSUME NEW s \in Seq(ActivityRows)
  PROVE  WeakOn(DOMAIN s, ByNewer(s))
<1> DEFINE B == ByNewer(s)
<1>1. \A i, j \in DOMAIN s : <<i, j>> \in B <=> Newer(s[i], s[j])
  BY DEF ByNewer
<1>2. ASSUME NEW i \in DOMAIN s
      PROVE  s[i].date \in Int /\ s[i].filed \in Int /\ s[i].accession \in Int
  <2>1. s[i] \in ActivityRows
    OBVIOUS
  <2> QED
    BY <2>1 DEF ActivityRows
<1> HIDE DEF B
<1>3. ASSUME NEW i \in DOMAIN s PROVE <<i, i>> \notin B
  BY <1>1, <1>2 DEF Newer
<1>4. ASSUME NEW i \in DOMAIN s, NEW j \in DOMAIN s, NEW k \in DOMAIN s
      PROVE  /\ <<i, j>> \in B /\ <<j, k>> \in B => <<i, k>> \in B
             /\ <<i, k>> \in B => <<i, j>> \in B \/ <<j, k>> \in B
  <2>1. PICK d1 \in Int, f1 \in Int, a1 \in Int, d2 \in Int, f2 \in Int, a2 \in Int,
             d3 \in Int, f3 \in Int, a3 \in Int :
          /\ s[i].date = d1 /\ s[i].filed = f1 /\ s[i].accession = a1
          /\ s[j].date = d2 /\ s[j].filed = f2 /\ s[j].accession = a2
          /\ s[k].date = d3 /\ s[k].filed = f3 /\ s[k].accession = a3
    BY <1>2
  <2>2. Newer(s[i], s[j]) <=> d1 > d2 \/ (d1 = d2 /\ f1 > f2) \/ (d1 = d2 /\ f1 = f2 /\ a1 > a2)
    BY <2>1 DEF Newer
  <2>3. Newer(s[j], s[k]) <=> d2 > d3 \/ (d2 = d3 /\ f2 > f3) \/ (d2 = d3 /\ f2 = f3 /\ a2 > a3)
    BY <2>1 DEF Newer
  <2>4. Newer(s[i], s[k]) <=> d1 > d3 \/ (d1 = d3 /\ f1 > f3) \/ (d1 = d3 /\ f1 = f3 /\ a1 > a3)
    BY <2>1 DEF Newer
  <2>5. /\ Newer(s[i], s[j]) /\ Newer(s[j], s[k]) => Newer(s[i], s[k])
        /\ Newer(s[i], s[k]) => Newer(s[i], s[j]) \/ Newer(s[j], s[k])
    BY <2>2, <2>3, <2>4
  <2> QED
    BY <1>1, <2>5
<1> QED
  BY <1>3, <1>4 DEF WeakOn, B

LEMMA RowsListed ==
  ASSUME SubmissionsTyped, NEW failing
  PROVE  /\ ParsedReports(failing) \in Seq(ActivityRows)
         /\ \A T : Cardinality(Found(ParsedReports(failing), T))
                     = Cardinality(Held(Parsed, Readable(failing), T))
<1> DEFINE E == Readable(failing)
<1>1. Parsed \in Seq(Seq(ActivityRows)) /\ ParsedReports(failing) = Flat(AtPositions(Parsed, E))
  BY ReportsParsed
<1>2. E \in SUBSET DOMAIN Parsed
  BY ReportsParsed DEF Readable
<1> HIDE DEF E
<1>3. AtPositions(Parsed, E) \in Seq(Seq(ActivityRows))
  BY <1>1, <1>2, SelectedList
<1>4. ASSUME NEW T
      PROVE  Cardinality(Found(ParsedReports(failing), T)) = Cardinality(Held(Parsed, E, T))
  BY <1>1, <1>2, PartCount
<1>5. ParsedReports(failing) \in Seq(ActivityRows)
  BY <1>1, <1>3, FlatIs
<1> QED
  BY <1>4, <1>5 DEF E


OfRole(P, role) == {i \in DOMAIN P : RolesMatch(P[i].roles, role)}

Classified(rows) ==
  [i \in DOMAIN rows |-> Spread(rows[i], [class |-> ClassifyTransaction(rows[i])])]

ShownRows(role, failing) == InsidersPage(role, TRUE, failing).rows
SentRows(role, failing)  == GetInsiders(TRUE, role, TRUE, failing).rows

\* The page and the API answer with the role's rows, sorted and cut.
LEMMA AnswersAre ==
  ASSUME NEW asked, NEW failing, NEW role, role = NormalizeRole(asked),
         NEW P, P = ParsedReports(failing),
         NEW t, t = AtPositions(P, OfRole(P, role)),
         NEW page, page = ShownRows(asked, failing),
         NEW api, api = SentRows(asked, failing)
  PROVE  /\ page = Cut(Sorted(t, ByNewer(t)), MaxActivityRows)
         /\ api = Classified(page)
<1>1. FilterRows(P, role) = t
  BY DEF FilterRows, Where, OfRole
<1>2. Insiders(role, failing).rows = Cut(Sorted(t, ByNewer(t)), MaxActivityRows)
  BY <1>1 DEF Insiders, StableSort, ByNewer
<1>3. page = Insiders(role, failing).rows
  BY DEF ShownRows, InsidersPage, Spread, Insiders
<1>4. api = Classified(page)
  BY <1>3 DEF SentRows, GetInsiders, Mapped, Classified
<1> QED
  BY <1>2, <1>3, <1>4

\* What the API adds to a row leaves the rest of it.
LEMMA ApiRows ==
  ASSUME NEW page \in Seq(ActivityRows), NEW api, api = Classified(page)
  PROVE  /\ Len(api) = Len(page)
         /\ \A i \in DOMAIN page : api[i].accession = page[i].accession /\ api[i].roles = page[i].roles
<1>1. \A i \in DOMAIN page : page[i] \in ActivityRows
  BY ListHas
<1>2. ASSUME NEW i \in DOMAIN page
      PROVE  api[i].accession = page[i].accession /\ api[i].roles = page[i].roles
  <2>1. PICK row \in ActivityRows : row = page[i]
    BY <1>1
  <2>2. PICK more : more = [class |-> ClassifyTransaction(row)]
    OBVIOUS
  <2>3. api[i] = Spread(row, more)
    BY <2>1, <2>2 DEF Classified
  <2>4. "accession" \in DOMAIN row /\ "roles" \in DOMAIN row
    BY <2>1 DEF ActivityRows
  <2> QED
    BY <2>1, <2>3, <2>4 DEF Spread
<1>3. PICK n \in Nat : n = Len(page) /\ DOMAIN page = 1 .. n
  BY ListHas
<1>4. Len(api) = n
  <2>1. api \in Seq({api[i] : i \in 1 .. n}) /\ DOMAIN api = 1 .. n
    BY <1>3 DEF Classified
  <2> QED
    BY <1>3, <2>1, SameDomain
<1> QED
  BY <1>2, <1>3, <1>4

Still(T, failing) == {row \in T : row.accession \notin failing}

\* The rows of the forms read are those of all forms but for the failed ones.
LEMMA RowsStillRead ==
  ASSUME SubmissionsTyped, NEW failing, NEW T
  PROVE  Cardinality(Found(ParsedReports(failing), T))
           = Cardinality(Found(ParsedReports({}), Still(T, failing)))
<1>1. /\ Cardinality(Found(ParsedReports(failing), T)) = Cardinality(Held(Parsed, Readable(failing), T))
      /\ Cardinality(Found(ParsedReports({}), Still(T, failing)))
           = Cardinality(Held(Parsed, Readable({}), Still(T, failing)))
  BY RowsListed
<1>2. ASSUME NEW p \in Spots(Parsed)
      PROVE  p[1] \in Readable(failing) /\ At(Parsed, p) \in T
               <=> p[1] \in Readable({}) /\ At(Parsed, p) \in Still(T, failing)
  <2>1. At(Parsed, p).accession = InsiderSources[p[1]].accession
    BY ReportsParsed
  <2> QED
    BY <2>1 DEF Readable, Still
<1>3. Held(Parsed, Readable(failing), T) = Held(Parsed, Readable({}), Still(T, failing))
  BY <1>2 DEF Held
<1> QED
  BY <1>1, <1>3

Plays(row, role) == role \notin Roles \/ role \in row.roles

Players(list, role)       == {i \in DOMAIN list : Plays(list[i], role)}
Left(list, role, failing) == {i \in DOMAIN list : Plays(list[i], role) /\ list[i].accession \notin failing}

LEMMA RoleAnswered ==
  ASSUME SubmissionsTyped, NEW asked, NEW failing,
         NEW page, page = ShownRows(asked, failing),
         NEW api, api = SentRows(asked, failing),
         NEW all, all = ShownRows("all", failing)
  PROVE  /\ IsPrefix(AtPositions(all, Players(all, asked)), page)
         /\ \A i \in DOMAIN page : page[i].accession = api[i].accession /\ Plays(api[i], asked)
         /\ Len(page) = Len(api)
         /\ Len(page) < MaxActivityRows =>
              Len(page) = Len(AtPositions(ParsedReports({}), Left(ParsedReports({}), asked, failing)))
<1>1. PICK M \in Nat : M = MaxActivityRows
  BY GovernanceAssumption
<1>2. PICK role, none : role = NormalizeRole(asked) /\ none = NormalizeRole("all")
  OBVIOUS
<1>3. PICK P : P = ParsedReports(failing)
  OBVIOUS
<1>4. PICK T : T = {row \in ActivityRows : Plays(row, asked)}
  OBVIOUS
<1>5. PICK E, t, B, C : /\ E = OfRole(P, role) /\ t = AtPositions(P, E)
                        /\ B = ByNewer(P) /\ C = ByNewer(t)
  OBVIOUS
<1>6. P \in Seq(ActivityRows)
  BY <1>3, RowsListed
<1>7. WeakOn(DOMAIN P, B)
  BY <1>5, <1>6, NewerWeak
<1>8. E \in SUBSET DOMAIN P
  BY <1>5 DEF OfRole
<1>9. \A i \in DOMAIN P : i \in E <=> P[i] \in T
  <2>1. \A row : RolesMatch(row.roles, role) <=> Plays(row, asked)
    BY <1>2, GovernanceAssumption DEF RolesMatch, NormalizeRole, Plays
  <2>2. \A i \in DOMAIN P : P[i] \in ActivityRows
    BY <1>6, ListHas
  <2> QED
    BY <1>4, <1>5, <2>1, <2>2 DEF OfRole
<1>10. /\ t \in Seq(ActivityRows) /\ DOMAIN t = 1 .. Cardinality(E)
       /\ \A k \in 1 .. Cardinality(E) : Nth(E, k) \in E /\ t[k] = P[Nth(E, k)]
  BY <1>5, <1>6, <1>8, SelectedList
<1>11. WeakOn(DOMAIN t, C)
  BY <1>5, <1>10, NewerWeak
<1>12. ASSUME NEW j \in 1 .. Cardinality(E), NEW k \in 1 .. Cardinality(E)
       PROVE  <<j, k>> \in C <=> <<Nth(E, j), Nth(E, k)>> \in B
  <2>1. <<j, k>> \in C <=> Newer(t[j], t[k])
    BY <1>5, <1>10 DEF ByNewer
  <2>2. Nth(E, j) \in DOMAIN P /\ Nth(E, k) \in DOMAIN P
    BY <1>8, <1>10
  <2>3. <<Nth(E, j), Nth(E, k)>> \in B <=> Newer(P[Nth(E, j)], P[Nth(E, k)])
    BY <1>5, <2>2 DEF ByNewer
  <2> QED
    BY <1>10, <2>1, <2>3
<1>13. page = Cut(Sorted(t, C), M) /\ api = Classified(page)
  BY <1>1, <1>2, <1>3, <1>5, AnswersAre
<1>14. all = Cut(Sorted(P, B), M)
  <2>1. none = "all"
    BY <1>2 DEF NormalizeRole
  <2>2. OfRole(P, none) = DOMAIN P
    BY <2>1 DEF OfRole, RolesMatch
  <2>3. AtPositions(P, OfRole(P, none)) = P
    BY <1>6, <2>2, AllSelected
  <2>4. all = Cut(Sorted(P, ByNewer(P)), MaxActivityRows)
    BY <1>2, <1>3, <2>3, AnswersAre
  <2> QED
    BY <1>1, <1>5, <2>4
<1>15. /\ IsPrefix(AtPositions(all, Found(all, T)), page)
       /\ all \in Seq(ActivityRows) /\ page \in Seq(ActivityRows) /\ \A i \in DOMAIN page : page[i] \in T
       /\ Len(page) = IF M < Cardinality(E) THEN M ELSE Cardinality(E)
  <2>1. WeakOn(DOMAIN AtPositions(P, E), C) /\ page = Cut(Sorted(AtPositions(P, E), C), M)
    BY <1>5, <1>11, <1>13
  <2> QED
    BY <1>6, <1>7, <1>8, <1>9, <1>12, <1>14, <2>1, SelectBeforeCut
<1>16. Found(all, T) = Players(all, asked)
  BY <1>4, <1>15, ListHas DEF Found, Players
<1>17. /\ Len(page) = Len(api)
       /\ \A i \in DOMAIN page : page[i].accession = api[i].accession /\ Plays(api[i], asked)
  <2>1. /\ Len(api) = Len(page)
        /\ \A i \in DOMAIN page : api[i].accession = page[i].accession /\ api[i].roles = page[i].roles
    BY <1>13, <1>15, ApiRows
  <2>2. \A i \in DOMAIN page : Plays(page[i], asked)
    BY <1>4, <1>15
  <2> QED
    BY <2>1, <2>2 DEF Plays
<1>18. PICK whole, those : whole = ParsedReports({}) /\ those = Left(whole, asked, failing)
  OBVIOUS
<1>19. Len(AtPositions(whole, those)) = Cardinality(E)
  <2>1. whole \in Seq(ActivityRows) /\ those \in SUBSET DOMAIN whole
    BY <1>18, RowsListed DEF Left
  <2>2. E = Found(P, T)
    BY <1>8, <1>9 DEF Found
  <2>3. those = Found(whole, Still(T, failing))
    <3>1. \A i \in DOMAIN whole : whole[i] \in ActivityRows
      BY <2>1, ListHas
    <3> QED
      BY <1>4, <1>18, <3>1 DEF Found, Still, Left
  <2>4. Cardinality(E) = Cardinality(those)
    BY <1>3, <1>18, <2>2, <2>3, RowsStillRead
  <2>5. Len(AtPositions(whole, those)) = Cardinality(those)
    BY <2>1, SelectedList
  <2> QED
    BY <2>4, <2>5
<1>20. Len(page) < M => Len(page) = Cardinality(E)
  <2>1. PICK n \in Nat : n = Len(P) /\ DOMAIN P = 1 .. n
    BY <1>6, ListHas
  <2>2. PICK e \in Nat : e = Cardinality(E)
    <3>1. E \in SUBSET (1 .. n)
      BY <1>8, <2>1
    <3>2. Cardinality(E) \in 0 .. n
      BY <3>1, RankGrows
    <3> QED
      BY <3>2
  <2>3. Len(page) = IF M < e THEN M ELSE e
    BY <1>15, <2>2
  <2> QED
    BY <2>2, <2>3
<1> QED
  BY <1>1, <1>15, <1>16, <1>17, <1>18, <1>19, <1>20

\* Whatever an issuer files and whatever fails to be read, the answer for a role
\* tells what the unfiltered one does: getCompanyInsiders selects the role's rows
\* before it cuts, and sorting does not change which row comes before which.
THEOREM RolesAnsweredAlike == GovernanceSpec => []RoleAnswersConsistent
<1>1. ASSUME SubmissionsTyped, NEW role, NEW failing
      PROVE
        LET page == InsidersPage(role, TRUE, failing).rows
            api  == GetInsiders(TRUE, role, TRUE, failing).rows
            all  == InsidersPage("all", TRUE, failing).rows
            Of(row) == role \notin Roles \/ role \in row.roles
        IN  /\ IsPrefix(Where(all, Of), page)
            /\ \A i \in DOMAIN page : page[i].accession = api[i].accession /\ Of(api[i])
            /\ Len(page) = Len(api)
            /\ Len(page) < MaxActivityRows =>
                 Len(page) = Len(Where(ParsedReports({}),
                                       LAMBDA row : Of(row) /\ row.accession \notin failing))
  <2>1. PICK page, api, all, whole :
          /\ page = ShownRows(role, failing) /\ api = SentRows(role, failing)
          /\ all = ShownRows("all", failing) /\ whole = ParsedReports({})
    OBVIOUS
  <2> DEFINE Of(row) == role \notin Roles \/ role \in row.roles
             those == {i \in DOMAIN whole : Of(whole[i]) /\ whole[i].accession \notin failing}
  <2>2. /\ IsPrefix(AtPositions(all, {i \in DOMAIN all : Of(all[i])}), page)
        /\ \A i \in DOMAIN page : page[i].accession = api[i].accession /\ Of(api[i])
        /\ Len(page) = Len(api)
        /\ Len(page) < MaxActivityRows => Len(page) = Len(AtPositions(whole, those))
    <3>1. /\ IsPrefix(AtPositions(all, Players(all, role)), page)
          /\ \A i \in DOMAIN page : page[i].accession = api[i].accession /\ Plays(api[i], role)
          /\ Len(page) = Len(api)
          /\ Len(page) < MaxActivityRows => Len(page) = Len(AtPositions(whole, Left(whole, role, failing)))
      BY <1>1, <2>1, RoleAnswered
    <3> QED
      BY <3>1 DEF Players, Left, Plays
  <2>3. Where(all, Of) = AtPositions(all, {i \in DOMAIN all : Of(all[i])})
    BY DEF Where
  <2>4. Where(whole, LAMBDA row : Of(row) /\ row.accession \notin failing) = AtPositions(whole, those)
    BY DEF Where
  <2> QED
    BY <2>1, <2>2, <2>3, <2>4 DEF ShownRows, SentRows
<1>2. SubmissionsTyped => RoleAnswersConsistent
  BY <1>1 DEF RoleAnswersConsistent
<1> QED
  BY <1>2, SubmissionsTypedHolds, PTL

------------------------------------------------------------------------------
(* What operators are told. *)

\* The first place of each key.
FirstsOf(keys, n) == {i \in 1 .. n : \A j \in 1 .. i - 1 : keys[j] # keys[i]}

LEMMA FirstsAre ==
  ASSUME NEW n \in Nat, NEW keys
  PROVE  /\ FirstsOf(keys, n) \in SUBSET (1 .. n)
         /\ \A i, j \in FirstsOf(keys, n) : keys[i] = keys[j] => i = j
         /\ \A i \in 1 .. n : \E j \in FirstsOf(keys, n) : keys[j] = keys[i]
<1> DEFINE F == FirstsOf(keys, n)
<1>1. F \in SUBSET (1 .. n)
  BY DEF FirstsOf
<1>2. ASSUME NEW i \in F, NEW j \in F, keys[i] = keys[j] PROVE i = j
  <2>1. i \in 1 .. n /\ j \in 1 .. n /\ j \notin 1 .. i - 1 /\ i \notin 1 .. j - 1
    BY <1>2 DEF FirstsOf
  <2> QED
    BY <2>1
<1>3. ASSUME NEW i \in 1 .. n PROVE \E j \in F : keys[j] = keys[i]
  <2>1. PICK S : S = {j \in 1 .. n : keys[j] = keys[i]}
    OBVIOUS
  <2>2. S \in SUBSET Nat /\ S # {}
    BY <2>1
  <2>3. PICK j \in S : \A m \in S : j <= m
    BY <2>2, LeastNumber
  <2>4. j \in 1 .. n /\ keys[j] = keys[i]
    BY <2>1
  <2>5. \A m \in 1 .. j - 1 : keys[m] # keys[j]
    <3> SUFFICES ASSUME NEW m \in 1 .. j - 1, keys[m] = keys[j] PROVE FALSE
      OBVIOUS
    <3>1. m \in 1 .. n /\ m < j
      BY <2>4
    <3>2. m \in S
      BY <2>1, <2>4, <3>1
    <3> QED
      BY <2>3, <2>4, <3>1, <3>2
  <2> QED
    BY <2>4, <2>5 DEF FirstsOf
<1> QED
  BY <1>1, <1>2, <1>3

\* The places of a key, and of the first k of some keys.
PlacesOf(keys, n, key)      == {i \in 1 .. n : keys[i] = key}
PlacesUpTo(keys, n, all, k) == {i \in 1 .. n : \E j \in 1 .. k : keys[i] = all[j]}

\* Counted key by key, every place is counted once.
CountedByKey(counts, keys, n, all, m) ==
  /\ \A j, k \in 1 .. m : all[j] = all[k] => j = k
  /\ \A i \in 1 .. n : \E k \in 1 .. m : keys[i] = all[k]
  /\ counts \in Seq(Int) /\ Len(counts) = m
  /\ \A k \in 1 .. m : counts[k] = Cardinality(PlacesOf(keys, n, all[k]))

LEMMA CountsAddUp ==
  ASSUME NEW n \in Nat, NEW keys, NEW m \in Nat, NEW all, NEW counts,
         CountedByKey(counts, keys, n, all, m)
  PROVE  SumOf(counts) = n
<1>0. /\ \A j, k \in 1 .. m : all[j] = all[k] => j = k
      /\ \A i \in 1 .. n : \E k \in 1 .. m : keys[i] = all[k]
      /\ counts \in Seq(Int) /\ Len(counts) = m
      /\ \A k \in 1 .. m : counts[k] = Cardinality(PlacesOf(keys, n, all[k]))
  BY DEF CountedByKey
<1>1. PICK sum \in [0 .. m -> Int] :
        /\ SumOf(counts) = sum[m]
        /\ sum[0] = 0 /\ \A k \in 1 .. m : sum[k] = sum[k - 1] + counts[k]
  BY <1>0, SumIs
<1> DEFINE Up(k) == PlacesUpTo(keys, n, all, k)
           S == {k \in 0 .. m : sum[k] = Cardinality(Up(k))}
<1>2. IsFiniteSet(1 .. n) /\ Cardinality(1 .. n) = n
  BY CountedTo
<1>3. 0 \in S
  <2>1. Up(0) = {}
    BY DEF PlacesUpTo
  <2>2. Cardinality(Up(0)) = 0
    BY <2>1, FS_EmptySet
  <2> QED
    BY <1>1, <2>2
<1>4. ASSUME NEW k \in 1 .. m, k - 1 \in S PROVE k \in S
  <2>1. PICK before, those : before = Up(k - 1) /\ those = PlacesOf(keys, n, all[k])
    OBVIOUS
  <2>2. before \in SUBSET (1 .. n) /\ those \in SUBSET (1 .. n)
    BY <2>1 DEF PlacesUpTo, PlacesOf
  <2>3. before \cap those = {}
    <3> SUFFICES ASSUME NEW i \in before, i \in those PROVE FALSE
      OBVIOUS
    <3>1. keys[i] = all[k]
      BY <2>1 DEF PlacesOf
    <3>2. PICK j \in 1 .. k - 1 : keys[i] = all[j]
      BY <2>1 DEF PlacesUpTo
    <3>3. j \in 1 .. m /\ j # k /\ k \in 1 .. m
      BY <1>4
    <3> QED
      BY <1>0, <3>1, <3>2, <3>3
  <2>4. Up(k) = before \cup those
    <3>1. \A j : j \in 1 .. k <=> j \in 1 .. k - 1 \/ j = k
      BY <1>4
    <3> QED
      BY <2>1, <3>1 DEF PlacesUpTo, PlacesOf
  <2>5. IsFiniteSet(before) /\ IsFiniteSet(those)
    BY <1>2, <2>2, FS_Subset
  <2>6. Cardinality(before \cup those) = Cardinality(before) + Cardinality(those)
    <3>1. Cardinality(before \cup those) =
            Cardinality(before) + Cardinality(those) - Cardinality(before \cap those)
      BY <2>5, FS_Union
    <3>2. Cardinality(before \cap those) = 0
      BY <2>3, FS_EmptySet
    <3>3. Cardinality(before) \in Nat /\ Cardinality(those) \in Nat
      BY <2>5, FS_CardinalityType
    <3> QED
      BY <3>1, <3>2, <3>3
  <2>7. sum[k - 1] = Cardinality(before) /\ counts[k] = Cardinality(those)
    BY <1>0, <1>4, <2>1
  <2>8. sum[k] = Cardinality(Up(k))
    BY <1>1, <1>4, <2>4, <2>6, <2>7
  <2> HIDE DEF Up
  <2> QED
    BY <1>4, <2>8
<1> HIDE DEF S
<1>5. 0 .. m \subseteq S
  BY <1>3, <1>4, UpTo
<1>6. m \in S
  BY <1>5
<1>7. Up(m) = 1 .. n
  BY <1>0 DEF PlacesUpTo
<1> HIDE DEF Up
<1> QED
  BY <1>1, <1>2, <1>6, <1>7 DEF S

LedgerRows == [jobId : JobIds, status : Statuses, parserVersion : ParserVersions, fetchTimestamp : Times]
States     == {"failed", "running", "queued", "completed"}
Parsers    == {"proxy", "xbrl", "sec"}
AdminJobs  == [id : JobIds, state : States, parser : Parsers, startedAt : Int,
               finishedAt : Int \cup {NoValue}]

Computed == {ComputeSnapshot(now) : now \in Clock}

OperationsInv ==
  /\ ledger \in Seq(LedgerRows) /\ qa \in QaSamples
  /\ snapshot \in Computed \cup {NoValue}

LEMMA OperationsInvHolds == OperationsSpec => []OperationsInv
<1>1. OperationsInit => OperationsInv
  BY DEF OperationsInit, OperationsInv
<1>2. ASSUME OperationsInv, OperationsNext PROVE OperationsInv'
  <2>1. ASSUME NEW job \in JobIds, NEW status \in Statuses, NEW version \in ParserVersions,
               NEW time \in Times, NEW row,
               row = [jobId |-> job, status |-> status, parserVersion |-> version, fetchTimestamp |-> time],
               WriteLedger(row)
        PROVE  OperationsInv'
    <3>1. row \in LedgerRows
      BY <2>1 DEF LedgerRows
    <3>2. ledger' = Append(ledger, row) /\ qa' = qa /\ snapshot' = snapshot
      BY <2>1 DEF WriteLedger
    <3>3. ledger' \in Seq(LedgerRows)
      BY <1>2, <3>1, <3>2 DEF OperationsInv
    <3> QED
      BY <1>2, <3>2, <3>3 DEF OperationsInv
  <2>2. ASSUME NEW now \in Clock, GetStatusSnapshot(now) PROVE OperationsInv'
    <3>1. snapshot' = ComputeSnapshot(now) /\ ledger' = ledger /\ qa' = qa
      BY <2>2 DEF GetStatusSnapshot
    <3>2. snapshot' \in Computed
      BY <2>2, <3>1 DEF Computed
    <3> QED
      BY <1>2, <3>1, <3>2 DEF OperationsInv
  <2> QED
    BY <1>2, <2>1, <2>2 DEF OperationsNext
<1>3. OperationsInv /\ UNCHANGED operationsVars => OperationsInv'
  BY DEF OperationsInv, operationsVars
<1> QED
  BY <1>1, <1>2, <1>3, PTL DEF OperationsSpec

FailedRow(row) == MapJobState(row.status) = "failed"

\* What a job tells of the first n of its rows.
Tells(job, rows, n) ==
  /\ job.id = rows[1].jobId
  /\ \A i \in 1 .. n : job.startedAt <= rows[i].fetchTimestamp
  /\ job.state = "failed" <=> \E i \in 1 .. n : FailedRow(rows[i])
  /\ job.state # "failed" => job.state = MapJobState(rows[n].status)
  /\ job.finishedAt = NoValue <=> job.state \in Unfinished
  /\ job.finishedAt # NoValue => job.startedAt <= job.finishedAt

LEMMA RowIs ==
  ASSUME NEW row \in LedgerRows
  PROVE  /\ row.jobId \in JobIds /\ row.fetchTimestamp \in Int /\ row.fetchTimestamp # NoValue
         /\ MapJobState(row.status) \in States /\ MapParser(row.parserVersion) \in Parsers
BY OperationsAssumption DEF LedgerRows, MapJobState, MapParser, States, Parsers

LEMMA FirstTells ==
  ASSUME NEW rows \in Seq(LedgerRows), rows # << >>
  PROVE  FirstSeen(rows[1]) \in AdminJobs /\ Tells(FirstSeen(rows[1]), rows, 1)
<1>1. PICK row \in LedgerRows : row = rows[1]
  OBVIOUS
<1>2. PICK state \in States : state = MapJobState(row.status)
  BY RowIs
<1>3. PICK job : job = FirstSeen(row)
  OBVIOUS
<1>4. job = [id |-> row.jobId, state |-> state, parser |-> MapParser(row.parserVersion),
             startedAt |-> row.fetchTimestamp,
             finishedAt |-> IF state \in Unfinished THEN NoValue ELSE row.fetchTimestamp]
  BY <1>2, <1>3 DEF FirstSeen
<1>5. job \in AdminJobs
  BY <1>4, RowIs DEF AdminJobs
<1>6. Tells(job, rows, 1)
  <2>1. /\ job.id = row.jobId /\ job.state = state /\ job.startedAt = row.fetchTimestamp
        /\ job.finishedAt = IF state \in Unfinished THEN NoValue ELSE row.fetchTimestamp
    BY <1>4
  <2>2. \A i \in 1 .. 1 : i = 1
    OBVIOUS
  <2>3. row.fetchTimestamp \in Int /\ row.fetchTimestamp # NoValue
    BY RowIs
  <2>4. (\E i \in 1 .. 1 : FailedRow(rows[i])) <=> state = "failed"
    BY <1>1, <1>2, <2>2 DEF FailedRow
  <2> QED
    BY <1>1, <1>2, <2>1, <2>2, <2>3, <2>4 DEF Tells
<1> QED
  BY <1>1, <1>3, <1>5, <1>6

LEMMA FoldedTells ==
  ASSUME NEW rows \in Seq(LedgerRows), NEW n \in 2 .. Len(rows),
         NEW job \in AdminJobs, Tells(job, rows, n - 1)
  PROVE  Folded(job, rows[n]) \in AdminJobs /\ Tells(Folded(job, rows[n]), rows, n)
<1>1. PICK row \in LedgerRows : row = rows[n]
  OBVIOUS
<1>2. PICK state \in States : state = MapJobState(row.status)
  BY RowIs
<1>3. PICK time \in Int : time = row.fetchTimestamp /\ time # NoValue
  BY RowIs
<1>4. PICK new : new = Folded(job, row)
  OBVIOUS
<1>5. /\ job.startedAt \in Int /\ job.state \in States /\ job.id \in JobIds /\ job.parser \in Parsers
      /\ job.finishedAt \in Int \cup {NoValue} /\ NoValue \notin Int
  BY OperationsAssumption DEF AdminJobs
<1>6. PICK start \in Int : start = Earlier(job.startedAt, time) /\ start <= job.startedAt /\ start <= time
  BY <1>5 DEF Earlier
<1>7. new = IF state = "failed" THEN [[job EXCEPT !.startedAt = start] EXCEPT !.state = state, !.finishedAt = time]
            ELSE IF job.state = "failed" THEN [job EXCEPT !.startedAt = start]
            ELSE IF state \in Unfinished
              THEN [[job EXCEPT !.startedAt = start] EXCEPT !.state = state, !.finishedAt = NoValue]
            ELSE [[job EXCEPT !.startedAt = start]
                    EXCEPT !.state = state,
                           !.finishedAt = IF job.finishedAt = NoValue \/ time > job.finishedAt THEN time ELSE @]
  BY <1>2, <1>3, <1>4, <1>6 DEF Folded, AdminJobs
<1>8. /\ new \in AdminJobs /\ new.id = job.id /\ new.startedAt = start
      /\ state = "failed" => new.state = "failed" /\ new.finishedAt = time
      /\ state # "failed" /\ job.state = "failed" => new.state = "failed" /\ new.finishedAt = job.finishedAt
      /\ state # "failed" /\ job.state # "failed" => new.state = state
      /\ state \in Unfinished /\ job.state # "failed" => new.finishedAt = NoValue
      /\ state # "failed" /\ job.state # "failed" /\ state \notin Unfinished =>
           new.finishedAt \in Int /\ start <= new.finishedAt
  <2>1. "failed" \notin Unfinished
    BY DEF Unfinished
  <2>2. CASE state = "failed"
    BY <1>3, <1>5, <1>6, <1>7, <2>1, <2>2 DEF AdminJobs
  <2>3. CASE state # "failed" /\ job.state = "failed"
    BY <1>3, <1>5, <1>6, <1>7, <2>3 DEF AdminJobs
  <2>4. CASE state # "failed" /\ job.state # "failed" /\ state \in Unfinished
    BY <1>3, <1>5, <1>6, <1>7, <2>4 DEF AdminJobs
  <2>5. CASE state # "failed" /\ job.state # "failed" /\ state \notin Unfinished
    <3>1. PICK end : end = IF job.finishedAt = NoValue \/ time > job.finishedAt THEN time ELSE job.finishedAt
      OBVIOUS
    <3>2. end \in Int /\ start <= end
      BY <1>5, <1>6, <3>1
    <3>3. new = [job EXCEPT !.startedAt = start, !.state = state, !.finishedAt = end]
      BY <1>7, <2>5, <3>1 DEF AdminJobs
    <3> QED
      BY <1>3, <1>5, <2>5, <3>2, <3>3 DEF AdminJobs
  <2> QED
    BY <2>2, <2>3, <2>4, <2>5
<1>9. /\ job.id = rows[1].jobId
      /\ \A i \in 1 .. n - 1 : job.startedAt <= rows[i].fetchTimestamp
      /\ job.state = "failed" <=> \E i \in 1 .. n - 1 : FailedRow(rows[i])
      /\ job.finishedAt = NoValue <=> job.state \in Unfinished
      /\ job.finishedAt # NoValue => job.startedAt <= job.finishedAt
  BY DEF Tells
<1>10. \A i \in 1 .. n : i \in 1 .. n - 1 \/ i = n
  OBVIOUS
<1>11. \A i \in 1 .. n : new.startedAt <= rows[i].fetchTimestamp
  <2> SUFFICES ASSUME NEW i \in 1 .. n PROVE start <= rows[i].fetchTimestamp
    BY <1>8
  <2>1. rows[i].fetchTimestamp \in Int
    BY RowIs
  <2> QED
    BY <1>1, <1>3, <1>5, <1>6, <1>9, <1>10, <2>1
<1>12. FailedRow(rows[n]) <=> state = "failed"
  BY <1>1, <1>2 DEF FailedRow
<1>13. new.state = "failed" <=> \E i \in 1 .. n : FailedRow(rows[i])
  <2>1. (\E i \in 1 .. n : FailedRow(rows[i])) <=> (\E i \in 1 .. n - 1 : FailedRow(rows[i])) \/ FailedRow(rows[n])
    BY <1>10
  <2> QED
    BY <1>8, <1>9, <1>12, <2>1
<1>14. new.state # "failed" => new.state = MapJobState(rows[n].status)
  BY <1>1, <1>2, <1>8
<1>15. /\ new.finishedAt = NoValue <=> new.state \in Unfinished
       /\ new.finishedAt # NoValue => new.startedAt <= new.finishedAt
  <2>1. "failed" \notin Unfinished
    BY DEF Unfinished
  <2> QED
    BY <1>3, <1>5, <1>6, <1>8, <1>9, <2>1
<1>16. Tells(new, rows, n)
  BY <1>8, <1>9, <1>11, <1>13, <1>14, <1>15 DEF Tells
<1> QED
  BY <1>1, <1>4, <1>8, <1>16

JobsTo(rows, job, n) ==
  job = [k \in 1 .. n |-> IF k = 1 THEN FirstSeen(rows[1]) ELSE Folded(job[k - 1], rows[k])]

LEMMA JobsExist ==
  ASSUME NEW rows, NEW n \in Nat
  PROVE  \E job : JobsTo(rows, job, n)
<1> DEFINE S == {k \in 0 .. n : \E job : JobsTo(rows, job, k)}
<1>1. 0 \in S
  <2>1. PICK job : job = [k \in {} |-> FirstSeen(rows[1])]
    OBVIOUS
  <2>2. 1 .. 0 = {}
    OBVIOUS
  <2>3. JobsTo(rows, job, 0)
    BY <2>1, <2>2 DEF JobsTo
  <2> QED
    BY <2>3
<1>2. ASSUME NEW k \in 1 .. n, k - 1 \in S PROVE k \in S
  <2>1. PICK job : JobsTo(rows, job, k - 1)
    BY <1>2
  <2>2. PICK new : new = [i \in 1 .. k |->
                            IF i = k THEN (IF k = 1 THEN FirstSeen(rows[1]) ELSE Folded(job[k - 1], rows[k]))
                            ELSE job[i]]
    OBVIOUS
  <2>3. \A i \in 1 .. k - 1 :
          job[i] = IF i = 1 THEN FirstSeen(rows[1]) ELSE Folded(job[i - 1], rows[i])
    BY <2>1 DEF JobsTo
  <2>4. \A i \in 1 .. k : new[i] = IF i = 1 THEN FirstSeen(rows[1]) ELSE Folded(new[i - 1], rows[i])
    <3> SUFFICES ASSUME NEW i \in 1 .. k
                 PROVE  new[i] = IF i = 1 THEN FirstSeen(rows[1]) ELSE Folded(new[i - 1], rows[i])
      OBVIOUS
    <3>1. i # 1 => new[i - 1] = job[i - 1]
      BY <1>2, <2>2
    <3>2. i # k => i \in 1 .. k - 1 /\ new[i] = job[i]
      BY <1>2, <2>2
    <3>3. CASE i = k
      BY <2>2, <3>1, <3>3
    <3>4. CASE i # k
      BY <2>3, <3>1, <3>2, <3>4
    <3> QED
      BY <3>3, <3>4
  <2>5. JobsTo(rows, new, k)
    BY <2>2, <2>4 DEF JobsTo
  <2> QED
    BY <1>2, <2>5
<1> HIDE DEF S
<1>3. 0 .. n \subseteq S
  BY <1>1, <1>2, UpTo
<1>4. n \in S
  BY <1>3
<1> QED
  BY <1>4 DEF S

LEMMA JobTells ==
  ASSUME NEW rows \in Seq(LedgerRows), rows # << >>
  PROVE  JobOf(rows) \in AdminJobs /\ Tells(JobOf(rows), rows, Len(rows))
<1>1. PICK n \in Nat : n = Len(rows) /\ n # 0
  OBVIOUS
<1>2. PICK job : job = CHOOSE f : JobsTo(rows, f, n)
  OBVIOUS
<1>3. JobsTo(rows, job, n)
  BY <1>2, JobsExist
<1>4. JobOf(rows) = job[n]
  BY <1>1, <1>2 DEF JobOf, JobsTo
<1>5. job[1] = FirstSeen(rows[1]) /\ \A k \in 2 .. n : job[k] = Folded(job[k - 1], rows[k])
  BY <1>1, <1>3 DEF JobsTo
<1> DEFINE S == {k \in 0 .. n - 1 : job[k + 1] \in AdminJobs /\ Tells(job[k + 1], rows, k + 1)}
<1>6. 0 \in S
  <2>1. job[0 + 1] = FirstSeen(rows[1]) /\ 0 + 1 = 1
    BY <1>5
  <2>2. job[0 + 1] \in AdminJobs /\ Tells(job[0 + 1], rows, 0 + 1)
    BY <2>1, FirstTells
  <2> QED
    BY <1>1, <2>2
<1>7. ASSUME NEW k \in 1 .. n - 1, k - 1 \in S PROVE k \in S
  <2>1. PICK m : m = k + 1
    OBVIOUS
  <2>2. m \in 2 .. Len(rows) /\ m - 1 = k /\ m \in 2 .. n /\ k - 1 + 1 = k
    BY <1>1, <2>1
  <2>3. job[k] \in AdminJobs /\ Tells(job[k], rows, k)
    BY <1>7, <2>2
  <2>4. Folded(job[k], rows[m]) \in AdminJobs /\ Tells(Folded(job[k], rows[m]), rows, m)
    BY <2>2, <2>3, FoldedTells
  <2>5. job[m] = Folded(job[k], rows[m])
    BY <1>5, <2>2
  <2> QED
    BY <2>1, <2>4, <2>5
<1> HIDE DEF S
<1>8. 0 .. n - 1 \subseteq S
  <2>1. n - 1 \in Nat
    BY <1>1
  <2> QED
    BY <1>6, <1>7, <2>1, UpTo
<1>9. n - 1 \in S /\ n - 1 + 1 = n
  BY <1>1, <1>8
<1>10. job[n] \in AdminJobs /\ Tells(job[n], rows, n)
  BY <1>9 DEF S
<1> QED
  BY <1>1, <1>4, <1>10

\* The rows of a job, and its first row.
OfJob(rows, id) == {i \in DOMAIN rows : rows[i].jobId = id}

LEMMA RowsOfJobAre ==
  ASSUME OperationsInv, NEW id
  PROVE  /\ RowsOfJob(id) = AtPositions(ledger, OfJob(ledger, id))
         /\ RowsOfJob(id) \in Seq(LedgerRows)
         /\ \A k \in 1 .. Len(RowsOfJob(id)) :
              RowsOfJob(id)[k].jobId = id /\ \E i \in DOMAIN ledger : RowsOfJob(id)[k] = ledger[i]
         /\ \A i \in DOMAIN ledger : ledger[i].jobId = id =>
              \E k \in 1 .. Len(RowsOfJob(id)) : RowsOfJob(id)[k] = ledger[i]
<1>1. PICK n \in Nat : n = Len(ledger) /\ DOMAIN ledger = 1 .. n
  BY DEF OperationsInv
<1>2. PICK E \in SUBSET (1 .. n) : E = OfJob(ledger, id)
  <2>1. OfJob(ledger, id) \in SUBSET (1 .. n)
    BY <1>1 DEF OfJob
  <2> QED
    BY <2>1
<1>3. RowsOfJob(id) = AtPositions(ledger, E)
  BY <1>2 DEF RowsOfJob, Where, OfJob
<1>4. PICK rows : rows = AtPositions(ledger, E)
  OBVIOUS
<1>5. /\ rows \in Seq(LedgerRows) /\ Len(rows) = Cardinality(E)
      /\ \A k \in 1 .. Cardinality(E) : Nth(E, k) \in E /\ rows[k] = ledger[Nth(E, k)]
  BY <1>1, <1>4, SelectedList DEF OperationsInv
<1>6. \A i \in E : \E k \in 1 .. Cardinality(E) : Nth(E, k) = i
  BY <1>1, Positions
<1>7. \A i \in DOMAIN ledger : i \in E <=> ledger[i].jobId = id
  BY <1>2 DEF OfJob
<1>8. \A i \in DOMAIN ledger : ledger[i].jobId = id => \E k \in 1 .. Len(rows) : rows[k] = ledger[i]
  BY <1>5, <1>6, <1>7
<1>9. \A k \in 1 .. Len(rows) : rows[k].jobId = id /\ \E i \in DOMAIN ledger : rows[k] = ledger[i]
  BY <1>1, <1>5, <1>7
<1> QED
  BY <1>2, <1>3, <1>4, <1>5, <1>8, <1>9

\* One list is another in some order, with the number of each falling.
Falling(s, out, key) ==
  \E from \in [DOMAIN s -> DOMAIN s] :
    /\ \A k \in DOMAIN s : out[k] = s[from[k]]
    /\ \A i \in DOMAIN s : \E k \in DOMAIN s : from[k] = i
    /\ \A j, k \in DOMAIN s : from[j] = from[k] => j = k
    /\ \A j, k \in DOMAIN s : j < k => key[from[j]] >= key[from[k]]

\* A list sorted by a number, the largest first.
LEMMA LargestFirst ==
  ASSUME NEW A, NEW s \in Seq(A), NEW key \in [DOMAIN s -> Int], NEW B,
         \A i, j \in DOMAIN s : <<i, j>> \in B <=> key[i] > key[j]
  PROVE  /\ Sorted(s, B) \in Seq(A) /\ DOMAIN Sorted(s, B) = DOMAIN s
         /\ Falling(s, Sorted(s, B), key)
<1>1. WeakOn(DOMAIN s, B)
  <2>1. \A x \in DOMAIN s : key[x] \in Int
    OBVIOUS
  <2>2. \A x \in DOMAIN s : <<x, x>> \notin B
    BY <2>1
  <2>3. \A x, y, z \in DOMAIN s : <<x, y>> \in B /\ <<y, z>> \in B => <<x, z>> \in B
    BY <2>1
  <2>4. \A x, y, z \in DOMAIN s : <<x, z>> \in B => <<x, y>> \in B \/ <<y, z>> \in B
    BY <2>1
  <2> QED
    BY <2>2, <2>3, <2>4 DEF WeakOn
<1>2. /\ Sorted(s, B) \in Seq(A) /\ DOMAIN Sorted(s, B) = DOMAIN s
      /\ \A k \in DOMAIN s : By(s, B)[k] \in DOMAIN s /\ Sorted(s, B)[k] = s[By(s, B)[k]]
      /\ \A i \in DOMAIN s : \E k \in DOMAIN s : By(s, B)[k] = i
      /\ \A j, k \in DOMAIN s : By(s, B)[j] = By(s, B)[k] => j = k
      /\ \A j, k \in DOMAIN s : j < k => <<By(s, B)[k], By(s, B)[j]>> \notin B
  BY <1>1, SortedIs
<1>3. PICK from : from = [k \in DOMAIN s |-> By(s, B)[k]]
  OBVIOUS
<1>4. from \in [DOMAIN s -> DOMAIN s] /\ \A k \in DOMAIN s : from[k] = By(s, B)[k]
  BY <1>2, <1>3
<1>5. ASSUME NEW j \in DOMAIN s, NEW k \in DOMAIN s, j < k PROVE key[from[j]] >= key[from[k]]
  <2>1. <<from[k], from[j]>> \notin B
    BY <1>2, <1>4, <1>5
  <2>2. from[j] \in DOMAIN s /\ from[k] \in DOMAIN s
    BY <1>4
  <2>3. key[from[j]] \in Int /\ key[from[k]] \in Int
    BY <2>2
  <2> QED
    BY <2>1, <2>2, <2>3
<1>6. /\ \A k \in DOMAIN s : Sorted(s, B)[k] = s[from[k]]
      /\ \A i \in DOMAIN s : \E k \in DOMAIN s : from[k] = i
      /\ \A j, k \in DOMAIN s : from[j] = from[k] => j = k
  BY <1>2, <1>4
<1> QED
  BY <1>2, <1>4, <1>5, <1>6 DEF Falling

JobShown(i) == JobOf(RowsOfJob(ledger[i].jobId))

\* The jobs page has one job for every id in the ledger, the latest start first.
LEMMA AdminJobsAre ==
  ASSUME OperationsInv
  PROVE  /\ GetAdminJobs \in Seq(AdminJobs)
         /\ \A k \in DOMAIN GetAdminJobs :
              \E i \in DOMAIN ledger : /\ GetAdminJobs[k] = JobShown(i)
                                       /\ GetAdminJobs[k].id = ledger[i].jobId
         /\ \A i \in DOMAIN ledger : \E k \in DOMAIN GetAdminJobs : GetAdminJobs[k].id = ledger[i].jobId
         /\ \A j, k \in DOMAIN GetAdminJobs :
              j < k => /\ GetAdminJobs[j].id # GetAdminJobs[k].id
                       /\ GetAdminJobs[j].startedAt >= GetAdminJobs[k].startedAt
<1>1. PICK n \in Nat : n = Len(ledger) /\ DOMAIN ledger = 1 .. n
  BY DEF OperationsInv
<1>2. PICK keys : keys = [i \in 1 .. n |-> ledger[i].jobId]
  OBVIOUS
<1>3. PICK F : F = FirstsOf(keys, n)
  OBVIOUS
<1>4. /\ F \in SUBSET (1 .. n)
      /\ \A i, j \in F : keys[i] = keys[j] => i = j
      /\ \A i \in 1 .. n : \E j \in F : keys[j] = keys[i]
  BY <1>3, FirstsAre
<1>5. F = {i \in DOMAIN ledger : \A j \in 1 .. i - 1 : ledger[j].jobId # ledger[i].jobId}
  <2>1. \A i \in 1 .. n : \A j \in 1 .. i - 1 : j \in 1 .. n
    OBVIOUS
  <2> QED
    BY <1>1, <1>2, <1>3, <2>1 DEF FirstsOf
<1>6. PICK u : u = AtPositions(ledger, F)
  OBVIOUS
<1>7. FirstOfEach(ledger, LAMBDA row : row.jobId) = u
  BY <1>5, <1>6 DEF FirstOfEach
<1>8. PICK m \in Nat : m = Cardinality(F)
  BY <1>4, RankGrows
<1>9. /\ u \in Seq(LedgerRows) /\ Len(u) = m
      /\ \A k \in 1 .. m : Nth(F, k) \in F /\ u[k] = ledger[Nth(F, k)]
  <2>1. /\ u \in Seq(LedgerRows) /\ Len(u) = Cardinality(F)
        /\ \A k \in 1 .. Cardinality(F) : Nth(F, k) \in F /\ u[k] = ledger[Nth(F, k)]
    <3>1. ledger \in Seq(LedgerRows) /\ F \in SUBSET DOMAIN ledger
      BY <1>1, <1>4 DEF OperationsInv
    <3> QED
      BY <1>6, <3>1, SelectedList
  <2> QED
    BY <1>8, <2>1
<1>10. /\ \A i \in F : \E k \in 1 .. m : Nth(F, k) = i
       /\ \A j, k \in 1 .. m : Nth(F, j) = Nth(F, k) => j = k
  BY <1>4, <1>8, Positions
<1>11. PICK jobs : jobs = [k \in DOMAIN u |-> JobOf(RowsOfJob(u[k].jobId))]
  OBVIOUS
<1>12. DOMAIN u = 1 .. m
  BY <1>9
<1>13. ASSUME NEW k \in 1 .. m
       PROVE  /\ jobs[k] \in AdminJobs /\ jobs[k] = JobShown(Nth(F, k))
              /\ jobs[k].id = keys[Nth(F, k)] /\ Nth(F, k) \in 1 .. n
  <2>1. PICK i \in 1 .. n : i = Nth(F, k) /\ u[k] = ledger[i]
    BY <1>4, <1>9
  <2>2. PICK id, rows : id = ledger[i].jobId /\ rows = RowsOfJob(id)
    OBVIOUS
  <2>3. rows \in Seq(LedgerRows) /\ \A l \in 1 .. Len(rows) : rows[l].jobId = id
    BY <2>2, RowsOfJobAre
  <2>4. \E l \in 1 .. Len(rows) : rows[l] = ledger[i]
    BY <1>1, <2>2, RowsOfJobAre
  <2>5. rows # << >> /\ 1 \in 1 .. Len(rows)
    BY <2>3, <2>4
  <2>6. JobOf(rows) \in AdminJobs /\ Tells(JobOf(rows), rows, Len(rows))
    BY <2>3, <2>5, JobTells
  <2>7. JobOf(rows).id = id
    BY <2>3, <2>5, <2>6 DEF Tells
  <2>8. jobs[k] = JobOf(rows)
    BY <1>11, <1>12, <2>1, <2>2
  <2> QED
    BY <1>2, <2>1, <2>2, <2>6, <2>7, <2>8 DEF JobShown
<1>14. DOMAIN jobs = 1 .. m /\ jobs \in Seq(AdminJobs)
  <2>1. jobs = [k \in 1 .. m |-> jobs[k]]
    BY <1>11, <1>12
  <2>2. jobs \in [1 .. m -> AdminJobs]
    BY <1>13, <2>1
  <2> QED
    BY <2>2
<1>15. PICK B : B = {p \in (DOMAIN jobs) \X (DOMAIN jobs) : jobs[p[1]].startedAt > jobs[p[2]].startedAt}
  OBVIOUS
<1>16. Mapped(u, LAMBDA row : JobOf(RowsOfJob(row.jobId))) = jobs
  BY <1>11 DEF Mapped
<1>17. GetAdminJobs = Sorted(jobs, B)
  BY <1>7, <1>15, <1>16 DEF GetAdminJobs, StableSort
<1>18. PICK key \in [DOMAIN jobs -> Int] : \A k \in DOMAIN jobs : key[k] = jobs[k].startedAt
  <2>1. PICK key : key = [k \in DOMAIN jobs |-> jobs[k].startedAt]
    OBVIOUS
  <2>2. \A k \in DOMAIN jobs : jobs[k].startedAt \in Int
    BY <1>13, <1>14 DEF AdminJobs
  <2> QED
    BY <2>1, <2>2
<1>19. PICK out : out = Sorted(jobs, B)
  OBVIOUS
<1>20. /\ out \in Seq(AdminJobs) /\ DOMAIN out = DOMAIN jobs
       /\ Falling(jobs, out, key)
  <2>1. \A i, j \in DOMAIN jobs : <<i, j>> \in B <=> key[i] > key[j]
    BY <1>15, <1>18
  <2>2. jobs \in Seq(AdminJobs)
    BY <1>14
  <2>3. /\ Sorted(jobs, B) \in Seq(AdminJobs) /\ DOMAIN Sorted(jobs, B) = DOMAIN jobs
        /\ Falling(jobs, Sorted(jobs, B), key)
    BY <2>1, <2>2, LargestFirst
  <2> QED
    BY <1>19, <2>3
<1>21. PICK from \in [1 .. m -> 1 .. m] :
            /\ \A k \in 1 .. m : out[k] = jobs[from[k]]
            /\ \A i \in 1 .. m : \E k \in 1 .. m : from[k] = i
            /\ \A j, k \in 1 .. m : from[j] = from[k] => j = k
            /\ \A j, k \in 1 .. m : j < k => key[from[j]] >= key[from[k]]
  BY <1>14, <1>20 DEF Falling
<1>22. ASSUME NEW k \in 1 .. m
       PROVE  \E i \in DOMAIN ledger : out[k] = JobShown(i) /\ out[k].id = ledger[i].jobId
  <2>1. PICK l \in 1 .. m : l = from[k]
    BY <1>21
  <2>2. PICK i \in 1 .. n : i = Nth(F, l)
    BY <1>13
  <2>3. out[k] = JobShown(i) /\ out[k].id = keys[i]
    BY <1>13, <1>21, <2>1, <2>2
  <2> QED
    BY <1>1, <1>2, <2>3
<1>23. ASSUME NEW i \in DOMAIN ledger PROVE \E k \in 1 .. m : out[k].id = ledger[i].jobId
  <2>1. PICK f \in F : keys[f] = keys[i]
    BY <1>1, <1>4
  <2>2. PICK l \in 1 .. m : Nth(F, l) = f
    BY <1>10
  <2>3. PICK k \in 1 .. m : from[k] = l
    BY <1>21
  <2>4. out[k].id = keys[f]
    BY <1>13, <1>21, <2>2, <2>3
  <2> QED
    BY <1>1, <1>2, <2>1, <2>4
<1>24. ASSUME NEW j \in 1 .. m, NEW k \in 1 .. m, j < k
       PROVE  out[j].id # out[k].id /\ out[j].startedAt >= out[k].startedAt
  <2>1. from[j] \in 1 .. m /\ from[k] \in 1 .. m /\ from[j] # from[k]
    BY <1>21, <1>24
  <2>2. Nth(F, from[j]) # Nth(F, from[k]) /\ Nth(F, from[j]) \in F /\ Nth(F, from[k]) \in F
    BY <1>9, <1>10, <2>1
  <2>3. keys[Nth(F, from[j])] # keys[Nth(F, from[k])]
    BY <1>4, <2>2
  <2>4. out[j].id # out[k].id
    BY <1>13, <1>21, <2>1, <2>3
  <2>5. key[from[j]] >= key[from[k]]
    BY <1>21, <1>24
  <2>6. out[j].startedAt = key[from[j]] /\ out[k].startedAt = key[from[k]]
    <3>1. \A i \in 1 .. m : key[i] = jobs[i].startedAt
      BY <1>14, <1>18
    <3>2. out[j] = jobs[from[j]] /\ out[k] = jobs[from[k]]
      BY <1>21
    <3> QED
      BY <2>1, <3>1, <3>2
  <2> QED
    BY <2>4, <2>5, <2>6
<1>25. DOMAIN out = 1 .. m /\ out \in Seq(AdminJobs)
  BY <1>14, <1>20
<1>26. GetAdminJobs = out
  BY <1>17, <1>19
<1> QED
  BY <1>22, <1>23, <1>24, <1>25, <1>26

Artifacts == [jobId : JobIds, parser : Parsers, fetchTimestamp : Int]
Asked(row, job, parser) ==
  /\ FailedRow(row)
  /\ job \in {NoValue, row.jobId}
  /\ parser \in {NoValue, MapParser(row.parserVersion)}
FailedIn(job, parser) == {i \in DOMAIN ledger : Asked(ledger[i], job, parser)}
Traces(a, row) == a.jobId = row.jobId /\ a.fetchTimestamp = row.fetchTimestamp

\* The artifacts listed are the failed rows that are asked for.
LEMMA FailedAre ==
  ASSUME OperationsInv, NEW job, NEW parser
  PROVE  /\ GetFailedArtifacts(job, parser) \in Seq(Artifacts)
         /\ \A k \in DOMAIN GetFailedArtifacts(job, parser) :
              \E i \in FailedIn(job, parser) : Traces(GetFailedArtifacts(job, parser)[k], ledger[i])
         /\ FailedIn(job, parser) # {} => GetFailedArtifacts(job, parser) # << >>
<1>1. PICK n \in Nat : n = Len(ledger) /\ DOMAIN ledger = 1 .. n
  BY DEF OperationsInv
<1>2. PICK E : E = FailedIn(job, parser)
  OBVIOUS
<1>3. E \in SUBSET DOMAIN ledger /\ E \in SUBSET (1 .. n) /\ ledger \in Seq(LedgerRows)
  BY <1>1, <1>2 DEF FailedIn, OperationsInv
<1>4. PICK u : u = AtPositions(ledger, E)
  OBVIOUS
<1>5. PICK m \in Nat : m = Cardinality(E)
  BY <1>3, RankGrows
<1>6. /\ u \in Seq(LedgerRows) /\ Len(u) = m /\ DOMAIN u = 1 .. m
      /\ \A k \in 1 .. m : Nth(E, k) \in E /\ u[k] = ledger[Nth(E, k)]
  <2>1. /\ u \in Seq(LedgerRows) /\ Len(u) = Cardinality(E)
        /\ \A k \in 1 .. Cardinality(E) : Nth(E, k) \in E /\ u[k] = ledger[Nth(E, k)]
    BY <1>3, <1>4, SelectedList
  <2> QED
    BY <1>5, <2>1
<1>7. PICK list : list = [k \in DOMAIN u |-> [jobId |-> u[k].jobId, parser |-> MapParser(u[k].parserVersion),
                                             fetchTimestamp |-> u[k].fetchTimestamp]]
  OBVIOUS
<1>8. ASSUME NEW k \in 1 .. m
      PROVE  list[k] \in Artifacts /\ Traces(list[k], ledger[Nth(E, k)]) /\ Nth(E, k) \in E
  <2>1. PICK row \in LedgerRows : row = u[k] /\ row = ledger[Nth(E, k)] /\ Nth(E, k) \in E
    BY <1>6
  <2>2. list[k] = [jobId |-> row.jobId, parser |-> MapParser(row.parserVersion),
                   fetchTimestamp |-> row.fetchTimestamp]
    BY <1>6, <1>7, <2>1
  <2>3. row.jobId \in JobIds /\ row.fetchTimestamp \in Int /\ MapParser(row.parserVersion) \in Parsers
    BY RowIs
  <2> QED
    BY <2>1, <2>2, <2>3 DEF Artifacts, Traces
<1>9. DOMAIN list = 1 .. m /\ list \in Seq(Artifacts)
  <2>1. list = [k \in 1 .. m |-> list[k]]
    BY <1>6, <1>7
  <2>2. list \in [1 .. m -> Artifacts]
    BY <1>8, <2>1
  <2> QED
    BY <2>2
<1>10. PICK B : B = {p \in (DOMAIN list) \X (DOMAIN list) : list[p[1]].fetchTimestamp > list[p[2]].fetchTimestamp}
  OBVIOUS
<1>11. GetFailedArtifacts(job, parser) = Sorted(list, B)
  <2>1. E = {i \in DOMAIN ledger : /\ MapJobState(ledger[i].status) = "failed"
                                   /\ job \in {NoValue, ledger[i].jobId}
                                   /\ parser \in {NoValue, MapParser(ledger[i].parserVersion)}}
    BY <1>2 DEF FailedIn, Asked, FailedRow
  <2>2. AtPositions(ledger, {i \in DOMAIN ledger :
                               /\ MapJobState(ledger[i].status) = "failed"
                               /\ job \in {NoValue, ledger[i].jobId}
                               /\ parser \in {NoValue, MapParser(ledger[i].parserVersion)}}) = u
    BY <1>4, <2>1
  <2> QED
    BY <1>7, <1>10, <2>2 DEF GetFailedArtifacts, Where, Mapped, StableSort
<1>12. PICK key \in [DOMAIN list -> Int] : \A k \in DOMAIN list : key[k] = list[k].fetchTimestamp
  <2>1. PICK key : key = [k \in DOMAIN list |-> list[k].fetchTimestamp]
    OBVIOUS
  <2>2. \A k \in DOMAIN list : list[k].fetchTimestamp \in Int
    BY <1>8, <1>9 DEF Artifacts
  <2> QED
    BY <2>1, <2>2
<1>13. PICK out : out = Sorted(list, B)
  OBVIOUS
<1>14. out \in Seq(Artifacts) /\ DOMAIN out = DOMAIN list /\ Falling(list, out, key)
  <2>1. \A i, j \in DOMAIN list : <<i, j>> \in B <=> key[i] > key[j]
    BY <1>10, <1>12
  <2>2. list \in Seq(Artifacts)
    BY <1>9
  <2>3. /\ Sorted(list, B) \in Seq(Artifacts) /\ DOMAIN Sorted(list, B) = DOMAIN list
        /\ Falling(list, Sorted(list, B), key)
    BY <2>1, <2>2, LargestFirst
  <2> QED
    BY <1>13, <2>3
<1>15. PICK from \in [1 .. m -> 1 .. m] : \A k \in 1 .. m : out[k] = list[from[k]]
  BY <1>9, <1>14 DEF Falling
<1>16. ASSUME NEW k \in DOMAIN out PROVE \E i \in E : Traces(out[k], ledger[i])
  <2>1. PICK l \in 1 .. m : out[k] = list[l]
    BY <1>9, <1>14, <1>15
  <2> QED
    BY <1>8, <2>1
<1>17. E # {} => out # << >>
  <2>1. SUFFICES ASSUME E # {} PROVE out # << >>
    OBVIOUS
  <2>2. IsFiniteSet(E)
    BY <1>3, RankGrows
  <2>3. Cardinality(E) # 0
    BY <2>1, <2>2, FS_EmptySet
  <2>4. 1 \in DOMAIN out
    BY <1>5, <1>9, <1>14, <2>3
  <2> QED
    BY <2>4
<1>18. GetFailedArtifacts(job, parser) = out
  BY <1>11, <1>13
<1> QED
  BY <1>2, <1>14, <1>16, <1>17, <1>18

Summaries == [parser : Parsers, failures : Nat]

\* The failures of the parsers add up to the artifacts listed.
LEMMA FailuresAddUp ==
  ASSUME OperationsInv, NEW job, NEW parser
  PROVE  SumOf(Mapped(GetParserFailureSummary(job, parser), LAMBDA s : s.failures))
           = Len(GetFailedArtifacts(job, parser))
<1>1. PICK failed \in Seq(Artifacts) : failed = GetFailedArtifacts(job, parser)
  BY FailedAre
<1>2. PICK n \in Nat : n = Len(failed) /\ DOMAIN failed = 1 .. n
  OBVIOUS
<1>3. PICK keys : keys = [i \in 1 .. n |-> failed[i].parser]
  OBVIOUS
<1>4. PICK F : F = FirstsOf(keys, n)
  OBVIOUS
<1>5. /\ F \in SUBSET (1 .. n)
      /\ \A i, j \in F : keys[i] = keys[j] => i = j
      /\ \A i \in 1 .. n : \E j \in F : keys[j] = keys[i]
  BY <1>4, FirstsAre
<1>6. F = {i \in DOMAIN failed : \A j \in 1 .. i - 1 : failed[j].parser # failed[i].parser}
  <2>1. \A i \in 1 .. n : \A j \in 1 .. i - 1 : j \in 1 .. n
    OBVIOUS
  <2> QED
    BY <1>2, <1>3, <1>4, <2>1 DEF FirstsOf
<1>7. PICK u : u = AtPositions(failed, F)
  OBVIOUS
<1>8. FirstOfEach(failed, LAMBDA a : a.parser) = u
  BY <1>6, <1>7 DEF FirstOfEach
<1>9. PICK m \in Nat : m = Cardinality(F)
  BY <1>5, RankGrows
<1>10. /\ u \in Seq(Artifacts) /\ Len(u) = m /\ DOMAIN u = 1 .. m
       /\ \A k \in 1 .. m : Nth(F, k) \in F /\ u[k] = failed[Nth(F, k)]
  <2>1. F \in SUBSET DOMAIN failed
    BY <1>2, <1>5
  <2>2. /\ u \in Seq(Artifacts) /\ Len(u) = Cardinality(F)
        /\ \A k \in 1 .. Cardinality(F) : Nth(F, k) \in F /\ u[k] = failed[Nth(F, k)]
    BY <1>7, <2>1, SelectedList
  <2> QED
    BY <1>9, <2>2
<1>11. /\ \A i \in F : \E k \in 1 .. m : Nth(F, k) = i
       /\ \A j, k \in 1 .. m : Nth(F, j) = Nth(F, k) => j = k
  BY <1>5, <1>9, Positions
<1>12. PICK list : list = [k \in DOMAIN u |->
                             [parser |-> u[k].parser,
                              failures |-> Cardinality({i \in DOMAIN failed : failed[i].parser = u[k].parser})]]
  OBVIOUS
<1>13. ASSUME NEW k \in 1 .. m
       PROVE  /\ list[k] \in Summaries /\ list[k].parser = keys[Nth(F, k)]
              /\ list[k].failures = Cardinality(PlacesOf(keys, n, list[k].parser))
  <2>0. u[k] \in Artifacts
    BY <1>10
  <2>1. PICK i \in 1 .. n : i = Nth(F, k) /\ u[k] = failed[i] /\ u[k] \in Artifacts
    BY <1>5, <1>10, <2>0
  <2>2. PICK name \in Parsers : name = u[k].parser /\ name = keys[i]
    BY <1>3, <2>1 DEF Artifacts
  <2>3. {l \in DOMAIN failed : failed[l].parser = name} = PlacesOf(keys, n, name)
    BY <1>2, <1>3 DEF PlacesOf
  <2>4. list[k] = [parser |-> name, failures |-> Cardinality(PlacesOf(keys, n, name))]
    BY <1>10, <1>12, <2>2, <2>3
  <2>5. Cardinality(PlacesOf(keys, n, name)) \in Nat
    <3>1. PlacesOf(keys, n, name) \in SUBSET (1 .. n)
      BY DEF PlacesOf
    <3> QED
      BY <3>1, RankGrows
  <2> QED
    BY <2>1, <2>2, <2>4, <2>5 DEF Summaries
<1>14. DOMAIN list = 1 .. m /\ list \in Seq(Summaries)
  <2>1. list = [k \in 1 .. m |-> list[k]]
    BY <1>10, <1>12
  <2>2. list \in [1 .. m -> Summaries]
    BY <1>13, <2>1
  <2> QED
    BY <2>2
<1>15. PICK B : B = {p \in (DOMAIN list) \X (DOMAIN list) : list[p[1]].failures > list[p[2]].failures}
  OBVIOUS
<1>16. GetParserFailureSummary(job, parser) = Sorted(list, B)
  BY <1>1, <1>8, <1>12, <1>15 DEF GetParserFailureSummary, Mapped, StableSort
<1>17. PICK key \in [DOMAIN list -> Int] : \A k \in DOMAIN list : key[k] = list[k].failures
  <2>1. PICK key : key = [k \in DOMAIN list |-> list[k].failures]
    OBVIOUS
  <2>2. \A k \in DOMAIN list : list[k].failures \in Int
    BY <1>13, <1>14 DEF Summaries
  <2> QED
    BY <2>1, <2>2
<1>18. PICK out : out = Sorted(list, B)
  OBVIOUS
<1>19. out \in Seq(Summaries) /\ DOMAIN out = DOMAIN list /\ Falling(list, out, key)
  <2>1. \A i, j \in DOMAIN list : <<i, j>> \in B <=> key[i] > key[j]
    BY <1>15, <1>17
  <2>2. list \in Seq(Summaries)
    BY <1>14
  <2>3. /\ Sorted(list, B) \in Seq(Summaries) /\ DOMAIN Sorted(list, B) = DOMAIN list
        /\ Falling(list, Sorted(list, B), key)
    BY <2>1, <2>2, LargestFirst
  <2> QED
    BY <1>18, <2>3
<1>20. PICK from \in [1 .. m -> 1 .. m] :
         /\ \A k \in 1 .. m : out[k] = list[from[k]]
         /\ \A i \in 1 .. m : \E k \in 1 .. m : from[k] = i
         /\ \A j, k \in 1 .. m : from[j] = from[k] => j = k
  <2>1. Falling(list, out, key) /\ DOMAIN list = 1 .. m
    BY <1>14, <1>19
  <2>2. PICK from \in [DOMAIN list -> DOMAIN list] :
         /\ \A k \in DOMAIN list : out[k] = list[from[k]]
         /\ \A i \in DOMAIN list : \E k \in DOMAIN list : from[k] = i
         /\ \A j, k \in DOMAIN list : from[j] = from[k] => j = k
    BY <2>1 DEF Falling
  <2>3. from \in [1 .. m -> 1 .. m]
    BY <2>1
  <2>4. /\ \A k \in 1 .. m : out[k] = list[from[k]]
        /\ \A i \in 1 .. m : \E k \in 1 .. m : from[k] = i
        /\ \A j, k \in 1 .. m : from[j] = from[k] => j = k
    BY <2>1, <2>2
  <2> QED
    BY <2>3, <2>4
<1>21. PICK counts : counts = [k \in 1 .. m |-> out[k].failures]
  OBVIOUS
<1>22. PICK all : all = [k \in 1 .. m |-> out[k].parser]
  OBVIOUS
<1>23. ASSUME NEW k \in 1 .. m
       PROVE  /\ all[k] = keys[Nth(F, from[k])] /\ counts[k] \in Nat
              /\ counts[k] = Cardinality(PlacesOf(keys, n, all[k]))
  <2>1. PICK l \in 1 .. m : l = from[k] /\ out[k] = list[l]
    BY <1>20
  <2>2. list[l].failures \in Nat
    BY <1>13 DEF Summaries
  <2> QED
    BY <1>13, <1>21, <1>22, <2>1, <2>2
<1>24. \A j, k \in 1 .. m : all[j] = all[k] => j = k
  <2> SUFFICES ASSUME NEW j \in 1 .. m, NEW k \in 1 .. m, all[j] = all[k] PROVE j = k
    OBVIOUS
  <2>1. PICK a \in 1 .. m, b \in 1 .. m : a = from[j] /\ b = from[k]
    BY <1>20
  <2>2. keys[Nth(F, a)] = keys[Nth(F, b)] /\ Nth(F, a) \in F /\ Nth(F, b) \in F
    BY <1>10, <1>23, <2>1
  <2>3. a = b
    BY <1>5, <1>11, <2>2
  <2> QED
    BY <1>20, <2>1, <2>3
<1>25. \A i \in 1 .. n : \E k \in 1 .. m : keys[i] = all[k]
  <2> SUFFICES ASSUME NEW i \in 1 .. n PROVE \E k \in 1 .. m : keys[i] = all[k]
    OBVIOUS
  <2>1. PICK f \in F : keys[f] = keys[i]
    BY <1>5
  <2>2. PICK l \in 1 .. m : Nth(F, l) = f
    BY <1>11
  <2>3. PICK k \in 1 .. m : from[k] = l
    BY <1>20
  <2> QED
    BY <1>23, <2>1, <2>2, <2>3
<1>26. counts \in Seq(Int) /\ Len(counts) = m
  <2>1. counts \in [1 .. m -> Int]
    BY <1>21, <1>23
  <2> QED
    BY <2>1
<1>27. SumOf(counts) = n
  <2>1. \A k \in 1 .. m : counts[k] = Cardinality(PlacesOf(keys, n, all[k]))
    BY <1>23
  <2>2. CountedByKey(counts, keys, n, all, m)
    BY <1>24, <1>25, <1>26, <2>1 DEF CountedByKey
  <2> QED
    BY <2>2, CountsAddUp
<1>28. Mapped(out, LAMBDA s : s.failures) = counts
  BY <1>14, <1>19, <1>21 DEF Mapped
<1>29. GetParserFailureSummary(job, parser) = out
  BY <1>16, <1>18
<1> QED
  BY <1>1, <1>2, <1>27, <1>28, <1>29

RawRowsOf(p) == Where(qa.raw, LAMBDA r : r.rowId = p.trace)
IssueWords   == {"missing_trace", "component_mismatch", "total_mismatch"}
IssuesFor(p) == [rowId : {p.rowId}, issue : IssueWords]
One(if, p, issue) == IF if THEN <<[rowId |-> p.rowId, issue |-> issue]>> ELSE <<>>
IssuesWith(p, raw) ==
  One(Total(raw) # raw.total \/ Total(p) # p.total, p, "component_mismatch")
    \o One(raw.total # p.total, p, "total_mismatch")
IssuesOf(p) ==
  IF RawRowsOf(p) = <<>> THEN One(TRUE, p, "missing_trace") ELSE IssuesWith(p, RawRowsOf(p)[1])
Agrees(p, r) == r.rowId = p.trace /\ r.total = p.total /\ Total(r) = r.total /\ Total(p) = p.total

LEMMA OneIs ==
  ASSUME NEW if \in BOOLEAN, NEW p, NEW issue \in IssueWords
  PROVE  /\ One(if, p, issue) \in Seq(IssuesFor(p))
         /\ One(if, p, issue) = << >> => ~if
<1>1. PICK d \in IssuesFor(p) : d = [rowId |-> p.rowId, issue |-> issue]
  BY DEF IssuesFor
<1>2. PICK s : s = One(if, p, issue) /\ s = IF if THEN <<d>> ELSE << >>
  BY <1>1 DEF One
<1>3. s \in Seq(IssuesFor(p)) /\ (s = << >> => ~if)
  BY <1>2
<1> QED
  BY <1>2, <1>3

LEMMA IssuesWithAre ==
  ASSUME NEW p, NEW raw
  PROVE  /\ IssuesWith(p, raw) \in Seq(IssuesFor(p))
         /\ IssuesWith(p, raw) = << >> =>
              raw.total = p.total /\ Total(raw) = raw.total /\ Total(p) = p.total
<1>1. PICK a \in BOOLEAN, b \in BOOLEAN :
        /\ a = (Total(raw) # raw.total \/ Total(p) # p.total)
        /\ b = (raw.total # p.total)
  OBVIOUS
<1>2. PICK v \in IssueWords, w \in IssueWords : v = "component_mismatch" /\ w = "total_mismatch"
  BY DEF IssueWords
<1>3. PICK x, y : x = One(a, p, v) /\ y = One(b, p, w)
  OBVIOUS
<1>4. PICK A : A = IssuesFor(p)
  OBVIOUS
<1>5. x \in Seq(A) /\ (x = << >> => ~a)
  BY <1>3, <1>4, OneIs
<1>6. y \in Seq(A) /\ (y = << >> => ~b)
  BY <1>3, <1>4, OneIs
<1>7. x \o y \in Seq(A) /\ Len(x \o y) = Len(x) + Len(y)
  BY <1>5, <1>6, ConcatProperties
<1>8. x \o y = << >> => x = << >> /\ y = << >>
  BY <1>5, <1>6, <1>7
<1>9. IssuesWith(p, raw) = x \o y
  BY <1>1, <1>2, <1>3 DEF IssuesWith
<1> QED
  BY <1>1, <1>4, <1>5, <1>6, <1>7, <1>8, <1>9

LEMMA IssuesAre ==
  ASSUME OperationsInv, NEW p
  PROVE  /\ IssuesOf(p) \in Seq(IssuesFor(p))
         /\ IssuesOf(p) = << >> => \E r \in ToSet(qa.raw) : Agrees(p, r)
<1>1. PICK n \in Nat : n = Len(qa.raw) /\ DOMAIN qa.raw = 1 .. n
  BY OperationsAssumption DEF OperationsInv
<1>2. PICK E \in SUBSET (1 .. n) : E = {i \in DOMAIN qa.raw : qa.raw[i].rowId = p.trace}
  <2>1. {i \in DOMAIN qa.raw : qa.raw[i].rowId = p.trace} \in SUBSET (1 .. n)
    BY <1>1
  <2> QED
    BY <2>1
<1>3. PICK found : found = RawRowsOf(p) /\ found = AtPositions(qa.raw, E)
  BY <1>2 DEF RawRowsOf, Where
<1>4. CASE found = << >>
  <2>1. PICK if \in BOOLEAN, v \in IssueWords : if /\ v = "missing_trace" /\ if = TRUE
    BY DEF IssueWords
  <2>2. IssuesOf(p) = One(if, p, v)
    BY <1>3, <1>4, <2>1 DEF IssuesOf
  <2>3. One(if, p, v) \in Seq(IssuesFor(p)) /\ (One(if, p, v) = << >> => ~if)
    BY OneIs
  <2>4. PICK list : list = IssuesOf(p)
    OBVIOUS
  <2>5. list \in Seq(IssuesFor(p)) /\ list # << >>
    BY <2>1, <2>2, <2>3, <2>4
  <2> QED
    BY <2>4, <2>5
<1>5. CASE found # << >>
  <2>0. E # {}
    BY <1>3, <1>5, FirstOfSelected
  <2>1. PICK i \in E : found[1] = qa.raw[i]
    BY <1>3, <2>0, FirstOfSelected
  <2>2. PICK r \in ToSet(qa.raw) : r = found[1] /\ r.rowId = p.trace
    BY <1>1, <1>2, <2>1 DEF ToSet
  <2>3. IssuesOf(p) = IssuesWith(p, r)
    BY <1>3, <1>5, <2>2 DEF IssuesOf
  <2>4. /\ IssuesOf(p) \in Seq(IssuesFor(p))
        /\ IssuesOf(p) = << >> => r.total = p.total /\ Total(r) = r.total /\ Total(p) = p.total
    BY <2>3, IssuesWithAre
  <2> QED
    BY <2>2, <2>4 DEF Agrees
<1> QED
  BY <1>4, <1>5

\* A row whose check finds something is on the list.
LEMMA IssuesListed ==
  ASSUME OperationsInv, NEW p \in ToSet(qa.parsed), IssuesOf(p) # << >>
  PROVE  \E d \in ToSet(Discrepancies) : d.rowId = p.rowId
<1>1. PICK n \in Nat : n = Len(qa.parsed) /\ DOMAIN qa.parsed = 1 .. n
  BY OperationsAssumption DEF OperationsInv
<1>2. PICK ids : ids = {qa.parsed[i].rowId : i \in 1 .. n}
  OBVIOUS
<1>3. PICK A : A = [rowId : ids, issue : IssueWords]
  OBVIOUS
<1>4. PICK lists : lists = [i \in 1 .. n |-> IssuesOf(qa.parsed[i])]
  OBVIOUS
<1>5. Discrepancies = Flat(lists)
  BY <1>1, <1>4 DEF Discrepancies, IssuesOf, IssuesWith, RawRowsOf, One, Mapped
<1>6. ASSUME NEW i \in 1 .. n
      PROVE  lists[i] \in Seq(A) /\ \A j \in DOMAIN lists[i] : lists[i][j].rowId = qa.parsed[i].rowId
  <2>1. PICK q, list : q = qa.parsed[i] /\ list = lists[i] /\ list = IssuesOf(q)
    BY <1>4
  <2>2. q.rowId \in ids
    BY <1>2, <2>1
  <2>3. list \in Seq(IssuesFor(q))
    BY <2>1, IssuesAre
  <2>4. PICK l \in Nat : l = Len(list) /\ DOMAIN list = 1 .. l /\ list = [j \in 1 .. l |-> list[j]]
    BY <2>3
  <2>5. \A j \in 1 .. l : list[j] \in IssuesFor(q)
    BY <2>3, <2>4
  <2>6. \A j \in 1 .. l : list[j] \in A /\ list[j].rowId = q.rowId
    BY <1>3, <2>2, <2>5 DEF IssuesFor
  <2>7. list \in [1 .. l -> A]
    BY <2>4, <2>6
  <2>8. list \in Seq(A)
    BY <2>7
  <2> QED
    BY <2>1, <2>4, <2>6, <2>8
<1>7. lists \in Seq(Seq(A)) /\ DOMAIN lists = 1 .. n
  <2>1. lists \in [1 .. n -> Seq(A)]
    BY <1>4, <1>6
  <2> QED
    BY <1>4, <2>1
<1>8. PICK i \in 1 .. n : p = qa.parsed[i]
  BY <1>1 DEF ToSet
<1>9. lists[i] \in Seq(A) /\ lists[i] # << >>
  BY <1>4, <1>6, <1>8
<1>10. 1 \in DOMAIN lists[i]
  BY <1>9
<1>11. PICK spot : spot = <<i, 1>>
  OBVIOUS
<1>12. spot \in Spots(lists)
  BY <1>7, <1>10, <1>11, SpotIs
<1>13. PICK k \in DOMAIN Flat(lists) : Flat(lists)[k] = At(lists, spot)
  BY <1>7, <1>12, FlatIs
<1>14. At(lists, spot) = lists[i][1]
  BY <1>11 DEF At
<1>15. lists[i][1].rowId = p.rowId
  BY <1>6, <1>8, <1>10
<1> QED
  BY <1>5, <1>13, <1>14, <1>15 DEF ToSet

LEMMA AllEmphasized ==
  ASSUME OperationsInv
  PROVE  MismatchesEmphasized
<1>1. PICK listed : listed = {d.rowId : d \in ToSet(Discrepancies)}
  OBVIOUS
<1>2. PICK page : page = AdminQaPage(TRUE)
  OBVIOUS
<1>3. /\ page.raw = {row.rowId : row \in ToSet(qa.raw)} \cap listed
      /\ page.parsed = {row.rowId : row \in ToSet(qa.parsed)} \cap listed
      /\ page.list = Discrepancies
  BY <1>1, <1>2 DEF AdminQaPage
<1>4. ASSUME NEW p \in ToSet(qa.parsed), p.rowId \notin page.parsed
      PROVE  \E r \in ToSet(qa.raw) : Agrees(p, r)
  <2>1. p.rowId \notin listed
    BY <1>3, <1>4
  <2>2. IssuesOf(p) = << >>
    BY <1>1, <2>1, IssuesListed
  <2> QED
    BY <2>2, IssuesAre
<1>5. ASSUME NEW p \in ToSet(qa.parsed), p.rowId \in page.parsed
      PROVE  /\ \E d \in ToSet(page.list) : d.rowId = p.rowId
             /\ p.rowId \in {r.rowId : r \in ToSet(qa.raw)} => p.rowId \in page.raw
  BY <1>1, <1>3, <1>5
<1> QED
  BY <1>2, <1>4, <1>5 DEF MismatchesEmphasized, Agrees

LEMMA FailuresCounted ==
  ASSUME NEW now
  PROVE  ComputeSnapshot(now).jobsLast24h.failed = 7
BY Zenon DEF ComputeSnapshot

\* The banner of every snapshot is a warning, and tells the age of the badge.
LEMMA BannerWarns ==
  ASSUME OperationsInv, snapshot # NoValue
  PROVE  ~StatusBanner.healthy /\ StatusBanner.latest = Badge
<1>1. PICK now \in Clock : snapshot = ComputeSnapshot(now)
  BY DEF OperationsInv, Computed
<1>2. snapshot.jobsLast24h.failed = 7
  BY <1>1, FailuresCounted
<1>3. StatusBanner.healthy <=> snapshot.jobsLast24h.failed = 0
  BY DEF StatusBanner
<1>4. StatusBanner.latest = Badge
  BY DEF StatusBanner, Badge
<1> QED
  BY <1>2, <1>3, <1>4

\* A job shown is told as its rows say.
LEMMA JobsAreTold ==
  ASSUME OperationsInv, NEW job \in ToSet(GetAdminJobs)
  PROVE  JobTold(job)
<1>1. PICK k \in DOMAIN GetAdminJobs : job = GetAdminJobs[k]
  BY DEF ToSet
<1>2. PICK i \in DOMAIN ledger : job = JobShown(i) /\ job.id = ledger[i].jobId
  BY <1>1, AdminJobsAre
<1>3. PICK id, rows : id = ledger[i].jobId /\ rows = RowsOfJob(id)
  OBVIOUS
<1>4. /\ rows \in Seq(LedgerRows)
      /\ \A l \in 1 .. Len(rows) : rows[l].jobId = id /\ \E j \in DOMAIN ledger : rows[l] = ledger[j]
      /\ \A j \in DOMAIN ledger : ledger[j].jobId = id => \E l \in 1 .. Len(rows) : rows[l] = ledger[j]
  BY <1>3, RowsOfJobAre
<1>5. PICK n \in Nat : n = Len(rows) /\ n # 0 /\ DOMAIN rows = 1 .. n /\ rows # << >>
  BY <1>3, <1>4
<1>6. job = JobOf(rows) /\ job.id = id
  BY <1>2, <1>3 DEF JobShown
<1>7. job \in AdminJobs /\ Tells(job, rows, n)
  BY <1>4, <1>5, <1>6, JobTells
<1>8. id \in JobIds /\ id # NoValue
  BY <1>6, <1>7, OperationsAssumption DEF AdminJobs
<1>9. FailedIn(id, NoValue) # {} <=> \E l \in 1 .. n : FailedRow(rows[l])
  <2>1. \A row : Asked(row, id, NoValue) <=> FailedRow(row) /\ row.jobId = id
    BY <1>8 DEF Asked
  <2> QED
    BY <1>4, <1>5, <2>1 DEF FailedIn
<1>10. GetFailedArtifacts(id, NoValue) # << >> <=> FailedIn(id, NoValue) # {}
  <2>1. PICK list : list = GetFailedArtifacts(id, NoValue)
    OBVIOUS
  <2>2. list \in Seq(Artifacts)
    BY <2>1, FailedAre
  <2>3. \A l \in DOMAIN list : \E j \in FailedIn(id, NoValue) : Traces(list[l], ledger[j])
    BY <2>1, FailedAre
  <2>4. list # << >> => 1 \in DOMAIN list
    BY <2>2
  <2>5. FailedIn(id, NoValue) # {} => list # << >>
    BY <2>1, FailedAre
  <2> QED
    BY <2>1, <2>3, <2>4, <2>5
<1>11. IF GetFailedArtifacts(job.id, NoValue) # <<>> THEN job.state = "failed"
       ELSE job.state = MapJobState(Last(RowsOfJob(job.id)).status)
  <2>1. Last(RowsOfJob(job.id)) = rows[n]
    BY <1>3, <1>5, <1>6 DEF Last
  <2>2. /\ job.state = "failed" <=> \E l \in 1 .. n : FailedRow(rows[l])
        /\ job.state # "failed" => job.state = MapJobState(rows[n].status)
    BY <1>7 DEF Tells
  <2> QED
    BY <1>6, <1>9, <1>10, <2>1, <2>2
<1>12. \A row \in ToSet(RowsOfJob(job.id)) : job.startedAt <= row.fetchTimestamp
  BY <1>3, <1>5, <1>6, <1>7 DEF Tells, ToSet
<1>13. /\ (job.finishedAt = NoValue) = (job.state \in Unfinished)
       /\ job.finishedAt # NoValue => job.startedAt <= job.finishedAt
  BY <1>7 DEF Tells
<1> QED
  BY <1>11, <1>12, <1>13 DEF JobTold

\* OperatorsSeeAll: the admin pages agree on the ledger, the comparison of pay
\* emphasises what does not add up, and the banner warns of failed jobs.
THEOREM OperatorsAreTold == OperationsSpec => []OperatorsSeeAll
<1>1. ASSUME OperationsInv PROVE OperatorsSeeAll
  <2>1. JobsListed
    <3>1. PICK jobs : jobs = GetAdminJobs /\ jobs = AdminJobsPage(TRUE)
      BY DEF AdminJobsPage
    <3>2. {job.id : job \in ToSet(jobs)} = {row.jobId : row \in ToSet(ledger)}
      <4>1. \A k \in DOMAIN jobs : \E i \in DOMAIN ledger : jobs[k].id = ledger[i].jobId
        BY <1>1, <3>1, AdminJobsAre
      <4>2. \A i \in DOMAIN ledger : \E k \in DOMAIN jobs : jobs[k].id = ledger[i].jobId
        BY <1>1, <3>1, AdminJobsAre
      <4> QED
        BY <4>1, <4>2 DEF ToSet
    <3>3. \A i, j \in DOMAIN jobs :
            i < j => jobs[i].id # jobs[j].id /\ jobs[i].startedAt >= jobs[j].startedAt
      BY <1>1, <3>1, AdminJobsAre
    <3> QED
      BY <3>1, <3>2, <3>3 DEF JobsListed
  <2>2. \A job \in ToSet(AdminJobsPage(TRUE)) : JobTold(job)
    BY <1>1, JobsAreTold DEF AdminJobsPage
  <2>3. ASSUME NEW id, NEW parser PROVE FailuresTraced(id, parser)
    <3>1. PICK list : list = GetFailedArtifacts(id, parser)
      OBVIOUS
    <3>2. \A k \in DOMAIN list : \E i \in FailedIn(id, parser) : Traces(list[k], ledger[i])
      BY <1>1, <3>1, FailedAre
    <3>3. \A failed \in ToSet(list) : \E row \in ToSet(AdminArtifactsPage(TRUE)) :
            row.jobId = failed.jobId /\ row.fetchTimestamp = failed.fetchTimestamp
      BY <3>2 DEF ToSet, FailedIn, Traces, AdminArtifactsPage
    <3>4. SumOf(Mapped(GetParserFailureSummary(id, parser), LAMBDA s : s.failures))
            = Len(GetFailedArtifacts(id, parser))
      BY <1>1, FailuresAddUp
    <3> QED
      BY <3>1, <3>3, <3>4 DEF FailuresTraced
  <2>4. MismatchesEmphasized
    BY <1>1, AllEmphasized
  <2>5. ASSUME snapshot # NoValue PROVE ~StatusBanner.healthy /\ StatusBanner.latest = Badge
    BY <1>1, <2>5, BannerWarns
  <2>6. AdminViewsAgree
    BY <2>1, <2>2, <2>3 DEF AdminViewsAgree
  <2> QED
    BY <2>4, <2>5, <2>6 DEF OperatorsSeeAll
<1> QED
  BY <1>1, OperationsInvHolds, PTL

------------------------------------------------------------------------------
(* The pay of an issuer's executives. *)

CompRows == [name: Names, year: Int, total: Int, accession: Nat, date: Int]

ProxyForms == {f \in Forms : f.form \in PROXY_CANDIDATES}

LEMMA ProxyIs ==
  ASSUME NEW f \in ProxyForms
  PROVE  /\ f.body \in Seq(HeaderRows \cup PayRows) /\ f.accession \in Nat /\ f.date \in Int
         /\ \A i \in DOMAIN f.body : f.body[i].header \/ IsFiniteSet(f.body[i].amounts)
<1>1. f.body \in ProxyTables /\ f.accession \in Nat /\ f.date \in Int
  BY DEF ProxyForms, Forms, Filings
<1>2. f.body \in Seq(HeaderRows \cup PayRows)
  BY <1>1, GovernanceAssumption
<1>3. \A row \in ToSet(f.body) : row.header \/ IsFiniteSet(row.amounts)
  BY <1>1, GovernanceAssumption
<1> QED
  BY <1>1, <1>2, <1>3 DEF ToSet

\* The least of some numbers, and the largest of finitely many.
LEMMA TheLeast ==
  ASSUME NEW S \in SUBSET Nat, S # {}
  PROVE  Min(S) \in S /\ \A m \in S : Min(S) <= m
<1>1. \E n \in S : \A m \in S : n <= m
  BY LeastNumber
<1> QED
  BY <1>1 DEF Min

LEMMA YearRead ==
  ASSUME NEW row \in PayRows, NEW filed \in Int
  PROVE  ParseYear(row, filed) \in Int \cup {NoValue}
<1>1. row.yearColumn \in Int \cup {NoValue} /\ row.years \in Seq(Int)
  BY DEF PayRows
<1>2. PICK those : those = {i \in DOMAIN row.years : row.years[i] \in filed - 6 .. filed - 1}
  OBVIOUS
<1>3. FirstWhere(row.years, LAMBDA y : y \in filed - 6 .. filed - 1)
        = IF those = {} THEN NoValue ELSE row.years[Min(those)]
  BY <1>2 DEF FirstWhere
<1>4. those # {} => row.years[Min(those)] \in Int
  <2>1. SUFFICES ASSUME those # {} PROVE row.years[Min(those)] \in Int
    OBVIOUS
  <2>2. those \in SUBSET Nat
    BY <1>1, <1>2
  <2>3. Min(those) \in those
    BY <2>1, <2>2, TheLeast
  <2> QED
    BY <1>1, <1>2, <2>3
<1> QED
  BY <1>1, <1>3, <1>4 DEF ParseYear

LEMMA AmountRead ==
  ASSUME NEW row \in PayRows, IsFiniteSet(row.amounts)
  PROVE  ParseMoney(row) \in Int \cup {NoValue}
<1>1. row.totalColumn \in Int \cup {NoValue} /\ row.amounts \in SUBSET Int
  BY DEF PayRows
<1>2. PICK large : large = {a \in row.amounts : a > MinTotal}
  OBVIOUS
<1>3. IsFiniteSet(large) /\ large \in SUBSET Int
  BY <1>1, <1>2, FS_Subset
<1>4. PICK most : most = CHOOSE a \in large : \A b \in large : b <= a
  OBVIOUS
<1>5. large # {} => most \in large
  <2>1. SUFFICES ASSUME large # {} PROVE most \in large
    OBVIOUS
  <2>2. \E a \in large : \A b \in large : b <= a
    BY <1>3, <2>1, LargestNumber
  <2> QED
    BY <1>4, <2>2
<1>6. ParseMoney(row) = IF row.totalColumn # NoValue /\ row.totalColumn > MinTotal THEN row.totalColumn
                        ELSE IF large = {} THEN NoValue ELSE most
  BY <1>2, <1>4 DEF ParseMoney
<1> QED
  BY <1>1, <1>3, <1>5, <1>6

\* A header begins a table; any other row is of the table above it, and stands
\* under the name in it or the one above.
LEMMA TableGrows ==
  ASSUME NEW rows, NEW i \in Nat \ {0}
  PROVE  /\ rows[i].header => TopOf(rows, i) = i /\ Person(rows, i) = NoValue
         /\ ~rows[i].header =>
              /\ TopOf(rows, i) = TopOf(rows, i - 1)
              /\ Person(rows, i) = IF rows[i].name \in Names THEN rows[i].name ELSE Person(rows, i - 1)
<1>1. ASSUME rows[i].header PROVE InTable(rows, i) = {}
  BY <1>1 DEF InTable
<1>2. ASSUME rows[i].header PROVE TopOf(rows, i) = i /\ Person(rows, i) = NoValue
  <2>1. Cardinality(InTable(rows, i)) = 0
    BY <1>1, <1>2, FS_EmptySet
  <2>2. Named(rows, i) = {}
    BY <1>1, <1>2 DEF Named
  <2> QED
    BY <2>1, <2>2 DEF TopOf, Person
<1>3. ASSUME ~rows[i].header
      PROVE  /\ InTable(rows, i) = InTable(rows, i - 1) \cup {i}
             /\ i \notin InTable(rows, i - 1) /\ InTable(rows, i - 1) \in SUBSET (1 .. i - 1)
  <2>1. \A j : j \in 1 .. i <=> j \in 1 .. i - 1 \/ j = i
    OBVIOUS
  <2>2. \A j \in 1 .. i - 1 : (\A k \in j .. i : ~rows[k].header) <=> \A k \in j .. i - 1 : ~rows[k].header
    <3>1. \A j \in 1 .. i - 1 : \A k : k \in j .. i <=> k \in j .. i - 1 \/ k = i
      OBVIOUS
    <3> QED
      BY <1>3, <3>1
  <2>3. \A k \in i .. i : k = i
    OBVIOUS
  <2> QED
    BY <1>3, <2>1, <2>2, <2>3 DEF InTable
<1>4. ASSUME ~rows[i].header PROVE TopOf(rows, i) = TopOf(rows, i - 1)
  <2>1. PICK T \in SUBSET (1 .. i - 1) : T = InTable(rows, i - 1)
    BY <1>3, <1>4
  <2>2. i - 1 \in Nat /\ i \notin T
    BY <2>1
  <2>3. IsFiniteSet(T) /\ Cardinality(T) \in Nat
    BY <2>2, RankGrows
  <2>4. Cardinality(T \cup {i}) = Cardinality(T) + 1
    BY <2>2, <2>3, FS_AddElement
  <2>5. InTable(rows, i) = T \cup {i}
    BY <1>3, <1>4, <2>1
  <2>6. PICK c \in Nat : c = Cardinality(T) /\ Cardinality(InTable(rows, i)) = c + 1
    BY <2>3, <2>4, <2>5
  <2>7. TopOf(rows, i) = IF c + 1 = i THEN 0 ELSE i - (c + 1)
    BY <2>6 DEF TopOf
  <2>8. TopOf(rows, i - 1) = IF c = i - 1 THEN 0 ELSE i - 1 - c
    BY <2>1, <2>6 DEF TopOf
  <2> QED
    BY <2>7, <2>8
<1>5. ASSUME ~rows[i].header
      PROVE  Person(rows, i) = IF rows[i].name \in Names THEN rows[i].name ELSE Person(rows, i - 1)
  <2>1. PICK T \in SUBSET (1 .. i - 1) : T = InTable(rows, i - 1)
    BY <1>3, <1>5
  <2>2. PICK N \in SUBSET (1 .. i - 1) : N = {j \in T : rows[j].name \in Names} /\ N = Named(rows, i - 1)
    BY <2>1 DEF Named
  <2>3. Named(rows, i) = IF rows[i].name \in Names THEN N \cup {i} ELSE N
    BY <1>3, <1>5, <2>1, <2>2 DEF Named
  <2>4. CASE rows[i].name \notin Names
    BY <2>2, <2>3, <2>4 DEF Person
  <2>5. CASE rows[i].name \in Names
    <3>1. PICK M : M = N \cup {i} /\ M = Named(rows, i)
      BY <2>3, <2>5
    <3>2. M \in SUBSET Nat /\ i \in M /\ \A k \in M : k <= i
      BY <3>1
    <3>3. PICK last : last = CHOOSE j \in M : \A k \in M : k <= j
      OBVIOUS
    <3>4. last = i
      BY <3>2, <3>3, TheLast
    <3>5. Person(rows, i) = rows[last].name
      BY <3>1, <3>2, <3>3 DEF Person
    <3> QED
      BY <2>5, <3>4, <3>5
  <2> QED
    BY <2>4, <2>5
<1> QED
  BY <1>2, <1>4, <1>5

InSummary(rows, n) == TopOf(rows, n) # 0 /\ rows[TopOf(rows, n)].summary

LEMMA NothingRead ==
  ASSUME NEW rows
  PROVE  TopOf(rows, 0) = 0 /\ Person(rows, 0) = NoValue /\ ~InSummary(rows, 0)
<1>1. InTable(rows, 0) = {}
  BY DEF InTable
<1>2. Cardinality(InTable(rows, 0)) = 0
  BY <1>1, FS_EmptySet
<1>3. Named(rows, 0) = {}
  BY <1>1 DEF Named
<1> QED
  BY <1>2, <1>3 DEF TopOf, Person, InSummary

\* The pay the first n rows tell of.
PayTold(f, i)  == /\ OfSummary(f.body, i) /\ PayOf(f, i).name \in Names \ Noise
                  /\ NoValue \notin {PayOf(f, i).year, PayOf(f, i).total}
PaidUpTo(f, n) == {PayOf(f, i) : i \in {j \in 1 .. n : PayTold(f, j)}}

ReadStates == [summary: BOOLEAN, name: Names \cup {NoValue}, out: Seq(CompRows)]
NoState    == [summary |-> FALSE, name |-> NoValue, out |-> <<>>]

\* What is known after the first n rows.
Reads(f, state, n) ==
  /\ state \in ReadStates
  /\ state.summary = InSummary(f.body, n)
  /\ state.name = IF state.summary THEN Person(f.body, n) ELSE NoValue
  /\ \A i \in DOMAIN state.out : state.out[i] \in PaidUpTo(f, n)
  /\ \A row \in PaidUpTo(f, n) : \E i \in DOMAIN state.out : state.out[i] = row

LEMMA PaidGrows ==
  ASSUME NEW f, NEW n \in Nat \ {0}
  PROVE  PaidUpTo(f, n) = IF PayTold(f, n) THEN PaidUpTo(f, n - 1) \cup {PayOf(f, n)}
                          ELSE PaidUpTo(f, n - 1)
<1>1. \A j : j \in 1 .. n <=> j \in 1 .. n - 1 \/ j = n
  OBVIOUS
<1> QED
  BY <1>1 DEF PaidUpTo

\* A row appended to what was read of the rows before it.
LEMMA PaidRead ==
  ASSUME NEW out \in Seq(CompRows), NEW row \in CompRows, NEW S,
         \A i \in DOMAIN out : out[i] \in S,
         \A r \in S : \E i \in DOMAIN out : out[i] = r
  PROVE  LET new == Append(out, row)
         IN  /\ new \in Seq(CompRows) /\ \A i \in DOMAIN new : new[i] \in S \cup {row}
             /\ \A r \in S \cup {row} : \E i \in DOMAIN new : new[i] = r
<1>1. PICK n \in Nat : n = Len(out) /\ DOMAIN out = 1 .. n
  OBVIOUS
<1>2. PICK new : new = Append(out, row)
  OBVIOUS
<1>3. /\ new \in Seq(CompRows) /\ DOMAIN new = 1 .. n + 1 /\ new[n + 1] = row
      /\ \A i \in 1 .. n : new[i] = out[i]
  BY <1>1, <1>2
<1>4. \A i \in 1 .. n + 1 : i \in 1 .. n \/ i = n + 1
  OBVIOUS
<1>5. \A i \in DOMAIN new : new[i] \in S \cup {row}
  BY <1>1, <1>3, <1>4
<1>6. ASSUME NEW r \in S \cup {row} PROVE \E i \in DOMAIN new : new[i] = r
  <2>1. CASE r = row
    BY <1>3, <2>1
  <2>2. CASE r \in S
    <3>1. PICK i \in 1 .. n : out[i] = r
      BY <1>1, <2>2
    <3>2. i \in DOMAIN new
      BY <1>3
    <3> QED
      BY <1>3, <3>1, <3>2
  <2> QED
    BY <2>1, <2>2
<1> QED
  BY <1>2, <1>3, <1>5, <1>6

LEMMA RowRead ==
  ASSUME NEW f \in ProxyForms, NEW n \in DOMAIN f.body, NEW state, Reads(f, state, n - 1)
  PROVE  Reads(f, ReadRow(f, state, f.body[n]), n)
<1>1. PICK rows, row : rows = f.body /\ row = rows[n]
  OBVIOUS
<1>2. /\ rows \in Seq(HeaderRows \cup PayRows) /\ n \in Nat \ {0} /\ f.accession \in Nat /\ f.date \in Int
      /\ \A i \in DOMAIN rows : rows[i].header \/ IsFiniteSet(rows[i].amounts)
  BY <1>1, ProxyIs
<1>3. row \in HeaderRows \/ row \in PayRows
  BY <1>1, <1>2
<1>4. row.header \in BOOLEAN /\ row.summary \in BOOLEAN /\ (~row.header => row \in PayRows)
  BY <1>3 DEF HeaderRows, PayRows
<1>5. PICK sum \in BOOLEAN, name \in Names \cup {NoValue}, out \in Seq(CompRows) :
        state = [summary |-> sum, name |-> name, out |-> out]
  BY DEF Reads, ReadStates
<1>6. /\ sum = InSummary(rows, n - 1)
      /\ name = IF sum THEN Person(rows, n - 1) ELSE NoValue
      /\ \A i \in DOMAIN out : out[i] \in PaidUpTo(f, n - 1)
      /\ \A r \in PaidUpTo(f, n - 1) : \E i \in DOMAIN out : out[i] = r
  BY <1>1, <1>5 DEF Reads
<1>7. NoValue \notin Names
  BY GovernanceAssumption
<1>8. CASE row.header
  <2>1. PICK new : new = ReadRow(f, state, row)
    OBVIOUS
  <2>2. new = [summary |-> row.summary, name |-> NoValue, out |-> out]
    BY <1>5, <1>8, <2>1 DEF ReadRow
  <2>3. TopOf(rows, n) = n /\ Person(rows, n) = NoValue
    BY <1>1, <1>2, <1>8, TableGrows
  <2>4. row.summary = InSummary(rows, n)
    BY <1>1, <1>2, <1>4, <2>3 DEF InSummary
  <2>5. ~PayTold(f, n)
    BY <1>1, <1>8 DEF PayTold, OfSummary
  <2>6. PaidUpTo(f, n) = PaidUpTo(f, n - 1)
    BY <1>2, <2>5, PaidGrows
  <2>7. Reads(f, new, n)
    BY <1>1, <1>4, <1>6, <2>2, <2>3, <2>4, <2>6 DEF Reads, ReadStates
  <2> QED
    BY <1>1, <2>1, <2>7
<1>9. CASE ~row.header /\ ~sum
  <2>1. ReadRow(f, state, row) = state
    BY <1>5, <1>9 DEF ReadRow
  <2>2. TopOf(rows, n) = TopOf(rows, n - 1)
    BY <1>1, <1>2, <1>9, TableGrows
  <2>3. ~InSummary(rows, n)
    BY <1>6, <1>9, <2>2 DEF InSummary
  <2>4. ~PayTold(f, n)
    BY <1>1, <2>3 DEF PayTold, OfSummary, InSummary
  <2>5. PaidUpTo(f, n) = PaidUpTo(f, n - 1)
    BY <1>2, <2>4, PaidGrows
  <2>6. state \in ReadStates /\ state.summary = InSummary(rows, n)
    <3>1. state \in ReadStates /\ state.summary = InSummary(rows, n - 1)
      BY <1>1 DEF Reads
    <3>2. InSummary(rows, n) = InSummary(rows, n - 1)
      BY <2>2 DEF InSummary
    <3> QED
      BY <3>1, <3>2
  <2>7. state.name = IF state.summary THEN Person(rows, n) ELSE NoValue
    BY <1>5, <1>6, <1>9
  <2>8. state.out = out
    BY <1>5
  <2>9. Reads(f, state, n)
    BY <1>1, <1>6, <2>5, <2>6, <2>7, <2>8 DEF Reads
  <2> QED
    BY <1>1, <2>1, <2>9
<1>10. CASE ~row.header /\ sum
  <2>1. PICK person : person = Person(rows, n)
    OBVIOUS
  <2>2. /\ TopOf(rows, n) = TopOf(rows, n - 1)
        /\ person = IF row.name \in Names THEN row.name ELSE Person(rows, n - 1)
    BY <1>1, <1>2, <1>10, <2>1, TableGrows
  <2>3. InSummary(rows, n)
    BY <1>6, <1>10, <2>2 DEF InSummary
  <2>4. person \in Names \cup {NoValue}
    BY <1>6, <1>10, <2>2
  <2>5. PICK year \in Int \cup {NoValue} : year = ParseYear(row, f.date)
    BY <1>2, <1>4, <1>10, YearRead
  <2>6. PICK total \in Int \cup {NoValue} : total = ParseMoney(row)
    <3>1. IsFiniteSet(row.amounts) /\ row \in PayRows
      BY <1>1, <1>2, <1>4, <1>10
    <3> QED
      BY <3>1, AmountRead
  <2>7. PICK pay : pay = [name |-> person, year |-> year, total |-> total,
                          accession |-> f.accession, date |-> f.date]
    OBVIOUS
  <2>8. PayOf(f, n) = pay
    BY <1>1, <2>1, <2>5, <2>6, <2>7 DEF PayOf
  <2>9. PayTold(f, n) <=> row.name # "label" /\ person \in Names \ Noise /\ NoValue \notin {year, total}
    <3>1. OfSummary(rows, n) <=> row.name # "label"
      BY <1>1, <1>10, <2>3 DEF OfSummary, InSummary
    <3> QED
      BY <1>1, <2>7, <2>8, <3>1 DEF PayTold
  <2>10. PICK named : named = [summary |-> sum, name |-> person, out |-> out]
    OBVIOUS
  <2>11. PICK new : new = ReadRow(f, state, row)
    OBVIOUS
  <2>12. PICK found : found = ExtractLikelyPersonName(row)
    OBVIOUS
  <2>13. found = (IF row.name \in Names THEN row.name ELSE NoValue)
    BY <2>12 DEF ExtractLikelyPersonName
  <2>14. PICK kept : kept = IF found # NoValue THEN found ELSE name
    OBVIOUS
  <2>15. kept = person
    BY <1>6, <1>7, <1>10, <2>2, <2>13, <2>14
  <2>16. [state EXCEPT !.name = IF found # NoValue THEN found ELSE @] = named
    <3>1. [state EXCEPT !.name = IF found # NoValue THEN found ELSE @] = [state EXCEPT !.name = kept]
      BY <1>5, <2>14
    <3> QED
      BY <1>5, <2>10, <2>15, <3>1
  <2>17. PICK shown : shown = IF row.name = "label" THEN NoValue ELSE person
    OBVIOUS
  <2>18. PICK told : told = [name |-> shown, year |-> year, total |-> total,
                            accession |-> f.accession, date |-> f.date]
    OBVIOUS
  <2>19. named.name = person
    BY <2>10
  <2>20. new = IF ~LooksLikeExecutiveName(shown) \/ NoValue \in {year, total} THEN named
               ELSE [named EXCEPT !.out = Append(@, told)]
    BY <1>5, <1>10, <2>5, <2>6, <2>11, <2>12, <2>16, <2>17, <2>18, <2>19 DEF ReadRow
  <2>21. PayTold(f, n) <=> ~(~LooksLikeExecutiveName(shown) \/ NoValue \in {year, total})
    BY <1>7, <2>9, <2>17 DEF LooksLikeExecutiveName
  <2>22. PayTold(f, n) => told = pay
    BY <2>7, <2>9, <2>17, <2>18
  <2>23. [named EXCEPT !.out = Append(@, told)] = [summary |-> sum, name |-> person, out |-> Append(out, told)]
    <3>1. PICK more : more = Append(out, told)
      OBVIOUS
    <3>2. Append(named.out, told) = more
      BY <2>10, <3>1
    <3>3. [named EXCEPT !.out = Append(@, told)] = [named EXCEPT !.out = more]
      BY <2>10, <3>2
    <3>4. [named EXCEPT !.out = more] = [summary |-> sum, name |-> person, out |-> more]
      BY <2>10
    <3> QED
      BY <3>1, <3>3, <3>4
  <2>24. new = IF PayTold(f, n) THEN [summary |-> sum, name |-> person, out |-> Append(out, pay)] ELSE named
    BY <2>20, <2>21, <2>22, <2>23
  <2>25. PICK S : S = PaidUpTo(f, n - 1)
    OBVIOUS
  <2>26. CASE ~PayTold(f, n)
    <3>1. PaidUpTo(f, n) = PaidUpTo(f, n - 1)
      BY <1>2, <2>26, PaidGrows
    <3>2. Reads(f, named, n)
      BY <1>1, <1>6, <1>10, <2>1, <2>3, <2>4, <2>10, <3>1 DEF Reads, ReadStates
    <3> QED
      BY <1>1, <2>11, <2>24, <2>26, <3>2
  <2>27. CASE PayTold(f, n)
    <3>1. PaidUpTo(f, n) = S \cup {pay}
      BY <1>2, <2>8, <2>25, <2>27, PaidGrows
    <3>2. pay \in CompRows
      BY <1>2, <2>7, <2>9, <2>27 DEF CompRows
    <3>3. PICK longer : longer = Append(out, pay)
      OBVIOUS
    <3>4. /\ longer \in Seq(CompRows) /\ \A i \in DOMAIN longer : longer[i] \in S \cup {pay}
          /\ \A r \in S \cup {pay} : \E i \in DOMAIN longer : longer[i] = r
      <4>1. /\ \A i \in DOMAIN out : out[i] \in S
            /\ \A r \in S : \E i \in DOMAIN out : out[i] = r
        BY <1>6, <2>25
      <4> QED
        BY <3>2, <3>3, <4>1, PaidRead
    <3>5. new = [summary |-> sum, name |-> person, out |-> longer]
      BY <2>24, <2>27, <3>3
    <3>6. Reads(f, new, n)
      BY <1>1, <1>10, <2>1, <2>3, <2>4, <3>1, <3>4, <3>5 DEF Reads, ReadStates
    <3> QED
      BY <1>1, <2>11, <3>6
  <2> QED
    BY <2>26, <2>27
<1> QED
  BY <1>4, <1>8, <1>9, <1>10

ReadsTo(f, read, n) ==
  read = [k \in 0 .. n |-> IF k = 0 THEN NoState ELSE ReadRow(f, read[k - 1], f.body[k])]

LEMMA ReadsExist ==
  ASSUME NEW f, NEW n \in Nat
  PROVE  \E read : ReadsTo(f, read, n)
<1> DEFINE S == {k \in 0 .. n : \E read : ReadsTo(f, read, k)}
<1>1. 0 \in S
  <2>1. PICK read : read = [k \in {0} |-> NoState]
    OBVIOUS
  <2>2. 0 .. 0 = {0}
    OBVIOUS
  <2>3. ReadsTo(f, read, 0)
    BY <2>1, <2>2 DEF ReadsTo
  <2> QED
    BY <2>3
<1>2. ASSUME NEW k \in 1 .. n, k - 1 \in S PROVE k \in S
  <2>1. PICK read : ReadsTo(f, read, k - 1)
    BY <1>2
  <2>2. PICK new : new = [i \in 0 .. k |-> IF i = k THEN ReadRow(f, read[k - 1], f.body[k]) ELSE read[i]]
    OBVIOUS
  <2>3. \A i \in 0 .. k - 1 : read[i] = IF i = 0 THEN NoState ELSE ReadRow(f, read[i - 1], f.body[i])
    BY <2>1 DEF ReadsTo
  <2>4. \A i \in 0 .. k : new[i] = IF i = 0 THEN NoState ELSE ReadRow(f, new[i - 1], f.body[i])
    <3> SUFFICES ASSUME NEW i \in 0 .. k
                 PROVE  new[i] = IF i = 0 THEN NoState ELSE ReadRow(f, new[i - 1], f.body[i])
      OBVIOUS
    <3>1. i # 0 => new[i - 1] = read[i - 1]
      BY <1>2, <2>2
    <3>2. i # k => i \in 0 .. k - 1 /\ new[i] = read[i]
      BY <1>2, <2>2
    <3>3. CASE i = k
      BY <1>2, <2>2, <3>1, <3>3
    <3>4. CASE i # k
      BY <2>3, <3>1, <3>2, <3>4
    <3> QED
      BY <3>3, <3>4
  <2>5. ReadsTo(f, new, k)
    BY <2>2, <2>4 DEF ReadsTo
  <2> QED
    BY <1>2, <2>5
<1> HIDE DEF S
<1>3. 0 .. n \subseteq S
  BY <1>1, <1>2, UpTo
<1>4. n \in S
  BY <1>3
<1> QED
  BY <1>4 DEF S

\* The rows of a table, all of them read.
LEMMA TableRead ==
  ASSUME NEW f \in ProxyForms
  PROVE  \E state : /\ Reads(f, state, Len(f.body))
                    /\ ParseProxy(f) = UniqueRows(state.out)
<1>1. PICK n \in Nat : n = Len(f.body) /\ DOMAIN f.body = 1 .. n
  BY ProxyIs
<1>2. PICK read : read = CHOOSE g : ReadsTo(f, g, n)
  OBVIOUS
<1>3. ReadsTo(f, read, n)
  BY <1>2, ReadsExist
<1>4. ParseProxy(f) = UniqueRows(read[n].out)
  BY <1>1, <1>2 DEF ParseProxy, ReadsTo, NoState
<1>5. read[0] = NoState /\ \A k \in 1 .. n : read[k] = ReadRow(f, read[k - 1], f.body[k])
  BY <1>1, <1>3 DEF ReadsTo
<1> DEFINE S == {k \in 0 .. n : Reads(f, read[k], k)}
<1>6. 0 \in S
  <2>1. PaidUpTo(f, 0) = {}
    BY DEF PaidUpTo
  <2>2. NoState \in ReadStates /\ NoState.summary = FALSE /\ NoState.name = NoValue /\ NoState.out = <<>>
    <3>1. <<>> \in Seq(CompRows)
      OBVIOUS
    <3> QED
      BY <3>1 DEF NoState, ReadStates
  <2>3. InSummary(f.body, 0) = FALSE
    <3>1. ~InSummary(f.body, 0)
      BY NothingRead
    <3>2. InSummary(f.body, 0) \in BOOLEAN
      BY DEF InSummary
    <3> QED
      BY <3>1, <3>2
  <2>4. DOMAIN NoState.out = {}
    BY <2>2
  <2>5. Reads(f, NoState, 0)
    BY <2>1, <2>2, <2>3, <2>4 DEF Reads
  <2> QED
    BY <1>1, <1>5, <2>5
<1>7. ASSUME NEW k \in 1 .. n, k - 1 \in S PROVE k \in S
  <2>1. Reads(f, read[k - 1], k - 1) /\ k \in DOMAIN f.body
    BY <1>1, <1>7
  <2>2. Reads(f, ReadRow(f, read[k - 1], f.body[k]), k)
    BY <2>1, RowRead
  <2> QED
    BY <1>5, <2>2
<1> HIDE DEF S
<1>8. 0 .. n \subseteq S
  BY <1>6, <1>7, UpTo
<1>9. n \in S
  BY <1>1, <1>8
<1> QED
  BY <1>1, <1>4, <1>9 DEF S

\* The pay a proxy tells of: none is lost among those that look alike.
ProxyPay(f) == {r \in CompRows : r.accession = f.accession /\ r.date = f.date}

LEMMA ProxyParsed ==
  ASSUME NEW f \in ProxyForms
  PROVE  ParseProxy(f) \in Seq(ProxyPay(f)) /\ ToSet(ParseProxy(f)) = PaidUpTo(f, Len(f.body))
<1>1. PICK state : Reads(f, state, Len(f.body)) /\ ParseProxy(f) = UniqueRows(state.out)
  BY TableRead
<1>2. PICK out, S : out = state.out /\ S = PaidUpTo(f, Len(f.body))
  OBVIOUS
<1>3. /\ out \in Seq(CompRows)
      /\ \A i \in DOMAIN out : out[i] \in S
      /\ \A r \in S : \E i \in DOMAIN out : out[i] = r
  BY <1>1, <1>2 DEF Reads, ReadStates
<1>4. PICK n \in Nat : n = Len(out) /\ DOMAIN out = 1 .. n
  BY <1>3
<1>5. \A r \in S : r.accession = f.accession /\ r.date = f.date
  <2>1. \A i : PayOf(f, i).accession = f.accession /\ PayOf(f, i).date = f.date
    BY DEF PayOf
  <2> QED
    BY <1>2, <2>1 DEF PaidUpTo
<1>6. out \in Seq(ProxyPay(f))
  <2>1. \A i \in 1 .. n : out[i] \in CompRows /\ out[i] \in S
    BY <1>3, <1>4
  <2>2. \A i \in 1 .. n : out[i] \in ProxyPay(f)
    BY <1>5, <2>1 DEF ProxyPay
  <2> QED
    BY <1>3, <1>4, <2>2
<1>7. PICK keys : keys = [i \in 1 .. n |-> <<out[i].name, out[i].year, out[i].total, out[i].accession>>]
  OBVIOUS
<1>8. PICK E : E = FirstsOf(keys, n)
  OBVIOUS
<1>9. /\ E \in SUBSET (1 .. n)
      /\ \A i \in 1 .. n : \E j \in E : keys[j] = keys[i]
  BY <1>8, FirstsAre
<1>10. ParseProxy(f) = AtPositions(out, E)
  <2>1. ParseProxy(f) = AtPositions(out, {i \in DOMAIN out : \A j \in 1 .. i - 1 :
           <<out[j].name, out[j].year, out[j].total, out[j].accession>>
             # <<out[i].name, out[i].year, out[i].total, out[i].accession>>})
    BY <1>1, <1>2 DEF UniqueRows, FirstOfEach
  <2>2. {i \in DOMAIN out : \A j \in 1 .. i - 1 :
           <<out[j].name, out[j].year, out[j].total, out[j].accession>>
             # <<out[i].name, out[i].year, out[i].total, out[i].accession>>} = E
    <3>1. \A i \in 1 .. n : \A j \in 1 .. i - 1 : j \in 1 .. n
      OBVIOUS
    <3> QED
      BY <1>4, <1>7, <1>8, <3>1 DEF FirstsOf
  <2> QED
    BY <2>1, <2>2
<1>11. PICK rows : rows = AtPositions(out, E)
  OBVIOUS
<1>12. /\ rows \in Seq(ProxyPay(f)) /\ DOMAIN rows = 1 .. Cardinality(E)
       /\ \A k \in 1 .. Cardinality(E) : Nth(E, k) \in E /\ rows[k] = out[Nth(E, k)]
  <2>1. E \in SUBSET DOMAIN out
    BY <1>4, <1>9
  <2> QED
    BY <1>6, <1>11, <2>1, SelectedList
<1>13. \A i \in E : \E k \in 1 .. Cardinality(E) : Nth(E, k) = i
  BY <1>4, <1>9, Positions
<1>14. \A i, j \in 1 .. n : keys[i] = keys[j] => out[i] = out[j]
  <2> SUFFICES ASSUME NEW i \in 1 .. n, NEW j \in 1 .. n, keys[i] = keys[j] PROVE out[i] = out[j]
    OBVIOUS
  <2>1. out[i] \in CompRows /\ out[j] \in CompRows /\ out[i].date = f.date /\ out[j].date = f.date
    BY <1>4, <1>6 DEF ProxyPay
  <2>2. /\ out[i].name = out[j].name /\ out[i].year = out[j].year
        /\ out[i].total = out[j].total /\ out[i].accession = out[j].accession
    BY <1>7
  <2> QED
    BY <2>1, <2>2 DEF CompRows
<1>15. \A k \in DOMAIN rows : rows[k] \in S
  BY <1>3, <1>4, <1>9, <1>12
<1>16. ASSUME NEW r \in S PROVE \E k \in DOMAIN rows : rows[k] = r
  <2>1. PICK i \in 1 .. n : out[i] = r
    BY <1>3, <1>4
  <2>2. PICK j \in E : keys[j] = keys[i]
    BY <1>9
  <2>3. out[j] = r
    BY <1>9, <1>14, <2>1, <2>2
  <2>4. PICK k \in 1 .. Cardinality(E) : Nth(E, k) = j
    BY <1>13
  <2> QED
    BY <1>12, <2>3, <2>4
<1>17. ToSet(rows) = S
  BY <1>15, <1>16 DEF ToSet
<1> QED
  BY <1>2, <1>10, <1>11, <1>12, <1>17

LEMMA RowsAttributed ==
  ASSUME NEW f \in ProxyForms
  PROVE  ToSet(ParseProxy(f)) =
           {row \in {PayOf(f, i) : i \in {j \in DOMAIN f.body : OfSummary(f.body, j)}} :
              row.name \in Names \ Noise /\ NoValue \notin {row.year, row.total}}
<1>1. DOMAIN f.body = 1 .. Len(f.body)
  BY ProxyIs
<1>2. PaidUpTo(f, Len(f.body)) =
        {row \in {PayOf(f, i) : i \in {j \in DOMAIN f.body : OfSummary(f.body, j)}} :
           row.name \in Names \ Noise /\ NoValue \notin {row.year, row.total}}
  BY <1>1 DEF PaidUpTo, PayTold
<1> QED
  BY <1>2, ProxyParsed

\* To flatten some of the lists is to select what is theirs of the list flattened.
FlatOf(lists, E) == {k \in DOMAIN Flat(lists) : Origin(lists)[k][1] \in E}

LEMMA FlatPart ==
  ASSUME NEW A, NEW lists \in Seq(Seq(A)), NEW E \in SUBSET DOMAIN lists
  PROVE  /\ FlatOf(lists, E) \in SUBSET DOMAIN Flat(lists)
         /\ Flat(AtPositions(lists, E)) = AtPositions(Flat(lists), FlatOf(lists, E))
<1>1. PICK part : part = AtPositions(lists, E)
  OBVIOUS
<1>2. PICK n \in Nat : n = Len(lists) /\ DOMAIN lists = 1 .. n
  OBVIOUS
<1>3. E \in SUBSET (1 .. n)
  BY <1>2
<1>4. PICK e \in Nat : e = Cardinality(E)
  BY <1>3, RankGrows
<1>5. /\ DOMAIN part = 1 .. e
      /\ \A k \in 1 .. e : Nth(E, k) \in E /\ part[k] = lists[Nth(E, k)]
      /\ \A i \in E : \E k \in 1 .. e : Nth(E, k) = i
      /\ \A j, k \in 1 .. e : Nth(E, j) = Nth(E, k) => j = k
  BY <1>1, <1>3, <1>4, Positions
<1>6. \A j, k \in 1 .. e : j < k <=> Nth(E, j) < Nth(E, k)
  BY <1>3, <1>4, NthGrows
<1>7. part \in Seq(Seq(A))
  BY <1>1, PartCount
<1>8. PICK S, R, T, Q : /\ S = Spots(lists) /\ R = ListByList(lists)
                        /\ T = Spots(part) /\ Q = ListByList(part)
  OBVIOUS
<1>9. IsFiniteSet(S) /\ TotalOn(S, R)
  BY <1>8, SpotsOrdered
<1>10. PICK D \in SUBSET S : D = {p \in S : p[1] \in E}
  OBVIOUS
<1>11. IsFiniteSet(D) /\ TotalOn(D, R)
  BY <1>9, FS_Subset DEF TotalOn
<1>12. \A p \in T : /\ p = <<p[1], p[2]>> /\ p[1] \in 1 .. e /\ p[2] \in DOMAIN lists[Nth(E, p[1])]
                    /\ Nth(E, p[1]) \in E /\ part[p[1]] = lists[Nth(E, p[1])]
  <2>1. \A p \in T : p = <<p[1], p[2]>> /\ p[1] \in DOMAIN part /\ p[2] \in DOMAIN part[p[1]]
    BY <1>7, <1>8, SpotIs
  <2> QED
    BY <1>5, <2>1
<1>13. \A p \in S : p = <<p[1], p[2]>> /\ p[1] \in 1 .. n /\ p[2] \in DOMAIN lists[p[1]]
  BY <1>2, <1>8, SpotIs
<1>14. PICK h : h = [p \in T |-> <<Nth(E, p[1]), p[2]>>]
  OBVIOUS
<1>15. h \in [T -> D] /\ \A p \in T : h[p] = <<Nth(E, p[1]), p[2]>>
  <2>1. ASSUME NEW p \in T PROVE <<Nth(E, p[1]), p[2]>> \in D
    <3>1. Nth(E, p[1]) \in DOMAIN lists /\ p[2] \in DOMAIN lists[Nth(E, p[1])]
      BY <1>12
    <3>2. <<Nth(E, p[1]), p[2]>> \in S
      BY <1>8, <3>1, SpotIs
    <3> QED
      BY <1>10, <1>12, <3>2
  <2> QED
    BY <1>14, <2>1
<1>16. \A p, q \in T : h[p] = h[q] => p = q
  <2> SUFFICES ASSUME NEW p \in T, NEW q \in T, h[p] = h[q] PROVE p = q
    OBVIOUS
  <2>1. Nth(E, p[1]) = Nth(E, q[1]) /\ p[2] = q[2]
    BY <1>15
  <2>2. p[1] = q[1]
    BY <1>5, <1>12, <2>1
  <2> QED
    BY <1>12, <2>1, <2>2
<1>17. ASSUME NEW d \in D PROVE \E p \in T : h[p] = d
  <2>1. d = <<d[1], d[2]>> /\ d[2] \in DOMAIN lists[d[1]] /\ d[1] \in E
    BY <1>10, <1>13
  <2>2. PICK k \in 1 .. e : Nth(E, k) = d[1]
    BY <1>5, <2>1
  <2>3. k \in DOMAIN part /\ d[2] \in DOMAIN part[k]
    BY <1>5, <2>1, <2>2
  <2>4. <<k, d[2]>> \in T
    BY <1>7, <1>8, <2>3, SpotIs
  <2>5. h[<<k, d[2]>>] = d
    BY <1>15, <2>1, <2>2, <2>4
  <2> QED
    BY <2>4, <2>5
<1>18. ASSUME NEW p \in T, NEW q \in T PROVE <<p, q>> \in Q <=> <<h[p], h[q]>> \in R
  <2>1. <<p, q>> \in Q <=> p[1] < q[1] \/ (p[1] = q[1] /\ p[2] < q[2])
    BY <1>8 DEF ListByList
  <2>2. h[p] \in S /\ h[q] \in S
    BY <1>15
  <2>3. <<h[p], h[q]>> \in R <=> h[p][1] < h[q][1] \/ (h[p][1] = h[q][1] /\ h[p][2] < h[q][2])
    BY <1>8, <2>2 DEF ListByList
  <2>4. h[p][1] = Nth(E, p[1]) /\ h[p][2] = p[2] /\ h[q][1] = Nth(E, q[1]) /\ h[q][2] = q[2]
    BY <1>15
  <2>5. /\ p[1] < q[1] <=> Nth(E, p[1]) < Nth(E, q[1])
        /\ p[1] = q[1] <=> Nth(E, p[1]) = Nth(E, q[1])
    BY <1>5, <1>6, <1>12
  <2> QED
    BY <2>1, <2>3, <2>4, <2>5
<1>19. PICK o, oT : o = Arranged(S, R) /\ oT = Arranged(T, Q)
  OBVIOUS
<1>20. PICK m \in Nat : m = Cardinality(S)
  BY <1>9, FS_CardinalityType
<1>21. PICK K : K = {k \in 1 .. m : o[k] \in D}
  OBVIOUS
<1>22. Cardinality(K) = Cardinality(D) /\ AtPositions(o, K) = Arranged(D, R)
  BY <1>9, <1>19, <1>20, <1>21, ArrangedPart
<1>23. PICK c \in Nat : c = Cardinality(D)
  BY <1>11, FS_CardinalityType
<1>24. /\ IsFiniteSet(T) /\ TotalOn(T, Q) /\ Cardinality(T) = c
       /\ \A k \in 1 .. c : oT[k] \in T /\ h[oT[k]] = Arranged(D, R)[k]
  BY <1>11, <1>15, <1>16, <1>17, <1>18, <1>19, <1>23, ArrangedImage
<1>25. o \in [1 .. m -> S] /\ DOMAIN o = 1 .. m
  BY <1>9, <1>19, <1>20, ArrangedIs
<1>26. DOMAIN oT = 1 .. c
  BY <1>19, <1>24, ArrangedIs
<1>27. PICK flat : flat = Flat(lists)
  OBVIOUS
<1>28. flat = [k \in 1 .. m |-> lists[o[k][1]][o[k][2]]]
  BY <1>8, <1>19, <1>25, <1>27 DEF Flat
<1>29. Flat(part) = [k \in 1 .. c |-> part[oT[k][1]][oT[k][2]]]
  BY <1>8, <1>19, <1>26 DEF Flat
<1>30. FlatOf(lists, E) = K /\ K \in SUBSET (1 .. m) /\ DOMAIN flat = 1 .. m
  <2>1. \A k \in 1 .. m : o[k] \in D <=> o[k][1] \in E
    BY <1>10, <1>25
  <2>2. Origin(lists) = o
    BY <1>8, <1>19 DEF Origin
  <2> QED
    BY <1>21, <1>27, <1>28, <2>1, <2>2 DEF FlatOf
<1>31. ASSUME NEW k \in 1 .. c PROVE part[oT[k][1]][oT[k][2]] = flat[Nth(K, k)]
  <2>1. PICK p \in T : p = oT[k] /\ h[p] = Arranged(D, R)[k]
    BY <1>24
  <2>2. k \in 1 .. Cardinality(K)
    BY <1>22, <1>23
  <2>3. Nth(K, k) \in K /\ AtPositions(o, K)[k] = o[Nth(K, k)]
    BY <1>30, <2>2, Positions
  <2>4. PICK i \in 1 .. m : i = Nth(K, k) /\ o[i] = h[p]
    BY <1>22, <1>30, <2>1, <2>3
  <2>5. flat[i] = lists[h[p][1]][h[p][2]]
    BY <1>28, <2>4
  <2>6. part[p[1]][p[2]] = lists[Nth(E, p[1])][p[2]]
    BY <1>12
  <2> QED
    BY <1>15, <2>1, <2>4, <2>5, <2>6
<1>32. AtPositions(flat, K) = [k \in 1 .. c |-> flat[Nth(K, k)]]
  BY <1>22, <1>23 DEF AtPositions
<1>33. Flat(part) = AtPositions(flat, K)
  BY <1>29, <1>31, <1>32
<1> QED
  BY <1>1, <1>27, <1>30, <1>33

\* The history is made of the rows no other of their executive and year is later
\* than, nor as late and before.
SameYear(a, b) == a.name = b.name /\ a.year = b.year
Tops(rows) == {i \in DOMAIN rows : \A j \in DOMAIN rows : SameYear(rows[j], rows[i]) =>
                 rows[j].date <= rows[i].date /\ (j < i => rows[j].date < rows[i].date)}
PointOf(rows, e) ==
  Kept(rows, {i \in DOMAIN rows : <<rows[i].name, rows[i].year>> = e},
       LAMBDA best, row : IF row.date > best.date THEN row ELSE best)

LEMMA PointIs ==
  ASSUME NEW rows \in Seq(CompRows), NEW r \in DOMAIN rows
  PROVE  \E t \in Tops(rows) : /\ SameYear(rows[t], rows[r])
                               /\ PointOf(rows, <<rows[r].name, rows[r].year>>) = rows[t]
<1>1. PICK n \in Nat : n = Len(rows) /\ DOMAIN rows = 1 .. n
  OBVIOUS
<1>2. \A i \in 1 .. n : rows[i].date \in Int
  <2>1. \A i \in 1 .. n : rows[i] \in CompRows
    BY <1>1
  <2> QED
    BY <2>1 DEF CompRows
<1>3. PICK E \in SUBSET (1 .. n) : E = {i \in 1 .. n : SameYear(rows[i], rows[r])}
  OBVIOUS
<1>4. PICK f : f = [i \in E |-> rows[i].date]
  OBVIOUS
<1>5. PICK M : M = {i \in E : \A j \in E : f[j] <= f[i]}
  OBVIOUS
<1>6. M # {} /\ M \in SUBSET Nat
  <2>1. f \in [E -> Int] /\ E # {}
    BY <1>1, <1>2, <1>3, <1>4 DEF SameYear
  <2>2. PICK i \in E : \A j \in E : f[j] <= f[i]
    BY <2>1, LargestOf
  <2>3. i \in M
    BY <1>5, <2>2
  <2>4. M \subseteq E
    BY <1>5
  <2> QED
    BY <2>3, <2>4
<1>7. PICK t \in M : t = Min(M) /\ \A m \in M : t <= m
  BY <1>6, TheLeast
<1>8. t \in 1 .. n /\ SameYear(rows[t], rows[r]) /\ \A j \in E : rows[j].date <= rows[t].date
  BY <1>3, <1>4, <1>5
<1>9. ASSUME NEW j \in E, j < t PROVE rows[j].date < rows[t].date
  <2>1. j \notin M
    BY <1>6, <1>7, <1>9
  <2>2. PICK k \in E : ~(rows[k].date <= rows[j].date)
    BY <1>4, <1>5, <2>1
  <2>3. rows[k].date \in Int /\ rows[j].date \in Int /\ rows[t].date \in Int
    BY <1>2, <1>8
  <2>4. rows[k].date <= rows[t].date
    BY <1>8
  <2> QED
    BY <2>2, <2>3, <2>4
<1>10. t \in Tops(rows)
  <2>1. \A j \in 1 .. n : SameYear(rows[j], rows[t]) => j \in E
    BY <1>3, <1>8 DEF SameYear
  <2> QED
    BY <1>1, <1>8, <1>9, <2>1 DEF Tops
<1>11. {i \in 1 .. n : <<rows[i].name, rows[i].year>> = <<rows[r].name, rows[r].year>>} = E
  BY <1>3 DEF SameYear
<1>12. {i \in E : \A j \in E : (IF rows[j].date > rows[i].date THEN rows[j] ELSE rows[i]) = rows[i]} = M
  <2>1. ASSUME NEW i \in E, NEW j \in E
        PROVE  (IF rows[j].date > rows[i].date THEN rows[j] ELSE rows[i]) = rows[i] <=> f[j] <= f[i]
    <3>1. rows[i].date \in Int /\ rows[j].date \in Int /\ f[j] = rows[j].date /\ f[i] = rows[i].date
      BY <1>2, <1>4
    <3>2. CASE rows[j].date > rows[i].date
      BY <3>1, <3>2
    <3>3. CASE ~(rows[j].date > rows[i].date)
      BY <3>1, <3>3
    <3> QED
      BY <3>2, <3>3
  <2> QED
    BY <1>5, <2>1
<1>13. PointOf(rows, <<rows[r].name, rows[r].year>>) = rows[t]
  BY <1>1, <1>7, <1>11, <1>12 DEF PointOf, Kept
<1> QED
  BY <1>8, <1>10, <1>13

LEMMA OneTop ==
  ASSUME NEW rows \in Seq(CompRows), NEW i \in Tops(rows), NEW j \in Tops(rows), SameYear(rows[i], rows[j])
  PROVE  i = j
<1>1. rows[i].date \in Int /\ rows[j].date \in Int
  <2>1. rows[i] \in CompRows /\ rows[j] \in CompRows
    BY DEF Tops
  <2> QED
    BY <2>1 DEF CompRows
<1>2. i \in Nat /\ j \in Nat
  BY DEF Tops
<1>3. ~(i < j) /\ ~(j < i)
  BY <1>1 DEF Tops, SameYear
<1> QED
  BY <1>2, <1>3

LEMMA HistoryIs ==
  ASSUME NEW rows \in Seq(CompRows)
  PROVE  History(rows) = {rows[i] : i \in Tops(rows)}
<1>1. History(rows) = {PointOf(rows, <<row.name, row.year>>) : row \in ToSet(rows)}
  BY DEF History, PointOf
<1>2. History(rows) = {PointOf(rows, <<rows[r].name, rows[r].year>>) : r \in DOMAIN rows}
  BY <1>1 DEF ToSet
<1>3. PICK point : point = [r \in DOMAIN rows |-> PointOf(rows, <<rows[r].name, rows[r].year>>)]
  OBVIOUS
<1>4. ASSUME NEW r \in DOMAIN rows PROVE \E t \in Tops(rows) : point[r] = rows[t]
  BY <1>3, PointIs
<1>5. ASSUME NEW t \in Tops(rows) PROVE t \in DOMAIN rows /\ point[t] = rows[t]
  <2>1. t \in DOMAIN rows
    BY DEF Tops
  <2>2. PICK u \in Tops(rows) : /\ SameYear(rows[u], rows[t])
                                /\ PointOf(rows, <<rows[t].name, rows[t].year>>) = rows[u]
    BY <2>1, PointIs
  <2>3. u = t
    BY <2>2, OneTop
  <2> QED
    BY <1>3, <2>1, <2>2, <2>3
<1>6. History(rows) = {point[r] : r \in DOMAIN rows}
  BY <1>2, <1>3
<1>7. {point[r] : r \in DOMAIN rows} = {rows[t] : t \in Tops(rows)}
  BY <1>4, <1>5
<1> QED
  BY <1>6, <1>7

LEMMA HistoryHolds ==
  ASSUME NEW rows \in Seq(CompRows)
  PROVE  HistoryOf(rows, History(rows))
<1>1. PICK history : history = {rows[i] : i \in Tops(rows)}
  OBVIOUS
<1>2. ASSUME NEW row \in ToSet(rows)
      PROVE  Cardinality({p \in history : p.name = row.name /\ p.year = row.year}) = 1
  <2>1. PICK r \in DOMAIN rows : row = rows[r]
    BY <1>2 DEF ToSet
  <2>2. PICK t \in Tops(rows) : SameYear(rows[t], row)
    BY <2>1, PointIs
  <2>3. ASSUME NEW i \in Tops(rows), SameYear(rows[i], row) PROVE i = t
    <3>1. SameYear(rows[i], rows[t])
      BY <2>2, <2>3 DEF SameYear
    <3> QED
      BY <3>1, OneTop
  <2>4. {p \in history : p.name = row.name /\ p.year = row.year} = {rows[t]}
    BY <1>1, <2>2, <2>3 DEF SameYear
  <2> QED
    BY <2>4, FS_Singleton
<1>3. \A p \in history :
        /\ p \in ToSet(rows)
        /\ \A row \in ToSet(rows) : row.name = p.name /\ row.year = p.year => row.date <= p.date
  BY <1>1 DEF ToSet, Tops, SameYear
<1> QED
  BY <1>1, <1>2, <1>3, HistoryIs DEF HistoryOf

\* A point of the history is one of that of any of the rows that it is among.
LEMMA PointKept ==
  ASSUME NEW s \in Seq(CompRows), NEW F \in SUBSET DOMAIN s, NEW i \in Tops(s), i \in F
  PROVE  s[i] \in History(AtPositions(s, F))
<1>1. PICK t : t = AtPositions(s, F)
  OBVIOUS
<1>2. PICK n \in Nat : n = Len(s) /\ DOMAIN s = 1 .. n
  OBVIOUS
<1>3. F \in SUBSET (1 .. n)
  BY <1>2
<1>4. PICK e \in Nat : e = Cardinality(F)
  BY <1>3, RankGrows
<1>5. /\ t \in Seq(CompRows) /\ DOMAIN t = 1 .. e
      /\ \A k \in 1 .. e : Nth(F, k) \in F /\ t[k] = s[Nth(F, k)]
  BY <1>1, <1>4, SelectedList
<1>6. PICK k \in 1 .. e : Nth(F, k) = i
  BY <1>3, <1>4, Positions
<1>7. \A j \in 1 .. e : j < k <=> Nth(F, j) < Nth(F, k)
  BY <1>3, <1>4, NthGrows
<1>8. \A j \in DOMAIN s : SameYear(s[j], s[i]) =>
         s[j].date <= s[i].date /\ (j < i => s[j].date < s[i].date)
  BY DEF Tops
<1>9. k \in Tops(t)
  <2>1. ASSUME NEW j \in 1 .. e, SameYear(t[j], t[k])
        PROVE  t[j].date <= t[k].date /\ (j < k => t[j].date < t[k].date)
    <3>1. Nth(F, j) \in DOMAIN s /\ t[j] = s[Nth(F, j)] /\ t[k] = s[i]
      BY <1>5, <1>6
    <3>2. j < k => Nth(F, j) < i
      BY <1>6, <1>7
    <3> QED
      BY <1>8, <2>1, <3>1, <3>2
  <2> QED
    BY <1>5, <2>1 DEF Tops
<1>10. t[k] = s[i]
  BY <1>5, <1>6
<1> QED
  BY <1>1, <1>5, <1>9, <1>10, HistoryIs

\* Filings are numbered as they come; the newest is the first.
SubmissionsNumbered ==
  /\ submissions \in Seq(Forms)
  /\ \A i \in DOMAIN submissions : submissions[i].accession = Len(submissions) - i + 1

LEMMA SubmissionsNumberedHolds == GovernanceSpec => []SubmissionsNumbered
<1>1. GovernanceInit => SubmissionsNumbered
  BY DEF GovernanceInit, SubmissionsNumbered
<1>2. ASSUME SubmissionsTyped, SubmissionsTyped', SubmissionsNumbered, [GovernanceNext]_governanceVars
      PROVE  SubmissionsNumbered'
  <2>1. ASSUME NEW form, NEW body, FileDocument(form, body)
        PROVE  SubmissionsNumbered'
    <3>1. PICK n \in Nat : n = Len(submissions) /\ DOMAIN submissions = 1 .. n
      BY <1>2 DEF SubmissionsTyped
    <3>2. PICK new : submissions' = <<new>> \o submissions /\ new.accession = n + 1
      BY <2>1, <3>1 DEF FileDocument
    <3>3. submissions \in Seq(Forms) /\ submissions' \in Seq(Forms)
      BY <1>2 DEF SubmissionsTyped
    <3>4. PICK later : later = submissions'
      OBVIOUS
    <3>5. PICK now : now = submissions
      OBVIOUS
    <3>6. now \in Seq(Forms) /\ later = <<new>> \o now /\ Len(now) = n
      BY <3>1, <3>2, <3>3, <3>4, <3>5
    <3>7. /\ Len(later) = n + 1 /\ DOMAIN later = 1 .. n + 1 /\ later[1] = new
          /\ \A i \in 2 .. n + 1 : later[i] = now[i - 1]
      <4>1. <<new>> \in Seq({new}) /\ Len(<<new>>) = 1
        OBVIOUS
      <4> QED
        BY <3>6, <4>1
    <3>8. \A i \in 1 .. n : now[i].accession = n - i + 1
      BY <1>2, <3>1, <3>5 DEF SubmissionsNumbered
    <3>9. \A i \in 1 .. n + 1 : later[i].accession = (n + 1) - i + 1
      <4>1. ASSUME NEW i \in 1 .. n + 1 PROVE later[i].accession = (n + 1) - i + 1
        <5>1. CASE i = 1
          BY <3>2, <3>7, <5>1
        <5>2. CASE i # 1
          <6>1. i \in 2 .. n + 1 /\ i - 1 \in 1 .. n
            BY <5>2
          <6>2. later[i] = now[i - 1] /\ now[i - 1].accession = n - (i - 1) + 1
            BY <3>7, <3>8, <6>1
          <6> QED
            BY <6>1, <6>2
        <5> QED
          BY <5>1, <5>2
      <4> QED
        BY <4>1
    <3> QED
      BY <3>3, <3>4, <3>7, <3>9 DEF SubmissionsNumbered
  <2>2. CASE UNCHANGED governanceVars
    BY <1>2, <2>2 DEF governanceVars, SubmissionsNumbered
  <2> QED
    BY <1>2, <2>1, <2>2 DEF GovernanceNext
<1> QED
  BY <1>1, <1>2, SubmissionsTypedHolds, PTL DEF GovernanceSpec

LEMMA OneFiling ==
  ASSUME SubmissionsNumbered, NEW f \in ToSet(submissions), NEW g \in ToSet(submissions),
         f.accession = g.accession
  PROVE  f = g
<1>1. PICK n \in Nat : n = Len(submissions) /\ DOMAIN submissions = 1 .. n
  BY DEF SubmissionsNumbered
<1>2. PICK i \in 1 .. n : f = submissions[i]
  BY <1>1 DEF ToSet
<1>3. PICK j \in 1 .. n : g = submissions[j]
  BY <1>1 DEF ToSet
<1>4. f.accession = n - i + 1 /\ g.accession = n - j + 1
  BY <1>1, <1>2, <1>3 DEF SubmissionsNumbered
<1> QED
  BY <1>2, <1>3, <1>4

\* The proxies whose documents are asked for.
Candidates == Latest(PROXY_CANDIDATES, MaxProxies)

LEMMA CandidatesAre ==
  ASSUME SubmissionsNumbered
  PROVE  /\ Candidates \in Seq(ProxyForms)
         /\ \A k \in DOMAIN Candidates : Candidates[k] \in ToSet(submissions)
<1>1. submissions \in Seq(Forms)
  BY DEF SubmissionsNumbered
<1>2. PICK E \in SUBSET DOMAIN submissions :
        E = {i \in DOMAIN submissions : submissions[i].form \in PROXY_CANDIDATES}
  OBVIOUS
<1>3. PICK V : V = {submissions[i] : i \in E}
  OBVIOUS
<1>4. Candidates = Cut(AtPositions(submissions, E), MaxProxies)
  BY <1>2 DEF Candidates, Latest, Where
<1>5. AtPositions(submissions, E) \in Seq(V)
  BY <1>1, <1>3, SelectedList
<1>6. MaxProxies \in Nat
  BY GovernanceAssumption
<1>7. Candidates \in Seq(V)
  BY <1>4, <1>5, <1>6, CutIs
<1>8. V \subseteq ProxyForms /\ V \subseteq ToSet(submissions)
  BY <1>1, <1>2, <1>3 DEF ProxyForms, ToSet
<1> QED
  BY <1>7, <1>8

\* What they tell of, and which of them could be read.
Pays == Mapped(Candidates, ParseProxy)
ReadOf(failing) == {i \in DOMAIN Candidates : Candidates[i].accession \notin failing}

LEMMA PaysRead ==
  ASSUME SubmissionsNumbered
  PROVE  /\ Pays \in Seq(Seq(CompRows)) /\ DOMAIN Pays = DOMAIN Candidates
         /\ \A p \in Spots(Pays) : /\ p[1] \in DOMAIN Candidates
                                   /\ At(Pays, p) \in ProxyPay(Candidates[p[1]])
         /\ \A failing :
              /\ ReadOf(failing) \in SUBSET DOMAIN Pays
              /\ Mapped(Where(Candidates, LAMBDA f : f.accession \notin failing), ParseProxy)
                   = AtPositions(Pays, ReadOf(failing))
<1>1. PICK s : s = Candidates
  OBVIOUS
<1>2. PICK n \in Nat : n = Len(s) /\ DOMAIN s = 1 .. n
  BY <1>1, CandidatesAre
<1>3. Pays = [i \in 1 .. n |-> ParseProxy(s[i])]
  BY <1>1, <1>2 DEF Pays, Mapped
<1>4. s \in Seq(ProxyForms) /\ \A i \in 1 .. n : s[i] \in ProxyForms
  BY <1>1, <1>2, CandidatesAre
<1>5. \A i \in 1 .. n : ParseProxy(s[i]) \in Seq(ProxyPay(s[i]))
  BY <1>4, ProxyParsed
<1>6. \A i \in 1 .. n : ParseProxy(s[i]) \in Seq(CompRows)
  <2>1. \A i \in 1 .. n : ProxyPay(s[i]) \subseteq CompRows
    BY DEF ProxyPay
  <2> QED
    BY <1>5, <2>1
<1>7. Pays \in Seq(Seq(CompRows)) /\ DOMAIN Pays = 1 .. n
  <2>1. Pays \in [1 .. n -> Seq(CompRows)]
    BY <1>3, <1>6
  <2> QED
    BY <2>1
<1>8. ASSUME NEW p \in Spots(Pays)
      PROVE  p[1] \in 1 .. n /\ At(Pays, p) \in ProxyPay(s[p[1]])
  <2>1. p[1] \in 1 .. n /\ p[2] \in DOMAIN Pays[p[1]]
    BY <1>7, SpotIs
  <2>2. Pays[p[1]] \in Seq(ProxyPay(s[p[1]]))
    BY <1>3, <1>5, <2>1
  <2> QED
    BY <2>1, <2>2 DEF At
<1>9. ASSUME NEW failing
      PROVE  /\ ReadOf(failing) \in SUBSET (1 .. n)
             /\ Mapped(Where(s, LAMBDA f : f.accession \notin failing), ParseProxy)
                  = AtPositions(Pays, ReadOf(failing))
  <2>1. PICK E : E = ReadOf(failing)
    OBVIOUS
  <2>2. E \in SUBSET DOMAIN s /\ E = {i \in DOMAIN s : s[i].accession \notin failing}
    BY <1>1, <2>1 DEF ReadOf
  <2>3. PICK t : t = AtPositions(s, E)
    OBVIOUS
  <2>4. Where(s, LAMBDA f : f.accession \notin failing) = t
    BY <2>2, <2>3 DEF Where
  <2>5. /\ DOMAIN t = 1 .. Cardinality(E)
        /\ \A k \in 1 .. Cardinality(E) : Nth(E, k) \in E /\ t[k] = s[Nth(E, k)]
    <3>1. E \in SUBSET DOMAIN s
      BY <2>2
    <3> QED
      BY <1>4, <2>3, <3>1, SelectedList
  <2>6. Mapped(t, ParseProxy) = [k \in 1 .. Cardinality(E) |-> ParseProxy(t[k])]
    BY <2>5 DEF Mapped
  <2>7. AtPositions(Pays, E) = [k \in 1 .. Cardinality(E) |-> Pays[Nth(E, k)]]
    BY DEF AtPositions
  <2>8. \A k \in 1 .. Cardinality(E) : Pays[Nth(E, k)] = ParseProxy(t[k])
    BY <1>2, <1>3, <2>2, <2>5
  <2>9. Mapped(t, ParseProxy) = AtPositions(Pays, E)
    BY <2>6, <2>7, <2>8
  <2> QED
    BY <1>2, <2>1, <2>2, <2>4, <2>9
<1> QED
  BY <1>1, <1>2, <1>7, <1>8, <1>9

\* The rows parsed of all proxies, and those of the ones that were read.
AllPay == Flat(Pays)
NotOf(rows, failing) == {k \in DOMAIN rows : rows[k].accession \notin failing}
ParsedPay(failing) ==
  Flat(Mapped(Where(Candidates, LAMBDA f : f.accession \notin failing), ParseProxy))

LEMMA ParsedPayIs ==
  ASSUME SubmissionsNumbered
  PROVE  /\ AllPay \in Seq(CompRows)
         /\ \A k \in DOMAIN AllPay : \E f \in ToSet(Candidates) : AllPay[k] \in ProxyPay(f)
         /\ \A failing : ParsedPay(failing) = AtPositions(AllPay, NotOf(AllPay, failing))
<1>1. Pays \in Seq(Seq(CompRows))
  BY PaysRead
<1>2. PICK P, o : P = AllPay /\ P = Flat(Pays) /\ o = Origin(Pays)
  BY DEF AllPay
<1>3. /\ P \in Seq(CompRows)
      /\ \A k \in DOMAIN P : o[k] \in Spots(Pays) /\ P[k] = At(Pays, o[k])
  BY <1>1, <1>2, FlatIs
<1>4. \A k \in DOMAIN P : o[k][1] \in DOMAIN Candidates /\ P[k] \in ProxyPay(Candidates[o[k][1]])
  BY <1>3, PaysRead
<1>5. \A k \in DOMAIN P : \E f \in ToSet(Candidates) : P[k] \in ProxyPay(f)
  BY <1>4 DEF ToSet
<1>6. ASSUME NEW failing PROVE ParsedPay(failing) = AtPositions(P, NotOf(P, failing))
  <2>1. PICK E \in SUBSET DOMAIN Pays : E = ReadOf(failing)
    BY PaysRead
  <2>2. ParsedPay(failing) = Flat(AtPositions(Pays, E))
    <3>1. Mapped(Where(Candidates, LAMBDA f : f.accession \notin failing), ParseProxy)
            = AtPositions(Pays, E)
      BY <2>1, PaysRead
    <3> QED
      BY <3>1 DEF ParsedPay
  <2>3. Flat(AtPositions(Pays, E)) = AtPositions(P, FlatOf(Pays, E))
    BY <1>1, <1>2, FlatPart
  <2>4. FlatOf(Pays, E) = NotOf(P, failing)
    <3>1. \A k \in DOMAIN P : o[k][1] \in E <=> P[k].accession \notin failing
      BY <1>4, <2>1 DEF ReadOf, ProxyPay
    <3> QED
      BY <1>2, <3>1 DEF FlatOf, NotOf
  <2> QED
    BY <2>2, <2>3, <2>4
<1> QED
  BY <1>2, <1>3, <1>5, <1>6

\* The latest year comes first, and in a year the highest pay.
PayOrder(s) == {p \in (DOMAIN s) \X (DOMAIN s) :
                  \/ s[p[1]].year > s[p[2]].year
                  \/ s[p[1]].year = s[p[2]].year /\ s[p[1]].total > s[p[2]].total}

LEMMA PayOrderWeak ==
  ASSUME NEW s \in Seq(CompRows)
  PROVE  WeakOn(DOMAIN s, PayOrder(s))
<1>1. \A i \in DOMAIN s : s[i].year \in Int /\ s[i].total \in Int
  <2>1. \A i \in DOMAIN s : s[i] \in CompRows
    OBVIOUS
  <2> QED
    BY <2>1 DEF CompRows
<1>2. PICK B : B = PayOrder(s)
  OBVIOUS
<1>3. \A i, j \in DOMAIN s : <<i, j>> \in B <=>
        s[i].year > s[j].year \/ (s[i].year = s[j].year /\ s[i].total > s[j].total)
  BY <1>2 DEF PayOrder
<1>4. \A i \in DOMAIN s : <<i, i>> \notin B
  BY <1>1, <1>3
<1>5. ASSUME NEW i \in DOMAIN s, NEW j \in DOMAIN s, NEW k \in DOMAIN s
      PROVE  /\ <<i, j>> \in B /\ <<j, k>> \in B => <<i, k>> \in B
             /\ <<i, k>> \in B => <<i, j>> \in B \/ <<j, k>> \in B
  <2>1. /\ s[i].year \in Int /\ s[j].year \in Int /\ s[k].year \in Int
        /\ s[i].total \in Int /\ s[j].total \in Int /\ s[k].total \in Int
    BY <1>1
  <2> QED
    BY <1>3, <2>1
<1> QED
  BY <1>2, <1>4, <1>5 DEF WeakOn

ShownPay(failing) ==
  Cut(Sorted(ParsedPay(failing), PayOrder(ParsedPay(failing))), MaxPayRows)

LEMMA CompensationIs ==
  ASSUME NEW failing
  PROVE  Compensation(failing) = [rows |-> ShownPay(failing), history |-> History(ShownPay(failing)),
                                  sources |-> Candidates]
<1>1. PICK s : s = ParsedPay(failing)
  OBVIOUS
<1>2. ShownPay(failing) =
        Cut(Sorted(s, {p \in (DOMAIN s) \X (DOMAIN s) :
                         \/ s[p[1]].year > s[p[2]].year
                         \/ s[p[1]].year = s[p[2]].year /\ s[p[1]].total > s[p[2]].total}), MaxPayRows)
  BY <1>1 DEF ShownPay, PayOrder
<1> QED
  BY <1>1, <1>2 DEF Compensation, ParsedPay, Candidates, StableSort

\* What is shown are rows of proxies that were read.
LEMMA ShownAre ==
  ASSUME SubmissionsNumbered, NEW failing
  PROVE  /\ ShownPay(failing) \in Seq(CompRows)
         /\ \A k \in DOMAIN ShownPay(failing) :
              \E f \in ToSet(Candidates) :
                f.accession \notin failing /\ ShownPay(failing)[k] \in ProxyPay(f)
<1>1. PICK P, s : P = AllPay /\ s = ParsedPay(failing)
  OBVIOUS
<1>2. P \in Seq(CompRows) /\ \A k \in DOMAIN P : \E f \in ToSet(Candidates) : P[k] \in ProxyPay(f)
  BY <1>1, ParsedPayIs
<1>3. PICK E \in SUBSET DOMAIN P : E = {k \in DOMAIN P : P[k].accession \notin failing}
  OBVIOUS
<1>4. s = AtPositions(P, E)
  BY <1>1, <1>3, ParsedPayIs DEF NotOf
<1>5. PICK V : V = {P[k] : k \in E}
  OBVIOUS
<1>6. s \in Seq(V) /\ s \in Seq(CompRows)
  BY <1>2, <1>4, <1>5, SelectedList
<1>7. Sorted(s, PayOrder(s)) \in Seq(V)
  <2>1. WeakOn(DOMAIN s, PayOrder(s))
    BY <1>6, PayOrderWeak
  <2> QED
    BY <1>6, <2>1, SortedIs
<1>8. MaxPayRows \in Nat
  BY GovernanceAssumption
<1>9. ShownPay(failing) \in Seq(V)
  BY <1>1, <1>7, <1>8, CutIs DEF ShownPay
<1>10. \A r \in V : r \in CompRows /\ \E f \in ToSet(Candidates) : f.accession \notin failing /\ r \in ProxyPay(f)
  BY <1>2, <1>3, <1>5 DEF ProxyPay
<1>11. V \subseteq CompRows
  BY <1>10
<1>12. \A k \in DOMAIN ShownPay(failing) : ShownPay(failing)[k] \in V
  BY <1>9, ListHas
<1> QED
  BY <1>9, <1>10, <1>11, <1>12

LEMMA Uncut ==
  ASSUME NEW A, NEW s \in Seq(A), NEW n \in Nat, Len(s) <= n \/ Len(Cut(s, n)) < n
  PROVE  Cut(s, n) = s
<1>1. /\ Cut(s, n) \in Seq(A) /\ Len(Cut(s, n)) = IF n < Len(s) THEN n ELSE Len(s)
      /\ \A i \in 1 .. Len(Cut(s, n)) : Cut(s, n)[i] = s[i]
  BY CutIs
<1>2. PICK c : c = Cut(s, n)
  OBVIOUS
<1>3. Len(c) = Len(s)
  BY <1>1, <1>2
<1> QED
  BY <1>1, <1>2, <1>3

\* A failed document takes its own points away from the history, and no others.
LEMMA PointsStay ==
  ASSUME SubmissionsNumbered, NEW failing, Len(ShownPay({})) < MaxPayRows,
         NEW p \in History(ShownPay({})), p.accession \notin failing
  PROVE  p \in History(ShownPay(failing))
<1>1. PICK P, B : P = AllPay /\ B = PayOrder(P)
  OBVIOUS
<1>2. P \in Seq(CompRows) /\ WeakOn(DOMAIN P, B)
  BY <1>1, ParsedPayIs, PayOrderWeak
<1>3. PICK s, o : s = Sorted(P, B) /\ o = By(P, B)
  OBVIOUS
<1>4. /\ s \in Seq(CompRows) /\ DOMAIN s = DOMAIN P
      /\ \A k \in DOMAIN P : o[k] \in DOMAIN P /\ s[k] = P[o[k]]
  <2>1. s \in Seq(CompRows) /\ DOMAIN s = DOMAIN P
    BY <1>2, <1>3, SortedIs
  <2>2. \A k \in DOMAIN P : By(P, B)[k] \in DOMAIN P /\ Sorted(P, B)[k] = P[By(P, B)[k]]
    BY <1>2, SortedIs
  <2> QED
    BY <1>3, <2>1, <2>2
<1>5. MaxPayRows \in Nat
  BY GovernanceAssumption
<1>6. ParsedPay({}) = P
  <2>1. NotOf(P, {}) = DOMAIN P
    BY DEF NotOf
  <2>2. ParsedPay({}) = AtPositions(P, DOMAIN P)
    BY <1>1, <2>1, ParsedPayIs
  <2> QED
    BY <1>2, <2>2, AllSelected
<1>7. ShownPay({}) = Cut(s, MaxPayRows)
  BY <1>1, <1>3, <1>6 DEF ShownPay
<1>8. ShownPay({}) = s
  <2>1. Len(Cut(s, MaxPayRows)) < MaxPayRows
    BY <1>7
  <2> QED
    BY <1>4, <1>5, <1>7, <2>1, Uncut
<1>9. PICK i \in Tops(s) : p = s[i]
  BY <1>4, <1>8, HistoryIs
<1>10. PICK E \in SUBSET DOMAIN P : E = {k \in DOMAIN P : P[k].accession \notin failing}
  OBVIOUS
<1>11. PICK t, C : t = AtPositions(P, E) /\ C = PayOrder(t)
  OBVIOUS
<1>12. ParsedPay(failing) = t
  BY <1>1, <1>10, <1>11, ParsedPayIs DEF NotOf
<1>13. /\ DOMAIN t = 1 .. Cardinality(E) /\ t \in Seq(CompRows)
       /\ \A k \in 1 .. Cardinality(E) : Nth(E, k) \in E /\ t[k] = P[Nth(E, k)]
  BY <1>2, <1>11, SelectedList
<1>14. ASSUME NEW j \in 1 .. Cardinality(E), NEW k \in 1 .. Cardinality(E)
       PROVE  <<j, k>> \in C <=> <<Nth(E, j), Nth(E, k)>> \in B
  <2>1. Nth(E, j) \in DOMAIN P /\ Nth(E, k) \in DOMAIN P
    BY <1>13
  <2> QED
    BY <1>1, <1>11, <1>13, <2>1 DEF PayOrder
<1>15. PICK F : F = {k \in DOMAIN P : o[k] \in E}
  OBVIOUS
<1>16. AtPositions(s, F) = Sorted(t, C)
  BY <1>2, <1>3, <1>11, <1>14, <1>15, SortSelected
<1>17. F \in SUBSET DOMAIN s
  BY <1>4, <1>15
<1>18. Len(Sorted(t, C)) <= MaxPayRows /\ Sorted(t, C) \in Seq(CompRows)
  <2>1. /\ AtPositions(s, F) \in Seq(CompRows)
        /\ Len(AtPositions(s, F)) = Cardinality(F)
    BY <1>4, <1>17, SelectedList
  <2>2. PICK n \in Nat : n = Len(s) /\ DOMAIN s = 1 .. n
    BY <1>4
  <2>3. Cardinality(F) \in 0 .. n
    <3>1. F \in SUBSET (1 .. n)
      BY <1>17, <2>2
    <3> QED
      BY <3>1, RankGrows
  <2>4. n < MaxPayRows
    BY <1>8, <2>2
  <2> QED
    BY <1>5, <1>16, <2>1, <2>3, <2>4
<1>19. ShownPay(failing) = AtPositions(s, F)
  <2>1. ShownPay(failing) = Cut(Sorted(t, C), MaxPayRows)
    BY <1>11, <1>12 DEF ShownPay
  <2> QED
    BY <1>5, <1>16, <1>18, <2>1, Uncut
<1>20. i \in F
  <2>1. i \in DOMAIN P
    BY <1>4 DEF Tops
  <2>2. P[o[i]].accession \notin failing /\ o[i] \in DOMAIN P
    BY <1>4, <1>9, <2>1
  <2> QED
    BY <1>10, <1>15, <2>1, <2>2
<1> QED
  BY <1>4, <1>9, <1>17, <1>19, <1>20, PointKept

\* The filing a row or a point is said to come from is its own.
LEMMA SourceFound ==
  ASSUME SubmissionsNumbered, NEW answer, answer.sources = Candidates,
         NEW f \in ToSet(Candidates), NEW accession, accession = f.accession
  PROVE  SourceOf(answer, accession) = f /\ f # NoValue /\ f \in ToSet(submissions)
<1>1. PICK s : s = Candidates
  OBVIOUS
<1>2. s \in Seq(ProxyForms) /\ \A k \in DOMAIN s : s[k] \in ToSet(submissions)
  BY <1>1, CandidatesAre
<1>3. PICK E : E = {i \in DOMAIN s : s[i].accession = accession}
  OBVIOUS
<1>4. PICK i \in DOMAIN s : f = s[i]
  BY <1>1 DEF ToSet
<1>5. E # {} /\ E \in SUBSET Nat
  BY <1>2, <1>3, <1>4
<1>6. Min(E) \in E
  BY <1>5, TheLeast
<1>7. s[Min(E)] = f
  <2>1. PICK m \in DOMAIN s : m = Min(E) /\ s[m].accession = f.accession
    BY <1>3, <1>6
  <2>2. s[m] \in ToSet(submissions) /\ f \in ToSet(submissions)
    BY <1>2, <1>4, <2>1
  <2>3. s[m] = f
    BY <2>1, <2>2, OneFiling
  <2> QED
    BY <2>1, <2>3
<1>8. SourceOf(answer, accession) = f
  BY <1>1, <1>3, <1>5, <1>7 DEF SourceOf, FirstWhere
<1>9. f # NoValue
  <2>1. f \in Filings
    BY <1>2, <1>4 DEF ProxyForms, Forms
  <2> QED
    BY <2>1, GovernanceAssumption
<1> QED
  BY <1>2, <1>4, <1>8, <1>9

\* A row with its form.
LEMMA FormAdded ==
  ASSUME NEW row \in CompRows, NEW form
  PROVE  LET r == Spread(row, [form |-> form])
         IN  r.accession = row.accession /\ r.date = row.date /\ r.form = form
<1>1. PICK v : v = [form |-> form]
  OBVIOUS
<1>2. DOMAIN v = {"form"} /\ v.form = form
  BY <1>1
<1>3. DOMAIN row = {"name", "year", "total", "accession", "date"}
  BY DEF CompRows
<1>4. Spread(row, v) = [x \in DOMAIN row \cup DOMAIN v |-> IF x \in DOMAIN row THEN row[x] ELSE v[x]]
  BY DEF Spread
<1>5. PICK r : r = Spread(row, v)
  OBVIOUS
<1>6. r.accession = row.accession /\ r.date = row.date /\ r.form = form
  BY <1>2, <1>3, <1>4, <1>5
<1> QED
  BY <1>1, <1>5, <1>6

LEMMA ApiRowsFiled ==
  ASSUME SubmissionsNumbered, NEW failing \in SUBSET Accessions, NEW row \in ToSet(GetCompensation(TRUE, TRUE, failing).rows)
  PROVE  Filed(row, failing)
<1>1. PICK answer : answer = Compensation(failing)
  OBVIOUS
<1>2. PICK rows : rows = ShownPay(failing)
  OBVIOUS
<1>3. answer.rows = rows /\ answer.sources = Candidates
  BY <1>1, <1>2, CompensationIs
<1> DEFINE Form(r) == LET s == SourceOf(answer, r.accession) IN IF s = NoValue THEN "DEF 14A" ELSE s.form
           Told(r) == Spread(r, [form |-> Form(r)])
<1>4. GetCompensation(TRUE, TRUE, failing).rows = [k \in DOMAIN answer.rows |-> Told(answer.rows[k])]
  BY <1>1 DEF GetCompensation, Mapped
<1>5. GetCompensation(TRUE, TRUE, failing).rows = [k \in DOMAIN rows |-> Told(rows[k])]
  BY <1>3, <1>4
<1>6. PICK k \in DOMAIN rows : row = Told(rows[k])
  BY <1>5 DEF ToSet
<1>7. PICK f \in ToSet(Candidates) : f.accession \notin failing /\ rows[k] \in ProxyPay(f)
  BY <1>2, ShownAre
<1>8. rows[k] \in CompRows /\ rows[k].accession = f.accession /\ rows[k].date = f.date
  BY <1>7 DEF ProxyPay
<1>9. SourceOf(answer, rows[k].accession) = f /\ f # NoValue /\ f \in ToSet(submissions)
  BY <1>3, <1>8, SourceFound
<1>10. Form(rows[k]) = f.form
  BY <1>9
<1> HIDE DEF Form
<1>11. row.accession = f.accession /\ row.date = f.date /\ row.form = f.form
  BY <1>6, <1>8, <1>10, FormAdded
<1> QED
  BY <1>7, <1>9, <1>11 DEF Filed

LEMMA ApiPointsFiled ==
  ASSUME SubmissionsNumbered, NEW failing \in SUBSET Accessions, NEW point \in GetCompensation(TRUE, TRUE, failing).history
  PROVE  Filed(point, failing)
<1>1. PICK answer : answer = Compensation(failing)
  OBVIOUS
<1>2. PICK rows : rows = ShownPay(failing)
  OBVIOUS
<1>3. answer.history = History(rows) /\ answer.sources = Candidates /\ rows \in Seq(CompRows)
  BY <1>1, <1>2, CompensationIs, ShownAre
<1> DEFINE Date(p) == LET s == SourceOf(answer, p.accession) IN IF s = NoValue THEN NoDate ELSE s.date
<1>4. GetCompensation(TRUE, TRUE, failing).history = {[p EXCEPT !.date = Date(p)] : p \in answer.history}
  BY <1>1 DEF GetCompensation
<1>5. PICK p \in History(rows) : point = [p EXCEPT !.date = Date(p)]
  BY <1>3, <1>4
<1>6. PICK k \in DOMAIN rows : p = rows[k]
  BY <1>3, <1>5, HistoryIs DEF Tops
<1>7. PICK f \in ToSet(Candidates) : f.accession \notin failing /\ p \in ProxyPay(f)
  BY <1>2, <1>6, ShownAre
<1>8. p \in CompRows /\ p.accession = f.accession /\ p.date = f.date
  BY <1>7 DEF ProxyPay
<1>9. SourceOf(answer, p.accession) = f /\ f # NoValue /\ f \in ToSet(submissions)
  BY <1>3, <1>8, SourceFound
<1>10. PICK date : date = Date(p)
  OBVIOUS
<1>11. date = f.date
  BY <1>9, <1>10
<1>12. point = [p EXCEPT !.date = date]
  BY <1>5, <1>10
<1>13. DOMAIN point = {"name", "year", "total", "accession", "date"} /\ point.accession = f.accession
       /\ point.date = f.date
  BY <1>8, <1>11, <1>12 DEF CompRows
<1> QED
  BY <1>7, <1>9, <1>13 DEF Filed

\* Whatever proxies an issuer files and whichever documents fail, its pay table is
\* of the persons named in its own tables, its history is that of the table, each
\* row and point is of its own filing, and a failed document takes no point of
\* another with it (compensation.ts).
THEOREM PayIsAttributed == GovernanceSpec => []PayAnswersSound
<1>1. ASSUME SubmissionsNumbered PROVE PayRowsAttributed
  <2> SUFFICES ASSUME NEW f \in ToSet(Latest(PROXY_CANDIDATES, MaxProxies))
               PROVE  ToSet(ParseProxy(f)) =
                        {row \in {PayOf(f, i) : i \in {j \in DOMAIN f.body : OfSummary(f.body, j)}} :
                           row.name \in Names \ Noise /\ NoValue \notin {row.year, row.total}}
    BY DEF PayRowsAttributed
  <2>1. f \in ToSet(Candidates)
    BY DEF Candidates
  <2>2. f \in ProxyForms
    <3>1. Candidates \in Seq(ProxyForms)
      BY <1>1, CandidatesAre
    <3> QED
      BY <2>1, <3>1 DEF ToSet
  <2> QED
    BY <2>2, RowsAttributed
<1>2. ASSUME SubmissionsNumbered, NEW failing \in SUBSET Accessions
      PROVE  LET page  == CompensationPage(TRUE, failing)
                 api   == GetCompensation(TRUE, TRUE, failing)
                 whole == Compensation({})
             IN
             /\ HistoryOf(page.rows, page.history)
             /\ \A row \in ToSet(api.rows) \cup api.history : Filed(row, failing)
             /\ Len(whole.rows) < MaxPayRows =>
                  \A p \in whole.history : p.accession \notin failing => p \in page.history
  <2>1. PICK rows, all : rows = ShownPay(failing) /\ all = ShownPay({})
    OBVIOUS
  <2>2. PICK page : page = CompensationPage(TRUE, failing)
    OBVIOUS
  <2>3. page.rows = rows /\ page.history = History(rows)
    <3>1. PICK u : u = Compensation(failing)
      OBVIOUS
    <3>2. u = [rows |-> rows, history |-> History(rows), sources |-> Candidates]
      BY <2>1, <3>1, CompensationIs
    <3>3. PICK no \in BOOLEAN : no = FALSE
      OBVIOUS
    <3>4. PICK v : v = [unavailable |-> no]
      OBVIOUS
    <3>5. page = Spread(u, v)
      BY <2>2, <3>1, <3>3, <3>4 DEF CompensationPage
    <3>6. u.rows = rows /\ u.history = History(rows) /\ DOMAIN u = {"rows", "history", "sources"}
      BY <3>2
    <3>7. page = [x \in DOMAIN u \cup DOMAIN v |-> IF x \in DOMAIN u THEN u[x] ELSE v[x]]
      BY <3>5 DEF Spread
    <3> QED
      BY <3>6, <3>7
  <2>4. PICK whole : whole = Compensation({})
    OBVIOUS
  <2>5. whole.rows = all /\ whole.history = History(all)
    BY <2>1, <2>4, CompensationIs
  <2>6. HistoryOf(page.rows, page.history)
    <3>1. rows \in Seq(CompRows)
      BY <1>2, <2>1, ShownAre
    <3> QED
      BY <2>3, <3>1, HistoryHolds
  <2>7. \A row \in ToSet(GetCompensation(TRUE, TRUE, failing).rows) \cup GetCompensation(TRUE, TRUE, failing).history :
          Filed(row, failing)
    BY <1>2, ApiRowsFiled, ApiPointsFiled
  <2>8. ASSUME Len(whole.rows) < MaxPayRows, NEW p \in whole.history, p.accession \notin failing
        PROVE  p \in page.history
    BY <1>2, <2>1, <2>3, <2>5, <2>8, PointsStay
  <2> QED
    BY <2>2, <2>4, <2>6, <2>7, <2>8
<1>3. SubmissionsNumbered => PayAnswersSound
  BY <1>1, <1>2 DEF PayAnswersSound
<1> QED
  BY <1>3, SubmissionsNumberedHolds, PTL
==============================================================================
