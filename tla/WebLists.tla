------------------------------ MODULE WebLists ------------------------------
(***************************************************************************)
(* The list operations of JavaScript that the web app is written with.     *)
(***************************************************************************)
EXTENDS Integers, Sequences, FiniteSets, SequencesExt, Selections

CONSTANT NoValue \* null, undefined, or a value that is not finite

LOCAL Least(m, n) == IF m < n THEN m ELSE n

\* slice(0, n), and the slice of a page counted from one.
Cut(s, n)         == SubSeq(s, 1, Least(n, Len(s)))
Page(s, page, size) == SubSeq(s, (page - 1) * size + 1, Least(page * size, Len(s)))

\* sort keeps the order of the positions neither of which comes before the other.
Stably(D, B) == {p \in D \X D : p \in B \/ (<<p[2], p[1]>> \notin B /\ p[1] < p[2])}
Sorted(s, B) ==
  LET order == Arranged(DOMAIN s, Stably(DOMAIN s, B)) IN [k \in DOMAIN s |-> s[order[k]]]
StableSort(s, Before(_, _)) ==
  Sorted(s, {p \in (DOMAIN s) \X (DOMAIN s) : Before(s[p[1]], s[p[2]])})

\* flat: the elements of the lists, list by list.
Spots(lists) == UNION {{<<i, j>> : j \in DOMAIN lists[i]} : i \in DOMAIN lists}
ListByList(lists) == {p \in Spots(lists) \X Spots(lists) :
                        \/ p[1][1] < p[2][1]
                        \/ p[1][1] = p[2][1] /\ p[1][2] < p[2][2]}
Flat(lists) ==
  LET order == Arranged(Spots(lists), ListByList(lists))
  IN  [k \in DOMAIN order |-> lists[order[k][1]][order[k][2]]]

\* filter and find; the reduce that keeps one of two, of those at the places: it
\* ends with the first one kept against all.
Where(s, Test(_)) == AtPositions(s, {i \in DOMAIN s : Test(s[i])})
FirstWhere(s, Test(_)) ==
  LET those == {i \in DOMAIN s : Test(s[i])} IN IF those = {} THEN NoValue ELSE s[Min(those)]
Kept(s, places, Prefer(_, _)) ==
  s[Min({i \in places : \A j \in places : Prefer(s[i], s[j]) = s[i]})]

\* Math.abs and Math.round of a quotient, halves upwards.
Magnitude(n)  == IF n < 0 THEN -n ELSE n
Rounded(n, d) == (2 * n + d) \div (2 * d)

\* The rows of which none before has the same key, as kept by a Set of keys.
FirstOfEach(s, Key(_)) ==
  AtPositions(s, {i \in DOMAIN s : \A j \in 1 .. i - 1 : Key(s[j]) # Key(s[i])})

\* An object with more fields.
Spread(f, g) == [x \in DOMAIN f \cup DOMAIN g |-> IF x \in DOMAIN f THEN f[x] ELSE g[x]]

Mapped(s, Of(_)) == [i \in DOMAIN s |-> Of(s[i])]
=============================================================================
