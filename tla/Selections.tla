----------------------------- MODULE Selections -----------------------------
(***************************************************************************)
(* The elements of a sequence at a set of its positions, in their order,   *)
(* the elements of a finite set in an order given as a set of pairs, and   *)
(* sums.  SelectSeq, SortSeq, FlattenSeq and FoldLeft give the same as     *)
(* what is written with them, but have no definition the provers can use.  *)
(***************************************************************************)
EXTENDS Integers, Sequences, FiniteSets

\* The k-th of a finite set of numbers.
Nth(S, k) == CHOOSE n \in S : Cardinality({m \in S : m <= n}) = k

AtPositions(s, S) == [k \in 1 .. Cardinality(S) |-> s[Nth(S, k)]]

\* The elements of S, the first of them first.
With(before, k) == CHOOSE x \in DOMAIN before : before[x] = k
Arranged(S, R) ==
  LET before == [x \in S |-> Cardinality({y \in S : <<y, x>> \in R})]
  IN  [k \in 1 .. Cardinality(S) |-> With(before, k - 1)]

SumOf(s) ==
  LET sum[k \in 0 .. Len(s)] == IF k = 0 THEN 0 ELSE sum[k - 1] + s[k]
  IN  sum[Len(s)]
=============================================================================
