----------------------------- MODULE StableSort -----------------------------
(***************************************************************************)
(* slice::sort_by of the standard library: a stable sort, given the strict *)
(* order in which things are to stand; and two loops that keep an order:   *)
(* over the elements that pass a test, and over the elements of elements.  *)
(***************************************************************************)
EXTENDS Integers, FiniteSets

\* All that stand before k have their places before it.
PlaceIn(S, before, k) == Cardinality({j \in S : <<j, k>> \in before}) + 1

\* The members of S in order; `before' holds the pairs of which the first comes first.
Arrange(S, before) ==
  [n \in 1..Cardinality(S) |-> CHOOSE k \in S : PlaceIn(S, before, k) = n]

\* The elements of s at the places in I.
Picked(s, I) ==
  LET order == Arrange(I, {p \in I \X I : p[1] < p[2]})
  IN  [n \in DOMAIN order |-> s[order[n]]]

\* The elements of the sequences in `seqs', one sequence behind the other.
Flattened(seqs) ==
  LET I == UNION {{k} \X DOMAIN seqs[k] : k \in DOMAIN seqs}
      order == Arrange(I, {p \in I \X I : \/ p[1][1] < p[2][1]
                                          \/ p[1][1] = p[2][1] /\ p[1][2] < p[2][2]})
  IN  [n \in DOMAIN order |-> seqs[order[n][1]][order[n][2]]]
=============================================================================
