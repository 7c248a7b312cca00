----------------------------- MODULE RangeLists -----------------------------
(***************************************************************************)
(* RangeList of parser/src/range.rs as operators on sequences of ranges.   *)
(* Ranges steps through its loops; Symbols uses what they compute.         *)
(***************************************************************************)
EXTENDS Integers, Sequences, FiniteSets, SequencesExt, StableSort

CONSTANT Alignment  \* 16: what lies between a range and an aligned one may be padding

ASSUME AlignmentAssumption == Alignment \in Nat \ {0}

Span(begin, end) == [begin |-> begin, end |-> end]

\* push extends the last range to `r' if `r' begins in it or right behind it, or
\* behind a gap that may be padding.
Extends(list, r) ==
  LET prev == list[Len(list)]
      padding == IF r.begin % Alignment = 0 THEN Alignment - 1 ELSE 0
  IN  /\ list # <<>>
      /\ prev.begin <= r.begin
      /\ r.begin <= prev.end + padding

\* Mutant: a range that lies within the last one shortens it.
PushShortens(list, r) ==
  CASE r.end <= r.begin -> list
    [] r.end > r.begin /\ Extends(list, r) -> [list EXCEPT ![Len(list)].end = r.end]
    [] OTHER -> Append(list, r)

Push(list, r) ==
  CASE r.end <= r.begin -> list
    [] r.end > r.begin /\ Extends(list, r) ->
         [list EXCEPT ![Len(list)].end = IF @ < r.end THEN r.end ELSE @]
    [] OTHER -> Append(list, r)

\* sort_by.
ByBegin(list) ==
  LET I == DOMAIN list
      order == Arrange(I, {p \in I \X I :
                             \/ list[p[1]].begin < list[p[2]].begin
                             \/ list[p[1]].begin = list[p[2]].begin /\ p[1] < p[2]})
  IN  [n \in I |-> list[order[n]]]

Covered(list) == UNION {list[k].begin..(list[k].end - 1) : k \in DOMAIN list}

\* push of every range of `more'.
PushAll(list, more) ==
  LET at[n \in 0..Len(more)] == IF n = 0 THEN list ELSE Push(at[n - 1], more[n])
  IN  at[Len(more)]

\* sort: the ranges in order are pushed to an empty list.
SortRanges(list) == PushAll(<<>>, ByBegin(list))

\* One hole is taken out of what is left of the range r, which begins at acc.from.
CutOut(acc, r, h) ==
  IF h.end <= acc.from \/ h.begin >= r.end THEN acc
  ELSE [from |-> h.end,
        out |-> IF h.begin > acc.from THEN Push(acc.out, Span(acc.from, h.begin)) ELSE acc.out]

\* Mutant: what lies behind the last hole is left out.
WithoutToLastHole(list, r, holes) ==
  LET at[n \in 0..Len(holes)] == IF n = 0 THEN [from |-> r.begin, out |-> list]
                                 ELSE CutOut(at[n - 1], r, holes[n])
  IN  at[Len(holes)].out

\* What `holes' leave of the range r is pushed to the list.
Without(list, r, holes) ==
  LET at[n \in 0..Len(holes)] == IF n = 0 THEN [from |-> r.begin, out |-> list]
                                 ELSE CutOut(at[n - 1], r, holes[n])
      cut == at[Len(holes)]
  IN  IF cut.from < r.end THEN Push(cut.out, Span(cut.from, r.end)) ELSE cut.out

\* What they leave of every range of `more'.
WithoutAll(list, more, holes) ==
  LET at[n \in 0..Len(more)] == IF n = 0 THEN list ELSE Without(at[n - 1], more[n], holes)
  IN  at[Len(more)]

\* subtract, of two sorted lists.
Subtract(list, other) == SortRanges(WithoutAll(<<>>, list, other))
=============================================================================
