------------------------------- MODULE Ranges -------------------------------
(***************************************************************************)
(* RangeList of parser/src/range.rs, used the way Unit::unknown_ranges and *)
(* File::unknown_ranges use it: two lists are filled by push, sorted, and  *)
(* one is subtracted from the other.  One step is one push of a range, or  *)
(* one turn of the loop of subtract.                                       *)
(***************************************************************************)
EXTENDS RangeLists

CONSTANTS MaxAddress,  \* bound: addresses are 0..MaxAddress
          MaxPushes    \* bound: the ranges pushed to a list before it is sorted

ASSUME BoundsAssumption == MaxAddress \in Nat /\ MaxPushes \in Nat

Address == 0..MaxAddress
AddressRange == [begin : Address, end : Address]

VARIABLES lists,   \* the two lists and the result of the subtraction
          pushed,  \* how many ranges were pushed to each of the two
          given,   \* the addresses of all ranges pushed: what the lists stand for
          phase,   \* "fill", "sort", "subtract" or "done"
          sorting, \* in phase "sort", which list
          rest,    \* the ranges still to push back, or to subtract from
          others   \* the iterator over the other list, its current range first

vars == <<lists, pushed, given, phase, sorting, rest, others>>

Init ==
  /\ lists = [self |-> <<>>, other |-> <<>>, result |-> <<>>]
  /\ pushed = [self |-> 0, other |-> 0]
  /\ given = [self |-> {}, other |-> {}]
  /\ phase = "fill"
  /\ sorting = "none"
  /\ rest = <<>>
  /\ others = <<>>

\* The loops over functions, variables, sections or units.
Fill(name) ==
  /\ phase = "fill" /\ pushed[name] < MaxPushes
  /\ name = "other" => pushed.self > 0
  /\ name = "self" => pushed.other = 0
  /\ \E r \in AddressRange :
       /\ lists' = [lists EXCEPT ![name] = Push(@, r)]
       /\ given' = [given EXCEPT ![name] = @ \union Covered(<<r>>)]
  /\ pushed' = [pushed EXCEPT ![name] = @ + 1]
  /\ UNCHANGED <<phase, sorting, rest, others>>

\* sort: the ranges in order are pushed to an empty list.
BeginSort(name) ==
  /\ phase' = "sort"
  /\ sorting' = name
  /\ rest' = ByBegin(lists[name])
  /\ lists' = [lists EXCEPT ![name] = <<>>]

Filled == phase = "fill" /\ BeginSort("self") /\ UNCHANGED <<pushed, given, others>>

SortStep ==
  /\ phase = "sort" /\ rest # <<>>
  /\ lists' = [lists EXCEPT ![sorting] = Push(@, Head(rest))]
  /\ rest' = Tail(rest)
  /\ UNCHANGED <<pushed, given, phase, sorting, others>>

Sorted ==
  /\ phase = "sort" /\ rest = <<>>
  /\ CASE sorting = "self" -> BeginSort("other") /\ UNCHANGED others
       [] sorting = "other" -> /\ phase' = "subtract"
                               /\ sorting' = "none"
                               /\ rest' = lists.self
                               /\ others' = lists.other
                               /\ UNCHANGED lists
       [] OTHER -> /\ phase' = "done"
                   /\ sorting' = "none"
                   /\ UNCHANGED <<lists, rest, others>>
  /\ UNCHANGED <<pushed, given>>

range == Head(rest)
hole == Head(others)

Keep(piece) == lists' = [lists EXCEPT !.result = Push(@, piece)]

\* The hole lies before the range: it can meet no later one either.
PassOther ==
  /\ phase = "subtract" /\ rest # <<>> /\ others # <<>>
  /\ hole.end <= range.begin
  /\ others' = Tail(others)
  /\ UNCHANGED <<lists, pushed, given, phase, sorting, rest>>

\* No hole is left, or the next one lies behind: the range is kept.
KeepRange ==
  /\ phase = "subtract" /\ rest # <<>>
  /\ others # <<>> => hole.end > range.begin /\ hole.begin >= range.end
  /\ Keep(range)
  /\ rest' = Tail(rest)
  /\ UNCHANGED <<pushed, given, phase, sorting, others>>

\* Mutant: a hole is done with once it has cut a range.
CutAndPass ==
  /\ phase = "subtract" /\ rest # <<>> /\ others # <<>>
  /\ hole.end > range.begin /\ hole.begin < range.end
  /\ IF hole.begin > range.begin
     THEN Keep([begin |-> range.begin, end |-> hole.begin])
     ELSE UNCHANGED lists
  /\ rest' = IF hole.end < range.end
             THEN <<[begin |-> hole.end, end |-> range.end]>> \o Tail(rest) ELSE Tail(rest)
  /\ others' = Tail(others)
  /\ UNCHANGED <<pushed, given, phase, sorting>>

\* They overlap: what lies before the hole is kept, and what lies behind it, if anything,
\* is looked at again; otherwise the hole may reach into the next range.
Cut ==
  /\ phase = "subtract" /\ rest # <<>> /\ others # <<>>
  /\ hole.end > range.begin /\ hole.begin < range.end
  /\ IF hole.begin > range.begin
     THEN Keep([begin |-> range.begin, end |-> hole.begin])
     ELSE UNCHANGED lists
  /\ IF hole.end < range.end
     THEN /\ rest' = <<[begin |-> hole.end, end |-> range.end]>> \o Tail(rest)
          /\ others' = Tail(others)
     ELSE /\ rest' = Tail(rest)
          /\ UNCHANGED others
  /\ UNCHANGED <<pushed, given, phase, sorting>>

Subtracted ==
  /\ phase = "subtract" /\ rest = <<>>
  /\ BeginSort("result")
  /\ UNCHANGED <<pushed, given, others>>

Next == \/ \E name \in {"self", "other"} : Fill(name)
        \/ Filled \/ SortStep \/ Sorted
        \/ PassOther \/ KeepRange \/ Cut \/ Subtracted

Spec == Init /\ [][Next]_vars

-----------------------------------------------------------------------------
\* `set' with the gaps filled that push takes for padding.
Padded(set) ==
  set \union UNION {(p[1] + 1)..(p[2] - 1) :
                      p \in {q \in set \X set : /\ q[2] % Alignment = 0
                                                /\ q[2] - (q[1] + 1) < Alignment}}

Disjoint(list) ==
  /\ \A k \in DOMAIN list : list[k].begin < list[k].end
  /\ \A k \in 1..(Len(list) - 1) :
       LET next == list[k + 1]
       IN  list[k].end + (IF next.begin % Alignment = 0 THEN Alignment - 1 ELSE 0) < next.begin

AfterSort(name) ==
  \/ phase = "done"
  \/ phase = "subtract" /\ name # "result"
  \/ phase = "sort" /\ sorting = "other" /\ name = "self"
  \/ phase = "sort" /\ sorting = "result" /\ name # "result"

\* A sorted list is in order, no two of its ranges touch, and it has the addresses
\* of the ranges pushed to it, in whatever order, and none but padding besides:
\* merging in push, which only sees the range before, loses and invents nothing.
SortedAndComplete ==
  /\ \A name \in {"self", "other", "result"} : AfterSort(name) => Disjoint(lists[name])
  /\ \A name \in {"self", "other"} :
       AfterSort(name) => /\ given[name] \subseteq Covered(lists[name])
                          /\ Covered(lists[name]) \subseteq Padded(given[name])

\* The difference has every address of the list that is not in the other, and none
\* but padding between such addresses besides.
Difference ==
  phase = "done" =>
    LET left == Covered(lists.self) \ Covered(lists.other)
    IN  left \subseteq Covered(lists.result) /\ Covered(lists.result) \subseteq Padded(left)

\* The loop of subtract, which walks both lists at once, computes what taking every
\* hole out of every range would: that is what Symbols takes it for.
LoopSubtracts == phase = "done" => lists.result = Subtract(lists.self, lists.other)
=============================================================================
