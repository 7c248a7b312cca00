----------------------------- MODULE RangeProofs ----------------------------
(***************************************************************************)
(* Theorems about RangeList, for ranges of any addresses, lists of any     *)
(* length and any alignment.                                               *)
(*                                                                         *)
(* What a list stands for is a set of addresses.  A list fits a set if its *)
(* ranges begin and end in it and cover nothing else but padding; push     *)
(* keeps that in whatever order it is called, as the gap it fills lies     *)
(* between two addresses of the set.                                       *)
(***************************************************************************)
EXTENDS Ranges, SeqLemmas

NatRange == [begin : Nat, end : Nat]

LEMMA AddressRangesAreNat == AddressRange \subseteq NatRange
  BY BoundsAssumption DEF AddressRange, NatRange, Address

-----------------------------------------------------------------------------
\* The list after sort_by is in order and covers the same addresses with the same ranges.
LEMMA ByBeginSorts ==
  ASSUME NEW list \in Seq(NatRange)
  PROVE  /\ ByBegin(list) \in Seq(NatRange) /\ Len(ByBegin(list)) = Len(list)
         /\ \A i, j \in 1..Len(list) :
              i < j => ByBegin(list)[i].begin <= ByBegin(list)[j].begin
         /\ \A n \in 1..Len(list) : \E k \in 1..Len(list) : ByBegin(list)[n] = list[k]
         /\ \A k \in 1..Len(list) : \E n \in 1..Len(list) : ByBegin(list)[n] = list[k]
<1> DEFINE I == 1..Len(list)
           before == {p \in I \X I : \/ list[p[1]].begin < list[p[2]].begin
                                     \/ list[p[1]].begin = list[p[2]].begin /\ p[1] < p[2]}
           order == Arrange(I, before)
<1>1. Len(list) \in Nat /\ DOMAIN list = I
  BY LenProperties
<1>2. \A i \in I : list[i] \in NatRange /\ i \in Nat
  BY <1>1
<1>3. \A i \in I : list[i].begin \in Nat /\ i \in Nat
  BY <1>2 DEF NatRange
<1>4. IsFiniteSet(I) /\ Cardinality(I) = Len(list)
  <2> DEFINE n == Len(list)
  <2>1. n \in Nat
    BY <1>1
  <2> HIDE DEF n
  <2>2. IsFiniteSet(1..n) /\ Cardinality(1..n) = IF 1 > n THEN 0 ELSE n - 1 + 1
    BY <2>1, FS_Interval
  <2>3. IsFiniteSet(1..n) /\ Cardinality(1..n) = n
    BY <2>1, <2>2
  <2> QED
    BY <2>3 DEF n
<1>5. \A i, j \in I : <<i, j>> \in before <=>
        \/ list[i].begin < list[j].begin
        \/ list[i].begin = list[j].begin /\ i < j
  OBVIOUS
<1>6. ByBegin(list) = [n \in I |-> list[order[n]]]
  BY <1>1 DEF ByBegin
<1> HIDE DEF I, before, order
<1>7. Strict(I, before)
  <2>1. ASSUME NEW i \in I, NEW j \in I, NEW k \in I,
               <<i, j>> \in before, <<j, k>> \in before
        PROVE  <<i, k>> \in before
    <3>1. /\ list[i].begin < list[j].begin \/ (list[i].begin = list[j].begin /\ i < j)
          /\ list[j].begin < list[k].begin \/ (list[j].begin = list[k].begin /\ j < k)
      BY <1>5, <2>1
    <3>2. list[i].begin < list[k].begin \/ (list[i].begin = list[k].begin /\ i < k)
      BY <1>3, <3>1
    <3> QED
      BY <1>5, <3>2
  <2>2. ASSUME NEW i \in I, NEW j \in I, i # j
        PROVE  <<i, j>> \in before \/ <<j, i>> \in before
    <3>1. \/ list[i].begin < list[j].begin \/ (list[i].begin = list[j].begin /\ i < j)
          \/ list[j].begin < list[i].begin \/ (list[j].begin = list[i].begin /\ j < i)
      BY <1>3, <2>2
    <3> QED
      BY <1>5, <3>1
  <2>3. ASSUME NEW i \in I
        PROVE  <<i, i>> \notin before
    <3>1. ~(list[i].begin < list[i].begin) /\ ~(i < i)
      BY <1>3
    <3> QED
      BY <1>5, <3>1
  <2> QED
    BY <2>1, <2>2, <2>3 DEF Strict
<1>8. /\ order \in [1..Len(list) -> I]
      /\ \A i, j \in 1..Len(list) : i < j => <<order[i], order[j]>> \in before
      /\ \A k \in I : \E n \in 1..Len(list) : order[n] = k
  BY <1>4, <1>7, ArrangeSorts DEF order
<1>9. \A n \in I : order[n] \in I /\ ByBegin(list)[n] = list[order[n]]
  BY <1>6, <1>8 DEF I
<1>10. ByBegin(list) \in Seq(NatRange) /\ Len(ByBegin(list)) = Len(list)
  <2>1. [n \in I |-> list[order[n]]] \in [I -> NatRange]
    BY <1>2, <1>9
  <2>2. ByBegin(list) \in [1..Len(list) -> NatRange]
    BY <1>6, <2>1 DEF I
  <2> QED
    BY <1>1, <2>2, SeqDef, LenProperties
<1>11. ASSUME NEW i \in I, NEW j \in I, i < j
       PROVE  list[order[i]].begin <= list[order[j]].begin
  <2>1. <<order[i], order[j]>> \in before /\ order[i] \in I /\ order[j] \in I
    BY <1>8, <1>9, <1>11 DEF I
  <2>2. \/ list[order[i]].begin < list[order[j]].begin
        \/ list[order[i]].begin = list[order[j]].begin
    BY <1>5, <2>1
  <2>3. list[order[i]].begin \in Nat /\ list[order[j]].begin \in Nat
    BY <1>3, <2>1
  <2> QED
    BY <2>2, <2>3
<1>12. I = 1..Len(list)
  BY DEF I
<1>13. \A i, j \in I : i < j => ByBegin(list)[i].begin <= ByBegin(list)[j].begin
  BY <1>9, <1>11
<1>14. \A n \in I : \E k \in I : ByBegin(list)[n] = list[k]
  BY <1>9
<1>15. \A k \in I : \E n \in I : ByBegin(list)[n] = list[k]
  <2> TAKE k \in I
  <2>1. PICK n \in I : order[n] = k
    BY <1>8, <1>12
  <2> QED
    BY <1>9, <2>1
<1> QED
  BY <1>10, <1>12, <1>13, <1>14, <1>15

-----------------------------------------------------------------------------
(* push. *)
Proper(list) ==
  list \in Seq(NatRange) /\ \A k \in 1..Len(list) : list[k].begin < list[k].end

Fits(list, g) ==
  /\ Proper(list)
  /\ \A k \in 1..Len(list) : list[k].begin \in g /\ list[k].end - 1 \in g
  /\ Covered(list) \subseteq Padded(g)

Slack(r) == IF r.begin % Alignment = 0 THEN Alignment - 1 ELSE 0

LEMMA ProperRanges ==
  ASSUME NEW list, Proper(list)
  PROVE  /\ Len(list) \in Nat /\ DOMAIN list = 1..Len(list)
         /\ \A k \in 1..Len(list) :
              /\ list[k] \in NatRange /\ list[k].begin \in Nat /\ list[k].end \in Nat
              /\ list[k].begin < list[k].end
<1>1. Len(list) \in Nat /\ DOMAIN list = 1..Len(list)
  BY LenProperties DEF Proper
<1>2. \A k \in 1..Len(list) : list[k] \in NatRange
  BY <1>1 DEF Proper
<1> QED
  BY <1>1, <1>2 DEF NatRange, Proper

LEMMA CoveredIs ==
  ASSUME NEW list, Proper(list)
  PROVE  /\ Covered(list) \subseteq Nat
         /\ \A a : a \in Covered(list) <=>
                     \E k \in 1..Len(list) : a \in list[k].begin..(list[k].end - 1)
<1>1. /\ DOMAIN list = 1..Len(list)
      /\ \A k \in 1..Len(list) : list[k] \in NatRange
  BY ProperRanges
<1>2. \A a : a \in Covered(list) <=>
               \E k \in 1..Len(list) : a \in list[k].begin..(list[k].end - 1)
  BY <1>1 DEF Covered
<1>3. \A r \in NatRange : r.begin..(r.end - 1) \subseteq Nat
  BY DEF NatRange
<1> QED
  BY <1>1, <1>2, <1>3

\* What push does to the list: the last range grows, or the range is appended.
Grown(list, p, r) ==
  /\ list # <<>> /\ Len(p) = Len(list)
  /\ \A k \in 1..(Len(list) - 1) : p[k] = list[k]
  /\ p[Len(list)].begin = list[Len(list)].begin
  /\ p[Len(list)].end \in {list[Len(list)].end, r.end}
  /\ p[Len(list)].end >= list[Len(list)].end /\ p[Len(list)].end >= r.end
  /\ list[Len(list)].begin <= r.begin /\ r.begin <= list[Len(list)].end + Slack(r)

Added(list, p, r) ==
  /\ Len(p) = Len(list) + 1
  /\ \A k \in 1..Len(list) : p[k] = list[k]
  /\ p[Len(list) + 1] = r
  /\ list # <<>> => \/ r.begin < list[Len(list)].begin
                    \/ list[Len(list)].end + Slack(r) < r.begin

LEMMA SlackBounds ==
  ASSUME NEW r \in NatRange
  PROVE  Slack(r) \in 0..(Alignment - 1) /\ (Slack(r) # 0 => r.begin % Alignment = 0)
  BY AlignmentAssumption DEF Slack

LEMMA PushIs ==
  ASSUME NEW list, Proper(list), NEW r \in NatRange, r.begin < r.end
  PROVE  /\ Proper(Push(list, r))
         /\ Grown(list, Push(list, r), r) \/ Added(list, Push(list, r), r)
<1> DEFINE n == Len(list)
           p == Push(list, r)
<1>1. /\ n \in Nat /\ list \in Seq(NatRange) /\ r.begin \in Nat /\ r.end \in Nat
      /\ \A k \in 1..n : /\ list[k] \in NatRange
                         /\ list[k].begin \in Nat /\ list[k].end \in Nat
                         /\ list[k].begin < list[k].end
  BY ProperRanges DEF Proper, NatRange
<1>2. list # <<>> => n \in 1..n
  BY <1>1, EmptySeq
<1>3. ~(r.end <= r.begin) /\ r.end > r.begin
  BY <1>1
<1>4. CASE Extends(list, r)
  <2>1. list # <<>> /\ list[n].begin <= r.begin /\ r.begin <= list[n].end + Slack(r)
    BY <1>4 DEF Extends, Slack
  <2> DEFINE e == IF list[n].end < r.end THEN r.end ELSE list[n].end
             grown == [list[n] EXCEPT !.end = e]
  <2>2. p = [list EXCEPT ![n] = grown]
    BY <1>3, <1>4 DEF Push
  <2>3. n \in 1..n /\ list[n] \in NatRange
    BY <1>1, <1>2, <2>1
  <2>4. grown \in NatRange /\ grown.begin = list[n].begin /\ grown.end = e
    BY <2>3 DEF NatRange
  <2>5. e \in {list[n].end, r.end} /\ e >= list[n].end /\ e >= r.end
    BY <1>1, <2>3
  <2>6. list[n].begin < e
    BY <1>1, <2>3
  <2> HIDE DEF grown, e, p
  <2>7. /\ p \in Seq(NatRange) /\ Len(p) = n
        /\ \A j \in 1..n : p[j] = IF j = n THEN grown ELSE list[j]
    BY <1>1, <2>2, <2>3, <2>4, ExceptSeq
  <2> HIDE DEF n
  <2>8. p[n] = grown /\ \A k \in 1..(n - 1) : p[k] = list[k]
    BY <1>1, <2>3, <2>7
  <2>9. Proper(p)
    <3>1. \A k \in 1..n : p[k].begin < p[k].end
      BY <1>1, <2>4, <2>6, <2>7
    <3> QED
      BY <2>7, <3>1 DEF Proper
  <2>10. Grown(list, p, r)
    BY <2>1, <2>4, <2>5, <2>7, <2>8 DEF Grown, n
  <2> QED
    BY <2>9, <2>10 DEF p
<1>5. CASE ~Extends(list, r)
  <2>1. p = Append(list, r)
    BY <1>3, <1>5 DEF Push
  <2> HIDE DEF p
  <2>2. /\ p \in Seq(NatRange) /\ Len(p) = n + 1
        /\ \A k \in 1..n : p[k] = list[k]
        /\ p[n + 1] = r
    BY <1>1, <2>1, AppendProperties
  <2>3. list # <<>> => \/ r.begin < list[n].begin
                       \/ list[n].end + Slack(r) < r.begin
    <3> SUFFICES ASSUME list # <<>>, ~(r.begin < list[n].begin)
                 PROVE  list[n].end + Slack(r) < r.begin
      OBVIOUS
    <3>1. list[n].begin <= r.begin
      BY <1>1, <1>2
    <3>2. ~(r.begin <= list[n].end + Slack(r))
      BY <1>5, <3>1 DEF Extends, Slack
    <3>3. Slack(r) \in Int /\ list[n].end \in Int
      BY <1>1, <1>2, SlackBounds, AlignmentAssumption
    <3> QED
      BY <1>1, <3>2, <3>3
  <2>4. \A k \in 1..(n + 1) : p[k].begin < p[k].end
    <3>1. \A k \in 1..(n + 1) : k \in 1..n \/ k = n + 1
      BY <1>1
    <3> QED
      BY <1>1, <2>2, <3>1
  <2> QED
    BY <2>2, <2>3, <2>4 DEF Proper, Added, p
<1> QED
  BY <1>4, <1>5

LEMMA PaddedIs ==
  ASSUME NEW g, NEW a
  PROVE  a \in Padded(g) <=>
           \/ a \in g
           \/ \E e, b \in g : /\ b % Alignment = 0 /\ b - (e + 1) < Alignment
                              /\ a \in (e + 1)..(b - 1)
<1> DEFINE gaps == {q \in g \X g : q[2] % Alignment = 0 /\ q[2] - (q[1] + 1) < Alignment}
<1>1. a \in Padded(g) <=> a \in g \/ \E q \in gaps : a \in (q[1] + 1)..(q[2] - 1)
  BY DEF Padded
<1>2. ASSUME NEW q \in gaps
      PROVE  /\ q[1] \in g /\ q[2] \in g
             /\ q[2] % Alignment = 0 /\ q[2] - (q[1] + 1) < Alignment
  OBVIOUS
<1>3. ASSUME NEW e \in g, NEW b \in g, b % Alignment = 0, b - (e + 1) < Alignment
      PROVE  <<e, b>> \in gaps /\ <<e, b>>[1] = e /\ <<e, b>>[2] = b
  BY <1>3
<1> HIDE DEF gaps
<1> QED
  BY <1>1, <1>2, <1>3

LEMMA PaddedGrows ==
  ASSUME NEW g, NEW h, g \subseteq h
  PROVE  Padded(g) \subseteq Padded(h) /\ g \subseteq Padded(g)
  BY PaddedIs

\* push loses no address, and what it adds beside the range is padding between addresses
\* that the list stands for.
LEMMA PushFits ==
  ASSUME NEW g, g \subseteq Nat, NEW list, Fits(list, g), NEW r \in NatRange,
         r.begin < r.end, r.begin \in g, r.end - 1 \in g,
         r.begin..(r.end - 1) \subseteq Padded(g)
  PROVE  /\ Fits(Push(list, r), g)
         /\ Covered(list) \subseteq Covered(Push(list, r))
         /\ r.begin..(r.end - 1) \subseteq Covered(Push(list, r))
<1> DEFINE n == Len(list)
           p == Push(list, r)
<1>1. /\ Proper(list)
      /\ \A k \in 1..n : list[k].begin \in g /\ list[k].end - 1 \in g
      /\ Covered(list) \subseteq Padded(g)
  BY DEF Fits
<1>2. /\ n \in Nat /\ r.begin \in Nat /\ r.end \in Nat
      /\ \A k \in 1..n : /\ list[k].begin \in Nat /\ list[k].end \in Nat
                         /\ list[k].begin < list[k].end
  BY <1>1, ProperRanges DEF NatRange
<1>3. Proper(p) /\ (Grown(list, p, r) \/ Added(list, p, r))
  BY <1>1, PushIs
<1>4. \A a : a \in Covered(list) <=> \E k \in 1..n : a \in list[k].begin..(list[k].end - 1)
  BY <1>1, CoveredIs
<1>5. \A a : a \in Covered(p) <=> \E k \in 1..Len(p) : a \in p[k].begin..(p[k].end - 1)
  BY <1>3, CoveredIs
<1> HIDE DEF p, n
<1>6. CASE Grown(list, p, r)
  <2>1. /\ n \in 1..n /\ Len(p) = n
        /\ \A k \in 1..(n - 1) : p[k] = list[k]
        /\ p[n].begin = list[n].begin
        /\ p[n].end \in {list[n].end, r.end}
        /\ p[n].end >= list[n].end /\ p[n].end >= r.end
        /\ list[n].begin <= r.begin /\ r.begin <= list[n].end + Slack(r)
    <3>1. list # <<>> => n # 0
      BY <1>1, EmptySeq DEF Proper, n
    <3> QED
      BY <1>2, <1>6, <3>1 DEF Grown, n
  <2>2. p[n].end \in Nat
    BY <1>2, <2>1
  <2>3. \A k \in 1..n : k \in 1..(n - 1) \/ k = n
    BY <1>2
  <2>4. \A k \in 1..n : p[k].begin \in g /\ p[k].end - 1 \in g
    BY <1>1, <2>1, <2>3 DEF n
  <2>5. \A k \in 1..n : list[k].begin..(list[k].end - 1) \subseteq p[k].begin..(p[k].end - 1)
    <3>1. \A k \in 1..(n - 1) :
             list[k].begin..(list[k].end - 1) \subseteq p[k].begin..(p[k].end - 1)
      BY <2>1
    <3>2. list[n].begin..(list[n].end - 1) \subseteq p[n].begin..(p[n].end - 1)
      BY <1>2, <2>1, <2>2
    <3> QED
      BY <2>3, <3>1, <3>2
  <2>6. r.begin..(r.end - 1) \subseteq p[n].begin..(p[n].end - 1)
    BY <1>2, <2>1, <2>2
  <2>7. ASSUME NEW a \in p[n].begin..(p[n].end - 1)
        PROVE  a \in Padded(g)
    <3>1. CASE a \in list[n].begin..(list[n].end - 1)
      BY <1>1, <1>4, <2>1, <3>1
    <3>2. CASE a \in r.begin..(r.end - 1)
      BY <3>2
    <3>3. CASE a \notin list[n].begin..(list[n].end - 1) /\ a \notin r.begin..(r.end - 1)
      <4>1. a \in Nat /\ list[n].end - 1 < a /\ a < r.begin
        BY <1>2, <2>1, <2>2, <3>3
      <4>2. list[n].end - 1 \in g /\ r.begin \in g
        BY <1>1, <2>1 DEF n
      <4>3. Slack(r) \in 0..(Alignment - 1) /\ (Slack(r) # 0 => r.begin % Alignment = 0)
        BY SlackBounds
      <4>4. Slack(r) # 0
        BY <1>2, <2>1, <4>1, <4>3, AlignmentAssumption
      <4>5. r.begin - ((list[n].end - 1) + 1) < Alignment
        BY <1>2, <2>1, <4>3, AlignmentAssumption
      <4>6. a \in ((list[n].end - 1) + 1)..(r.begin - 1)
        BY <1>2, <2>1, <4>1
      <4> QED
        BY <4>2, <4>3, <4>4, <4>5, <4>6, PaddedIs
    <3> QED
      BY <3>1, <3>2, <3>3
  <2>8. Covered(p) \subseteq Padded(g)
    <3>1. ASSUME NEW a \in Covered(p)
          PROVE  a \in Padded(g)
      <4>1. PICK k \in 1..n : a \in p[k].begin..(p[k].end - 1)
        BY <1>5, <2>1
      <4>2. CASE k = n
        BY <2>7, <4>1, <4>2
      <4>3. CASE k # n
        <5>1. p[k] = list[k]
          BY <2>1, <2>3, <4>3
        <5> QED
          BY <1>1, <1>4, <4>1, <5>1
      <4> QED
        BY <4>2, <4>3
    <3> QED
      BY <3>1
  <2>9. Covered(list) \subseteq Covered(p)
    BY <1>4, <1>5, <2>1, <2>5
  <2>10. r.begin..(r.end - 1) \subseteq Covered(p)
    BY <1>5, <2>1, <2>6
  <2>11. Fits(p, g)
    BY <1>3, <2>1, <2>4, <2>8 DEF Fits
  <2> QED
    BY <2>9, <2>10, <2>11 DEF p
<1>7. CASE Added(list, p, r)
  <2>1. /\ Len(p) = n + 1 /\ p[n + 1] = r
        /\ \A k \in 1..n : p[k] = list[k]
    BY <1>7 DEF Added, n
  <2>2. \A k \in 1..(n + 1) : k \in 1..n \/ k = n + 1
    BY <1>2
  <2>3. \A k \in 1..n : k \in 1..(n + 1)
    BY <1>2
  <2>4. n + 1 \in 1..(n + 1)
    BY <1>2
  <2>5. \A k \in 1..(n + 1) : p[k].begin \in g /\ p[k].end - 1 \in g
    BY <1>1, <2>1, <2>2 DEF n
  <2>6. Covered(p) \subseteq Padded(g)
    BY <1>1, <1>4, <1>5, <2>1, <2>2
  <2>7. Covered(list) \subseteq Covered(p)
    BY <1>4, <1>5, <2>1, <2>3
  <2>8. r.begin..(r.end - 1) \subseteq Covered(p)
    BY <1>5, <2>1, <2>4
  <2>9. Fits(p, g)
    BY <1>3, <2>1, <2>5, <2>6 DEF Fits
  <2> QED
    BY <2>7, <2>8, <2>9 DEF p
<1> QED
  BY <1>3, <1>6, <1>7

\* A list in order stays in order, and no two of its ranges touch, as long as what is
\* pushed begins no earlier than the last range.
LEMMA PushDisjoint ==
  ASSUME NEW list, Proper(list), Disjoint(list), NEW r \in NatRange, r.begin < r.end,
         list # <<>> => list[Len(list)].begin <= r.begin
  PROVE  Disjoint(Push(list, r))
<1> DEFINE n == Len(list)
           p == Push(list, r)
<1>1. Proper(p) /\ (Grown(list, p, r) \/ Added(list, p, r))
  BY PushIs
<1>2. /\ n \in Nat /\ r.begin \in Nat /\ r.end \in Nat /\ (list # <<>> => n \in 1..n)
      /\ \A k \in 1..n : /\ list[k] \in NatRange
                         /\ list[k].begin \in Nat /\ list[k].end \in Nat
  <2>1. list # <<>> => n # 0
    BY EmptySeq DEF Proper
  <2>2. /\ n \in Nat
        /\ \A k \in 1..n : list[k] \in NatRange
                           /\ list[k].begin \in Nat /\ list[k].end \in Nat
    BY ProperRanges
  <2>3. r.begin \in Nat /\ r.end \in Nat
    BY DEF NatRange
  <2> QED
    BY <2>1, <2>2, <2>3
<1>3. \A k \in 1..(n - 1) : list[k].end + Slack(list[k + 1]) < list[k + 1].begin
  BY DEF Disjoint, Slack
<1>4. \A k \in DOMAIN p : p[k].begin < p[k].end
  BY <1>1, ProperRanges
<1> HIDE DEF p, n
<1>5. ASSUME NEW k \in 1..(Len(p) - 1)
      PROVE  p[k].end + Slack(p[k + 1]) < p[k + 1].begin
  <2>1. CASE Grown(list, p, r)
    <3>1. /\ Len(p) = n /\ (\A i \in 1..(n - 1) : p[i] = list[i])
          /\ p[n].begin = list[n].begin
      BY <2>1 DEF Grown, n
    <3>2. p[k] = list[k] /\ k \in 1..(n - 1)
      BY <1>2, <1>5, <3>1
    <3>3. p[k + 1].begin = list[k + 1].begin
      <4>1. k + 1 \in 1..(n - 1) \/ k + 1 = n
        BY <1>2, <3>2
      <4> QED
        BY <3>1, <4>1
    <3>4. Slack(p[k + 1]) = Slack(list[k + 1])
      BY <3>3 DEF Slack
    <3> QED
      BY <1>3, <3>2, <3>3, <3>4
  <2>2. CASE Added(list, p, r)
    <3>1. /\ Len(p) = n + 1 /\ p[n + 1] = r /\ \A i \in 1..n : p[i] = list[i]
          /\ list # <<>> => \/ r.begin < list[n].begin
                            \/ list[n].end + Slack(r) < r.begin
      BY <2>2 DEF Added, n
    <3>2. k \in 1..n /\ p[k] = list[k]
      BY <1>2, <1>5, <3>1
    <3>3. CASE k = n
      <4>1. list # <<>>
        BY <1>2, <3>2, SeqEmpty DEF n
      <4>2. ~(r.begin < list[n].begin)
        BY <1>2, <4>1 DEF n
      <4> QED
        BY <3>1, <3>2, <3>3, <4>1, <4>2
    <3>4. CASE k # n
      <4>1. k \in 1..(n - 1) /\ k + 1 \in 1..n
        BY <1>2, <3>2, <3>4
      <4> QED
        BY <1>3, <3>1, <3>2, <4>1
    <3> QED
      BY <3>3, <3>4
  <2> QED
    BY <1>1, <2>1, <2>2
<1> QED
  BY <1>4, <1>5 DEF Disjoint, Slack, p

\* The last range of the list begins where it began or where the new range begins.
LEMMA PushLast ==
  ASSUME NEW list, Proper(list), NEW r \in NatRange, r.begin < r.end
  PROVE  /\ Push(list, r) # <<>>
         /\ \/ list # <<>> /\ Push(list, r)[Len(Push(list, r))].begin = list[Len(list)].begin
            \/ Push(list, r)[Len(Push(list, r))].begin = r.begin
<1> DEFINE p == Push(list, r)
<1>1. Proper(p) /\ (Grown(list, p, r) \/ Added(list, p, r))
  BY PushIs
<1> HIDE DEF p
<1>2. Len(list) \in Nat /\ Len(p) \in Nat /\ (list # <<>> => Len(list) # 0)
  BY <1>1, ProperRanges, EmptySeq DEF Proper
<1>3. /\ Len(p) # 0
      /\ \/ list # <<>> /\ p[Len(p)].begin = list[Len(list)].begin
         \/ p[Len(p)].begin = r.begin
  BY <1>1, <1>2 DEF Grown, Added
<1>4. p # <<>>
  BY <1>3, SeqEmpty
<1> QED
  BY <1>3, <1>4 DEF p

\* Of ranges that do not touch their neighbours none touches any other.
Ordered(list) == \A i, j \in 1..Len(list) : i < j => list[i].end <= list[j].begin

LEMMA DisjointOrdered ==
  ASSUME NEW list, Proper(list), Disjoint(list)
  PROVE  Ordered(list)
<1> DEFINE n == Len(list)
<1>1. /\ n \in Nat
      /\ \A k \in 1..n : list[k] \in NatRange /\ list[k].begin \in Nat
                         /\ list[k].end \in Nat /\ list[k].begin < list[k].end
  BY ProperRanges
<1>2. \A k \in 1..(n - 1) : list[k].end <= list[k + 1].begin
  <2> TAKE k \in 1..(n - 1)
  <2>1. k \in 1..n /\ k + 1 \in 1..n
    BY <1>1
  <2>2. Slack(list[k + 1]) \in Nat
    BY <1>1, <2>1, SlackBounds, AlignmentAssumption
  <2>3. list[k].end + Slack(list[k + 1]) < list[k + 1].begin
    BY DEF Disjoint, Slack
  <2> QED
    BY <1>1, <2>1, <2>2, <2>3
<1> HIDE DEF n
<1>3. ASSUME NEW i \in 1..n
      PROVE  \A j \in 1..n : i < j => list[i].end <= list[j].begin
  <2> DEFINE T == {j \in 1..n : i < j /\ ~(list[i].end <= list[j].begin)}
  <2> SUFFICES ASSUME T # {}
               PROVE  FALSE
    OBVIOUS
  <2>1. T \subseteq Nat
    BY <1>1
  <2>2. PICK m \in T : \A k \in T : m <= k
    BY <2>1, NatMin
  <2>3. m \in 1..n /\ i < m /\ ~(list[i].end <= list[m].begin)
    OBVIOUS
  <2> HIDE DEF T
  <2>4. m - 1 \in 1..(n - 1) /\ m - 1 \in 1..n /\ (m - 1) + 1 = m
    BY <1>1, <2>3
  <2>5. list[m - 1].end <= list[m].begin
    BY <1>2, <2>4
  <2>6. CASE m - 1 = i
    BY <2>3, <2>5, <2>6
  <2>7. CASE m - 1 # i
    <3>1. i < m - 1
      BY <1>1, <2>3, <2>7
    <3>2. m - 1 \notin T
      <4>1. ~(m <= m - 1)
        BY <2>4
      <4> QED
        BY <2>2, <4>1
    <3>3. list[i].end <= list[m - 1].begin
      BY <2>4, <3>1, <3>2 DEF T
    <3>4. list[i].end \in Int /\ list[m - 1].begin \in Int /\ list[m - 1].end \in Int
          /\ list[m].begin \in Int /\ list[m - 1].begin < list[m - 1].end
      BY <1>1, <2>3, <2>4
    <3> QED
      BY <2>3, <2>5, <3>3, <3>4
  <2> QED
    BY <2>6, <2>7
<1> QED
  BY <1>3 DEF Ordered, n

-----------------------------------------------------------------------------
(* sort. *)
Ascending(list) == \A i, j \in 1..Len(list) : i < j => list[i].begin <= list[j].begin

\* sort is under way: the ranges that are back in the list and those that are still to
\* be pushed stand for g together.
Sorting(list, more, g) ==
  /\ Fits(list, g) /\ Disjoint(list)
  /\ Fits(more, g) /\ Ascending(more)
  /\ g \subseteq Covered(list) \union Covered(more)
  /\ list # <<>> /\ more # <<>> => list[Len(list)].begin <= more[1].begin

LEMMA EmptyFits ==
  ASSUME NEW g
  PROVE  Fits(<<>>, g) /\ Disjoint(<<>>) /\ Covered(<<>>) = {}
<1>1. <<>> \in Seq(NatRange) /\ Len(<<>>) = 0
  BY EmptySeq
<1>2. DOMAIN <<>> = {}
  BY <1>1, LenProperties
<1>3. Proper(<<>>)
  BY <1>1 DEF Proper
<1>4. Covered(<<>>) = {}
  BY <1>2 DEF Covered
<1> QED
  BY <1>1, <1>2, <1>3, <1>4 DEF Fits, Disjoint

LEMMA SortStarts ==
  ASSUME NEW list, NEW g, Fits(list, g), g \subseteq Covered(list)
  PROVE  Sorting(<<>>, ByBegin(list), g)
<1> DEFINE s == ByBegin(list)
<1>1. Proper(list) /\ list \in Seq(NatRange)
  BY DEF Fits, Proper
<1>2. /\ s \in Seq(NatRange) /\ Len(s) = Len(list)
      /\ \A i, j \in 1..Len(list) : i < j => s[i].begin <= s[j].begin
      /\ \A n \in 1..Len(list) : \E k \in 1..Len(list) : s[n] = list[k]
      /\ \A k \in 1..Len(list) : \E n \in 1..Len(list) : s[n] = list[k]
  BY <1>1, ByBeginSorts
<1> HIDE DEF s
<1>3. Proper(s)
  BY <1>1, <1>2 DEF Proper
<1>4. Covered(s) = Covered(list)
  <2>1. \A a : a \in Covered(s) <=>
                 \E k \in 1..Len(list) : a \in s[k].begin..(s[k].end - 1)
    BY <1>2, <1>3, CoveredIs
  <2>2. \A a : a \in Covered(list) <=>
                 \E k \in 1..Len(list) : a \in list[k].begin..(list[k].end - 1)
    BY <1>1, CoveredIs
  <2>3. ASSUME NEW a, a \in Covered(s)
        PROVE  a \in Covered(list)
    <3>1. PICK n \in 1..Len(list) : a \in s[n].begin..(s[n].end - 1)
      BY <2>1, <2>3
    <3>2. PICK k \in 1..Len(list) : s[n] = list[k]
      BY <1>2
    <3> QED
      BY <2>2, <3>1, <3>2
  <2>4. ASSUME NEW a, a \in Covered(list)
        PROVE  a \in Covered(s)
    <3>1. PICK k \in 1..Len(list) : a \in list[k].begin..(list[k].end - 1)
      BY <2>2, <2>4
    <3>2. PICK n \in 1..Len(list) : s[n] = list[k]
      BY <1>2
    <3> QED
      BY <2>1, <3>1, <3>2
  <2> QED
    BY <2>3, <2>4
<1>5. Fits(s, g)
  BY <1>2, <1>3, <1>4 DEF Fits
<1>6. Ascending(s)
  BY <1>2 DEF Ascending
<1> QED
  BY <1>4, <1>5, <1>6, EmptyFits DEF Sorting, s

\* The head of a list of ranges and what is left without it.
LEMMA HeadAndTail ==
  ASSUME NEW list, Proper(list), list # <<>>
  PROVE  /\ Head(list) = list[1] /\ 1 \in 1..Len(list)
         /\ Head(list) \in NatRange /\ Head(list).begin < Head(list).end
         /\ Proper(Tail(list)) /\ Len(Tail(list)) = Len(list) - 1
         /\ \A k \in 1..(Len(list) - 1) : k + 1 \in 1..Len(list) /\ Tail(list)[k] = list[k + 1]
         /\ \A a : a \in Covered(list) <=> \/ a \in Head(list).begin..(Head(list).end - 1)
                                           \/ a \in Covered(Tail(list))
<1> DEFINE n == Len(list)
           t == Tail(list)
<1>1. /\ n \in Nat /\ n # 0 /\ list \in Seq(NatRange)
      /\ \A k \in 1..n : list[k] \in NatRange /\ list[k].begin < list[k].end
  BY ProperRanges, EmptySeq DEF Proper
<1>2. Head(list) = list[1] /\ 1 \in 1..n
  BY <1>1
<1>3. /\ t \in Seq(NatRange) /\ Len(t) = n - 1
      /\ \A k \in 1..(n - 1) : t[k] = list[k + 1]
  BY <1>1, HeadTailProperties
<1> HIDE DEF t, n
<1>4. \A k \in 1..(n - 1) : k + 1 \in 1..n
  BY <1>1
<1>5. Proper(t)
  BY <1>1, <1>3, <1>4 DEF Proper
<1>6. \A a : a \in Covered(list) <=> \E k \in 1..n : a \in list[k].begin..(list[k].end - 1)
  BY CoveredIs DEF n
<1>7. \A a : a \in Covered(t) <=>
               \E k \in 1..(n - 1) : a \in list[k + 1].begin..(list[k + 1].end - 1)
  BY <1>3, <1>5, CoveredIs
<1>8. \A k \in 1..n : k = 1 \/ (k - 1 \in 1..(n - 1) /\ (k - 1) + 1 = k)
  BY <1>1
<1>9. \A a : a \in Covered(list) <=> \/ a \in list[1].begin..(list[1].end - 1)
                                     \/ a \in Covered(t)
  BY <1>2, <1>4, <1>6, <1>7, <1>8
<1> QED
  BY <1>1, <1>2, <1>3, <1>4, <1>5, <1>9 DEF n, t

LEMMA SortGoesOn ==
  ASSUME NEW list, NEW more, NEW g, g \subseteq Nat, Sorting(list, more, g), more # <<>>
  PROVE  Sorting(Push(list, Head(more)), Tail(more), g)
<1> DEFINE r == Head(more)
           t == Tail(more)
           p == Push(list, r)
<1>1. /\ Fits(list, g) /\ Disjoint(list) /\ Proper(list)
      /\ Fits(more, g) /\ Ascending(more) /\ Proper(more)
      /\ g \subseteq Covered(list) \union Covered(more)
      /\ list # <<>> => list[Len(list)].begin <= more[1].begin
  BY DEF Sorting, Fits
<1>2. /\ r = more[1] /\ 1 \in 1..Len(more)
      /\ r \in NatRange /\ r.begin < r.end
      /\ Proper(t) /\ Len(t) = Len(more) - 1
      /\ \A k \in 1..(Len(more) - 1) : k + 1 \in 1..Len(more) /\ t[k] = more[k + 1]
      /\ \A a : a \in Covered(more) <=> a \in r.begin..(r.end - 1) \/ a \in Covered(t)
  BY <1>1, HeadAndTail
<1> HIDE DEF r, t
<1>3. r.begin \in g /\ r.end - 1 \in g
  BY <1>1, <1>2 DEF Fits
<1>4. r.begin..(r.end - 1) \subseteq Padded(g) /\ Covered(t) \subseteq Padded(g)
  BY <1>1, <1>2 DEF Fits
<1>5. /\ Fits(p, g) /\ Covered(list) \subseteq Covered(p)
      /\ r.begin..(r.end - 1) \subseteq Covered(p)
  BY <1>1, <1>2, <1>3, <1>4, PushFits
<1>6. Disjoint(p)
  BY <1>1, <1>2, PushDisjoint
<1>7. Fits(t, g)
  BY <1>1, <1>2, <1>4 DEF Fits
<1>8. Len(more) \in Nat
  BY <1>1, ProperRanges
<1>9. Ascending(t)
  BY <1>1, <1>2, <1>8 DEF Ascending
<1>10. g \subseteq Covered(p) \union Covered(t)
  BY <1>1, <1>2, <1>5
<1>11. ASSUME t # <<>>
       PROVE  p[Len(p)].begin <= t[1].begin
  <2>1. Len(t) # 0 /\ Len(t) \in Nat
    BY <1>2, <1>11, ProperRanges, EmptySeq DEF Proper
  <2>2. 1 \in 1..(Len(more) - 1) /\ 1 + 1 = 2
    BY <1>2, <1>8, <2>1
  <2>3. t[1] = more[2] /\ 2 \in 1..Len(more)
    BY <1>2, <2>2
  <2>4. r.begin <= t[1].begin
    BY <1>1, <1>2, <2>3 DEF Ascending
  <2>5. \/ list # <<>> /\ p[Len(p)].begin = list[Len(list)].begin
        \/ p[Len(p)].begin = r.begin
    BY <1>1, <1>2, PushLast
  <2>6. r.begin \in Nat /\ t[1].begin \in Nat
    BY <1>1, <1>2, <2>3, ProperRanges
  <2>7. list # <<>> => list[Len(list)].begin \in Nat
    <3>1. list # <<>> => Len(list) # 0
      BY <1>1, EmptySeq DEF Proper
    <3> QED
      BY <1>1, <3>1, ProperRanges
  <2> QED
    BY <1>1, <1>2, <2>4, <2>5, <2>6, <2>7
<1> QED
  BY <1>5, <1>6, <1>7, <1>9, <1>10, <1>11 DEF Sorting, r, t

-----------------------------------------------------------------------------
(***************************************************************************)
(* subtract.  A hole that is passed ends where the next range begins or    *)
(* before, so it meets no later range; the others come behind it in order. *)
(***************************************************************************)
Remaining(self, other) == Covered(self) \ Covered(other)

Subtracting(self, other, result, more, holes) ==
  /\ Proper(self) /\ Proper(other)
  /\ Fits(result, Remaining(self, other))
  /\ Proper(more) /\ Ordered(more)
  /\ Proper(holes) /\ Ordered(holes)
  /\ Covered(more) \subseteq Covered(self)
  /\ Covered(holes) \subseteq Covered(other)
  /\ Remaining(self, other) \subseteq Covered(result) \union Covered(more)
  /\ \A a \in Covered(other) \ Covered(holes) :
       \A k \in 1..Len(more) : a < more[k].begin

LEMMA TailOrdered ==
  ASSUME NEW list, Proper(list), list # <<>>, Ordered(list)
  PROVE  /\ Ordered(Tail(list))
         /\ \A k \in 1..Len(Tail(list)) : Head(list).end <= Tail(list)[k].begin
<1>1. /\ Head(list) = list[1] /\ 1 \in 1..Len(list)
      /\ Len(Tail(list)) = Len(list) - 1
      /\ \A k \in 1..(Len(list) - 1) : k + 1 \in 1..Len(list) /\ Tail(list)[k] = list[k + 1]
  BY HeadAndTail
<1>2. Len(list) \in Nat
  BY ProperRanges
<1> QED
  BY <1>1, <1>2 DEF Ordered

\* The next range before the next hole is all to be kept.
LEMMA BeforeHole ==
  ASSUME NEW self, NEW other, NEW result, NEW more, NEW holes,
         Subtracting(self, other, result, more, holes), more # <<>>,
         NEW a \in Head(more).begin..(Head(more).end - 1),
         holes # <<>> => a < Head(holes).begin
  PROVE  a \in Remaining(self, other)
<1>1. /\ Proper(more) /\ Proper(holes) /\ Ordered(holes)
      /\ Covered(more) \subseteq Covered(self)
      /\ \A b \in Covered(other) \ Covered(holes) :
           \A k \in 1..Len(more) : b < more[k].begin
  BY DEF Subtracting
<1>2. /\ Head(more) = more[1] /\ 1 \in 1..Len(more) /\ a \in Covered(more)
      /\ Head(more).begin \in Nat /\ Head(more).end \in Nat
  <2>1. Head(more) = more[1] /\ 1 \in 1..Len(more) /\ a \in Covered(more)
    BY <1>1, HeadAndTail
  <2> QED
    BY <1>1, <2>1, ProperRanges
<1>3. a \notin Covered(holes)
  <2> SUFFICES ASSUME a \in Covered(holes)
               PROVE  FALSE
    OBVIOUS
  <2>1. PICK k \in 1..Len(holes) : a \in holes[k].begin..(holes[k].end - 1)
    BY <1>1, CoveredIs
  <2>2. holes # <<>>
    <3>1. Len(holes) # 0
      BY <2>1
    <3> QED
      BY <3>1, SeqEmpty
  <2>3. Head(holes) = holes[1] /\ 1 \in 1..Len(holes)
    BY <1>1, <2>2, HeadAndTail
  <2>4. /\ holes[1].begin \in Nat /\ holes[1].end \in Nat /\ holes[1].begin < holes[1].end
        /\ holes[k].begin \in Nat /\ holes[k].end \in Nat
    BY <1>1, <2>3, ProperRanges
  <2>5. holes[1].begin <= holes[k].begin
    <3>1. CASE k = 1
      BY <2>4, <3>1
    <3>2. CASE k # 1
      <4>1. 1 < k
        BY <3>2
      <4>2. holes[1].end <= holes[k].begin
        BY <1>1, <2>3, <4>1 DEF Ordered
      <4> QED
        BY <2>4, <4>2
    <3> QED
      BY <3>1, <3>2
  <2> QED
    BY <1>2, <2>1, <2>2, <2>3, <2>4, <2>5
<1>4. ~(a < more[1].begin)
  BY <1>2
<1> QED
  BY <1>1, <1>2, <1>3, <1>4 DEF Remaining

\* What is kept of it fits what is to remain.
LEMMA PieceKept ==
  ASSUME NEW self, NEW other, NEW result, NEW more, NEW holes,
         Subtracting(self, other, result, more, holes), more # <<>>,
         NEW e \in Nat, Head(more).begin < e, e <= Head(more).end,
         holes # <<>> => e <= Head(holes).begin,
         NEW p, p = Push(result, [begin |-> Head(more).begin, end |-> e])
  PROVE  /\ Fits(p, Remaining(self, other))
         /\ Covered(result) \subseteq Covered(p)
         /\ Head(more).begin..(e - 1) \subseteq Covered(p)
<1> DEFINE g == Remaining(self, other)
           b == Head(more).begin
           s == [begin |-> b, end |-> e]
<1>1. /\ Fits(result, g) /\ Proper(self) /\ Proper(more) /\ Proper(holes)
  BY DEF Subtracting
<1>2. /\ Head(more) \in NatRange /\ b \in Nat
      /\ b \in Nat /\ e \in Nat /\ Head(more).end \in Nat
  <2>1. Head(more) \in NatRange
    BY <1>1, HeadAndTail
  <2> QED
    BY <2>1 DEF NatRange
<1>3. holes # <<>> => Head(holes).begin \in Nat
  <2>1. holes # <<>> => Head(holes) \in NatRange
    BY <1>1, HeadAndTail
  <2> QED
    BY <2>1 DEF NatRange
<1>4. b..(e - 1) \subseteq g
  <2> SUFFICES ASSUME NEW a \in b..(e - 1)
               PROVE  a \in g
    OBVIOUS
  <2>1. a \in Head(more).begin..(Head(more).end - 1)
    BY <1>2
  <2>2. holes # <<>> => a < Head(holes).begin
    BY <1>2, <1>3
  <2> QED
    BY <2>1, <2>2, BeforeHole
<1>5. g \subseteq Nat
  BY <1>1, CoveredIs DEF Remaining
<1>6. s \in NatRange /\ s.begin = b /\ s.end = e
  BY <1>2 DEF NatRange
<1>7. b \in g /\ e - 1 \in g
  BY <1>2, <1>4
<1>8. b..(e - 1) \subseteq Padded(g)
  BY <1>4, PaddedGrows
<1> HIDE DEF g, s, b
<1>9. /\ Fits(Push(result, s), g) /\ Covered(result) \subseteq Covered(Push(result, s))
      /\ b..(e - 1) \subseteq Covered(Push(result, s))
  <2>1. s.begin < s.end /\ s.begin \in g /\ s.end - 1 \in g
        /\ s.begin..(s.end - 1) \subseteq Padded(g)
    BY <1>6, <1>7, <1>8 DEF b
  <2> QED
    BY <1>1, <1>5, <1>6, <2>1, PushFits
<1>10. p = Push(result, s)
  BY DEF s, b
<1> QED
  BY <1>9, <1>10 DEF g, b

LEMMA PassKeeps ==
  ASSUME NEW self, NEW other, NEW result, NEW more, NEW holes,
         Subtracting(self, other, result, more, holes), more # <<>>, holes # <<>>,
         Head(holes).end <= Head(more).begin
  PROVE  Subtracting(self, other, result, more, Tail(holes))
<1>1. /\ Proper(more) /\ Ordered(more) /\ Proper(holes) /\ Ordered(holes)
      /\ Covered(holes) \subseteq Covered(other)
      /\ \A b \in Covered(other) \ Covered(holes) :
           \A k \in 1..Len(more) : b < more[k].begin
  BY DEF Subtracting
<1>2. /\ Proper(Tail(holes)) /\ Ordered(Tail(holes))
      /\ \A a : a \in Covered(holes) <=> \/ a \in Head(holes).begin..(Head(holes).end - 1)
                                         \/ a \in Covered(Tail(holes))
      /\ Head(holes) \in NatRange
  BY <1>1, HeadAndTail, TailOrdered
<1>3. Head(holes).begin \in Nat /\ Head(holes).end \in Nat
  BY <1>2 DEF NatRange
<1>4. \A k \in 1..Len(more) : Head(more).begin <= more[k].begin
  <2> TAKE k \in 1..Len(more)
  <2>1. Head(more) = more[1] /\ 1 \in 1..Len(more)
    BY <1>1, HeadAndTail
  <2>2. /\ more[1].begin \in Nat /\ more[1].end \in Nat /\ more[1].begin < more[1].end
        /\ more[k].begin \in Nat
    BY <1>1, <2>1, ProperRanges
  <2>3. 1 < k => more[1].end <= more[k].begin
    BY <1>1, <2>1 DEF Ordered
  <2> QED
    BY <2>1, <2>2, <2>3
<1>5. Head(more).begin \in Nat /\ \A k \in 1..Len(more) : more[k].begin \in Nat
  BY <1>1, ProperRanges, HeadAndTail
<1>6. ASSUME NEW a \in Covered(other) \ Covered(Tail(holes)), NEW k \in 1..Len(more)
      PROVE  a < more[k].begin
  <2>1. CASE a \in Covered(holes)
    <3>1. a \in Head(holes).begin..(Head(holes).end - 1)
      BY <1>2, <2>1
    <3> QED
      BY <1>3, <1>4, <1>5, <3>1
  <2>2. CASE a \notin Covered(holes)
    BY <1>1, <2>2
  <2> QED
    BY <2>1, <2>2
<1>7. Covered(Tail(holes)) \subseteq Covered(other)
  BY <1>1, <1>2
<1> QED
  BY <1>2, <1>6, <1>7 DEF Subtracting

\* The next range is done with: all of it is in the result or in a hole.
LEMMA RangeDone ==
  ASSUME NEW self, NEW other, NEW result, NEW more, NEW holes,
         Subtracting(self, other, result, more, holes), more # <<>>,
         NEW p, Fits(p, Remaining(self, other)), Covered(result) \subseteq Covered(p),
         Head(more).begin..(Head(more).end - 1) \subseteq Covered(p) \union Covered(other)
  PROVE  Subtracting(self, other, p, Tail(more), holes)
<1>1. /\ Proper(self) /\ Proper(other) /\ Proper(more) /\ Ordered(more)
      /\ Proper(holes) /\ Ordered(holes)
      /\ Covered(more) \subseteq Covered(self)
      /\ Covered(holes) \subseteq Covered(other)
      /\ Remaining(self, other) \subseteq Covered(result) \union Covered(more)
      /\ \A b \in Covered(other) \ Covered(holes) :
           \A k \in 1..Len(more) : b < more[k].begin
  BY DEF Subtracting
<1>2. /\ Proper(Tail(more)) /\ Len(Tail(more)) = Len(more) - 1
      /\ \A k \in 1..(Len(more) - 1) : k + 1 \in 1..Len(more) /\ Tail(more)[k] = more[k + 1]
      /\ \A a : a \in Covered(more) <=> \/ a \in Head(more).begin..(Head(more).end - 1)
                                        \/ a \in Covered(Tail(more))
      /\ Ordered(Tail(more))
  BY <1>1, HeadAndTail, TailOrdered
<1>3. Remaining(self, other) \subseteq Covered(p) \union Covered(Tail(more))
  BY <1>1, <1>2 DEF Remaining
<1>4. Covered(Tail(more)) \subseteq Covered(self)
  BY <1>1, <1>2
<1>5. \A b \in Covered(other) \ Covered(holes) :
        \A k \in 1..Len(Tail(more)) : b < Tail(more)[k].begin
  BY <1>1, <1>2
<1> QED
  BY <1>1, <1>2, <1>3, <1>4, <1>5 DEF Subtracting

\* The next range is cut down to what lies behind the hole.
LEMMA RangeCut ==
  ASSUME NEW self, NEW other, NEW result, NEW more, NEW holes,
         Subtracting(self, other, result, more, holes), more # <<>>, holes # <<>>,
         Head(more).begin < Head(holes).end, Head(holes).end < Head(more).end,
         NEW p, Fits(p, Remaining(self, other)), Covered(result) \subseteq Covered(p),
         Head(more).begin..(Head(holes).begin - 1) \subseteq Covered(p)
  PROVE  Subtracting(self, other, p,
           <<[begin |-> Head(holes).end, end |-> Head(more).end]>> \o Tail(more), Tail(holes))
<1> DEFINE x == [begin |-> Head(holes).end, end |-> Head(more).end]
           t == Tail(more)
           y == <<x>> \o t
           n == Len(more)
<1>1. /\ Proper(self) /\ Proper(other) /\ Proper(more) /\ Ordered(more)
      /\ Proper(holes) /\ Ordered(holes)
      /\ Covered(more) \subseteq Covered(self)
      /\ Covered(holes) \subseteq Covered(other)
      /\ Remaining(self, other) \subseteq Covered(result) \union Covered(more)
      /\ \A b \in Covered(other) \ Covered(holes) :
           \A k \in 1..Len(more) : b < more[k].begin
  BY DEF Subtracting
<1>2. /\ Head(more) = more[1] /\ 1 \in 1..n
      /\ Proper(t) /\ Len(t) = n - 1 /\ Ordered(t)
      /\ \A k \in 1..(n - 1) : k + 1 \in 1..n /\ t[k] = more[k + 1]
      /\ \A k \in 1..(n - 1) : Head(more).end <= t[k].begin
      /\ \A a : a \in Covered(more) <=> \/ a \in Head(more).begin..(Head(more).end - 1)
                                        \/ a \in Covered(t)
      /\ Head(more) \in NatRange
  BY <1>1, HeadAndTail, TailOrdered
<1>3. /\ Proper(Tail(holes)) /\ Ordered(Tail(holes))
      /\ \A a : a \in Covered(holes) <=> \/ a \in Head(holes).begin..(Head(holes).end - 1)
                                         \/ a \in Covered(Tail(holes))
      /\ Head(holes) \in NatRange
  BY <1>1, HeadAndTail, TailOrdered
<1>4. /\ Head(holes).begin \in Nat /\ Head(holes).end \in Nat
      /\ Head(more).begin \in Nat /\ Head(more).end \in Nat /\ n \in Nat
      /\ x \in NatRange /\ x.begin = Head(holes).end /\ x.end = Head(more).end
  <2>1. x \in NatRange /\ x.begin = Head(holes).end /\ x.end = Head(more).end
    BY <1>2, <1>3 DEF NatRange
  <2>2. n \in Nat
    BY <1>1, ProperRanges
  <2> QED
    BY <1>2, <1>3, <2>1, <2>2 DEF NatRange
<1> HIDE DEF x, t, n
<1>5. /\ y \in Seq(NatRange) /\ Len(y) = n /\ y[1] = x
      /\ \A k \in 1..n : k # 1 => k - 1 \in 1..(n - 1) /\ y[k] = t[k - 1]
  <2>1. t \in Seq(NatRange)
    BY <1>2 DEF Proper
  <2>2. <<x>> \in Seq(NatRange) /\ Len(<<x>>) = 1 /\ <<x>>[1] = x
    BY <1>4
  <2>3. /\ y \in Seq(NatRange) /\ Len(y) = 1 + Len(t)
        /\ \A k \in 1..(1 + Len(t)) : y[k] = IF k <= 1 THEN <<x>>[k] ELSE t[k - 1]
    <3> HIDE DEF y
    <3>1. y = <<x>> \o t
      BY DEF y
    <3> QED
      BY <2>1, <2>2, <3>1, ConcatProperties
  <2> HIDE DEF y
  <2>4. Len(y) = n
    BY <1>2, <1>4, <2>3
  <2>5. y[1] = x
    BY <1>2, <1>4, <2>2, <2>3
  <2>6. \A k \in 1..n : k # 1 => k - 1 \in 1..(n - 1) /\ y[k] = t[k - 1]
    BY <1>2, <1>4, <2>3
  <2> QED
    BY <2>3, <2>4, <2>5, <2>6
<1> HIDE DEF y
<1>6. \A k \in 1..(n - 1) : t[k].begin < t[k].end /\ t[k].begin \in Nat /\ t[k].end \in Nat
  BY <1>2, ProperRanges
<1>7. Proper(y)
  <2>1. \A k \in 1..n : y[k].begin < y[k].end
    BY <1>4, <1>5, <1>6
  <2> QED
    BY <1>5, <2>1 DEF Proper
<1>8. Ordered(y)
  <2>1. ASSUME NEW i \in 1..n, NEW j \in 1..n, i < j
        PROVE  y[i].end <= y[j].begin
    <3>1. j # 1 /\ j - 1 \in 1..(n - 1) /\ y[j] = t[j - 1]
      BY <1>4, <1>5, <2>1
    <3>2. CASE i = 1
      BY <1>2, <1>4, <1>5, <3>1, <3>2
    <3>3. CASE i # 1
      <4>1. i - 1 \in 1..(n - 1) /\ y[i] = t[i - 1] /\ i - 1 < j - 1
        BY <1>4, <1>5, <2>1, <3>1, <3>3
      <4> QED
        BY <1>2, <3>1, <4>1 DEF Ordered
    <3> QED
      BY <3>2, <3>3
  <2> QED
    BY <1>5, <2>1 DEF Ordered
<1>9. \A a : a \in Covered(y) <=> a \in x.begin..(x.end - 1) \/ a \in Covered(t)
  <2>1. \A a : a \in Covered(y) <=> \E k \in 1..n : a \in y[k].begin..(y[k].end - 1)
    BY <1>5, <1>7, CoveredIs
  <2>2. \A a : a \in Covered(t) <=> \E k \in 1..(n - 1) : a \in t[k].begin..(t[k].end - 1)
    BY <1>2, CoveredIs
  <2>3. \A k \in 1..(n - 1) : k + 1 \in 1..n /\ y[k + 1] = t[k]
    <3> TAKE k \in 1..(n - 1)
    <3>1. k + 1 \in 1..n /\ k + 1 # 1 /\ (k + 1) - 1 = k
      BY <1>4
    <3> QED
      BY <1>5, <3>1
  <2>4. 1 \in 1..n /\ y[1] = x
    BY <1>2, <1>5
  <2>5. \A k \in 1..n : k # 1 => k - 1 \in 1..(n - 1) /\ y[k] = t[k - 1]
    BY <1>4, <1>5
  <2> TAKE a
  <2>6. a \in Covered(y) => a \in x.begin..(x.end - 1) \/ a \in Covered(t)
    <3> SUFFICES ASSUME NEW k \in 1..n, a \in y[k].begin..(y[k].end - 1)
                 PROVE  a \in x.begin..(x.end - 1) \/ a \in Covered(t)
      BY <2>1
    <3> QED
      BY <2>2, <2>4, <2>5
  <2>7. a \in x.begin..(x.end - 1) => a \in Covered(y)
    BY <2>1, <2>4
  <2>8. a \in Covered(t) => a \in Covered(y)
    <3> SUFFICES ASSUME NEW k \in 1..(n - 1), a \in t[k].begin..(t[k].end - 1)
                 PROVE  a \in Covered(y)
      BY <2>2
    <3> QED
      BY <2>1, <2>3
  <2> QED
    BY <2>6, <2>7, <2>8
<1>10. Covered(y) \subseteq Covered(self)
  <2>1. \A a : a \in x.begin..(x.end - 1) => a \in Head(more).begin..(Head(more).end - 1)
    BY <1>4
  <2> QED
    BY <1>1, <1>2, <1>9, <2>1
<1>11. Remaining(self, other) \subseteq Covered(p) \union Covered(y)
  <2> SUFFICES ASSUME NEW a \in Remaining(self, other), a \notin Covered(result),
                      a \notin Covered(t)
               PROVE  a \in Covered(p) \union Covered(y)
    BY <1>9
  <2>1. a \in Head(more).begin..(Head(more).end - 1) /\ a \notin Covered(other)
    BY <1>1, <1>2 DEF Remaining
  <2>2. a \notin Head(holes).begin..(Head(holes).end - 1)
    BY <1>1, <1>3, <2>1
  <2>3. a \in Head(more).begin..(Head(holes).begin - 1) \/ a \in x.begin..(x.end - 1)
    BY <1>4, <2>1, <2>2
  <2> QED
    BY <1>9, <2>3
<1>12. ASSUME NEW a \in Covered(other) \ Covered(Tail(holes)), NEW k \in 1..n
       PROVE  a < y[k].begin
  <2>1. Head(holes).end <= y[k].begin /\ Head(more).begin <= y[k].begin /\ y[k].begin \in Nat
    <3>1. CASE k = 1
      BY <1>4, <1>5, <3>1
    <3>2. CASE k # 1
      <4>1. k - 1 \in 1..(n - 1) /\ y[k] = t[k - 1]
        BY <1>5, <3>2
      <4>2. Head(more).end <= t[k - 1].begin /\ t[k - 1].begin \in Nat
        BY <1>2, <1>6, <4>1
      <4> QED
        BY <1>4, <4>1, <4>2
    <3> QED
      BY <3>1, <3>2
  <2>2. CASE a \in Covered(holes)
    <3>1. a \in Head(holes).begin..(Head(holes).end - 1)
      BY <1>3, <2>2
    <3> QED
      BY <1>4, <2>1, <3>1
  <2>3. CASE a \notin Covered(holes)
    <3>1. a < Head(more).begin
      BY <1>1, <1>2, <2>3 DEF n
    <3>2. a \in Nat
      BY <1>1, CoveredIs
    <3> QED
      BY <1>4, <2>1, <3>1, <3>2
  <2> QED
    BY <2>2, <2>3
<1>13. Covered(Tail(holes)) \subseteq Covered(other)
  BY <1>1, <1>3
<1>14. Subtracting(self, other, p, y, Tail(holes))
  BY <1>1, <1>3, <1>5, <1>7, <1>8, <1>10, <1>11, <1>12, <1>13 DEF Subtracting
<1> QED
  BY <1>14 DEF y, x, t

-----------------------------------------------------------------------------
(***************************************************************************)
(* The loops of RangeLists, each a recursive definition over a list, taken *)
(* apart at the head of the list, as the steps of Ranges take them.        *)
(***************************************************************************)
Lists == {list \in Seq(NatRange) : \A k \in 1..Len(list) : list[k].begin < list[k].end}

LEMMA ListsAreProper == \A list : list \in Lists <=> Proper(list)
  BY DEF Lists, Proper

LEMMA EmptyIsList == <<>> \in Lists
  BY EmptyFits, ListsAreProper DEF Fits

LEMMA PushTyped ==
  ASSUME NEW list \in Lists, NEW r \in NatRange
  PROVE  Push(list, r) \in Lists /\ (r.end <= r.begin => Push(list, r) = list)
<1>1. r.begin \in Nat /\ r.end \in Nat
  BY DEF NatRange
<1>2. CASE r.end <= r.begin
  <2>1. ~(r.end > r.begin)
    BY <1>1, <1>2
  <2> QED
    BY <1>2, <2>1 DEF Push
<1>3. CASE r.begin < r.end
  BY <1>1, <1>3, PushIs, ListsAreProper
<1> QED
  BY <1>1, <1>2, <1>3

LEMMA SpanTyped ==
  ASSUME NEW b \in Nat, NEW e \in Nat
  PROVE  Span(b, e) \in NatRange /\ Span(b, e).begin = b /\ Span(b, e).end = e
  BY DEF Span, NatRange

PushTurn == [p \in Lists \X NatRange |-> Push(p[1], p[2])]

LEMMA PushTurnIs ==
  /\ PushTurn \in [Lists \X NatRange -> Lists]
  /\ \A list \in Lists, r \in NatRange : PushTurn[<<list, r>>] = Push(list, r)
<1>1. \A p \in Lists \X NatRange : p[1] \in Lists /\ p[2] \in NatRange
  OBVIOUS
<1>2. \A p \in Lists \X NatRange : Push(p[1], p[2]) \in Lists
  BY <1>1, PushTyped
<1>3. \A list \in Lists, r \in NatRange :
        /\ <<list, r>> \in Lists \X NatRange
        /\ <<list, r>>[1] = list /\ <<list, r>>[2] = r
  OBVIOUS
<1> QED
  BY <1>2, <1>3 DEF PushTurn

LEMMA PushAllIs ==
  ASSUME NEW list \in Lists, NEW more \in Seq(NatRange)
  PROVE  /\ IsLoop(NatRange, Lists, more, list, PushTurn)
         /\ PushAll(list, more) = Outcome(more, list, PushTurn)
         /\ PushAll(list, more) \in Lists
<1> DEFINE at == CHOOSE f : f = [n \in 0..Len(more) |->
                                   IF n = 0 THEN list ELSE Push(f[n - 1], more[n])]
<1>1. IsLoop(NatRange, Lists, more, list, PushTurn)
  BY PushTurnIs DEF IsLoop
<1>2. /\ Len(more) \in Nat /\ \A n \in 1..Len(more) : more[n] \in NatRange
      /\ \A n \in 0..Len(more) : n = 0 \/ n \in 1..Len(more)
      /\ \A n \in 1..Len(more) : n \in 0..Len(more) /\ n # 0
      /\ 0 \in 0..Len(more)
  OBVIOUS
<1>3. PICK f : Turns(more, list, PushTurn, f)
  BY <1>1, TurnsExist
<1>4. /\ f \in [0..Len(more) -> Lists] /\ f[0] = list
      /\ \A n \in 1..Len(more) : n - 1 \in 0..Len(more) /\ f[n] = PushTurn[<<f[n - 1], more[n]>>]
  BY <1>1, <1>3, TurnsAre
<1>5. f = [n \in 0..Len(more) |-> IF n = 0 THEN list ELSE Push(f[n - 1], more[n])]
  <2>1. \A n \in 1..Len(more) : f[n] = Push(f[n - 1], more[n])
    BY <1>2, <1>4, PushTurnIs
  <2> QED
    BY <1>2, <1>4, <2>1
<1>6. at = [n \in 0..Len(more) |-> IF n = 0 THEN list ELSE Push(at[n - 1], more[n])]
  BY <1>5
<1>7. PushAll(list, more) = at[Len(more)]
  BY DEF PushAll
<1> HIDE DEF at
<1>8. at[0] = list /\ \A n \in 1..Len(more) : at[n] = Push(at[n - 1], more[n])
  BY <1>2, <1>6
<1>9. \A n \in 1..Len(more) : at[n - 1] \in Lists => at[n] = PushTurn[<<at[n - 1], more[n]>>]
  BY <1>2, <1>8, PushTurnIs
<1> QED
  BY <1>1, <1>7, <1>8, <1>9, OutcomeIs

LEMMA PushAllFront ==
  ASSUME NEW list \in Lists, NEW more \in Seq(NatRange), more # <<>>
  PROVE  PushAll(list, more) = PushAll(Push(list, Head(more)), Tail(more))
<1>1. Head(more) \in NatRange /\ Tail(more) \in Seq(NatRange)
  OBVIOUS
<1>2. Push(list, Head(more)) \in Lists /\ PushTurn[<<list, Head(more)>>] = Push(list, Head(more))
  BY <1>1, PushTyped, PushTurnIs
<1>3. /\ IsLoop(NatRange, Lists, more, list, PushTurn)
      /\ PushAll(list, more) = Outcome(more, list, PushTurn)
  BY PushAllIs
<1>4. PushAll(Push(list, Head(more)), Tail(more))
        = Outcome(Tail(more), Push(list, Head(more)), PushTurn)
  BY <1>1, <1>2, PushAllIs
<1>5. Outcome(more, list, PushTurn)
        = Outcome(Tail(more), PushTurn[<<list, Head(more)>>], PushTurn)
  BY <1>3, OutcomeFront
<1> QED
  BY <1>2, <1>3, <1>4, <1>5

LEMMA PushAllEmpty ==
  ASSUME NEW list \in Lists
  PROVE  PushAll(list, <<>>) = list
<1>1. <<>> \in Seq(NatRange)
  OBVIOUS
<1> QED
  BY <1>1, PushAllIs, PushTurnIs, OutcomeEmpty

\* What is cut out of a range, hole by hole.
CutStates == [from : Nat, out : Lists]
CutTurn(r) == [p \in CutStates \X NatRange |-> CutOut(p[1], r, p[2])]
AtBegin(list, r) == [from |-> r.begin, out |-> list]
CutOff(cut, r) == IF cut.from < r.end THEN Push(cut.out, Span(cut.from, r.end)) ELSE cut.out

LEMMA CutTyped ==
  ASSUME NEW acc \in CutStates, NEW r \in NatRange, NEW h \in NatRange
  PROVE  CutOut(acc, r, h) \in CutStates
<1> DEFINE out == IF h.begin > acc.from THEN Push(acc.out, Span(acc.from, h.begin)) ELSE acc.out
<1>1. /\ acc.from \in Nat /\ acc.out \in Lists /\ h.end \in Nat /\ h.begin \in Nat
  BY DEF CutStates, NatRange
<1>2. out \in Lists
  <2>1. Span(acc.from, h.begin) \in NatRange
    BY <1>1, SpanTyped
  <2>2. Push(acc.out, Span(acc.from, h.begin)) \in Lists
    BY <1>1, <2>1, PushTyped
  <2> QED
    BY <1>1, <2>2
<1> HIDE DEF out
<1>3. [from |-> h.end, out |-> out] \in CutStates
  BY <1>1, <1>2 DEF CutStates
<1>4. CutOut(acc, r, h) = IF h.end <= acc.from \/ h.begin >= r.end THEN acc
                          ELSE [from |-> h.end, out |-> out]
  BY DEF CutOut, out
<1> QED
  BY <1>3, <1>4

LEMMA CutTurnIs ==
  ASSUME NEW r \in NatRange
  PROVE  /\ CutTurn(r) \in [CutStates \X NatRange -> CutStates]
         /\ \A acc \in CutStates, h \in NatRange : CutTurn(r)[<<acc, h>>] = CutOut(acc, r, h)
<1>1. \A p \in CutStates \X NatRange : p[1] \in CutStates /\ p[2] \in NatRange
  OBVIOUS
<1>2. \A p \in CutStates \X NatRange : CutOut(p[1], r, p[2]) \in CutStates
  BY <1>1, CutTyped
<1>3. \A acc \in CutStates, h \in NatRange :
        /\ <<acc, h>> \in CutStates \X NatRange
        /\ <<acc, h>>[1] = acc /\ <<acc, h>>[2] = h
  OBVIOUS
<1> QED
  BY <1>2, <1>3 DEF CutTurn

LEMMA AtBeginTyped ==
  ASSUME NEW list \in Lists, NEW r \in NatRange
  PROVE  AtBegin(list, r) \in CutStates
  BY DEF AtBegin, CutStates, NatRange

LEMMA CutOffTyped ==
  ASSUME NEW cut \in CutStates, NEW r \in NatRange
  PROVE  CutOff(cut, r) \in Lists
<1>1. cut.from \in Nat /\ cut.out \in Lists /\ r.end \in Nat
  BY DEF CutStates, NatRange
<1>2. Span(cut.from, r.end) \in NatRange
  BY <1>1, SpanTyped
<1>3. Push(cut.out, Span(cut.from, r.end)) \in Lists
  BY <1>1, <1>2, PushTyped
<1> QED
  BY <1>1, <1>3 DEF CutOff

LEMMA WithoutIs ==
  ASSUME NEW list \in Lists, NEW r \in NatRange, NEW holes \in Seq(NatRange)
  PROVE  /\ IsLoop(NatRange, CutStates, holes, AtBegin(list, r), CutTurn(r))
         /\ Without(list, r, holes) = CutOff(Outcome(holes, AtBegin(list, r), CutTurn(r)), r)
         /\ Without(list, r, holes) \in Lists
<1> DEFINE start == AtBegin(list, r)
           at == CHOOSE f : f = [n \in 0..Len(holes) |->
                                   IF n = 0 THEN [from |-> r.begin, out |-> list]
                                   ELSE CutOut(f[n - 1], r, holes[n])]
<1>1. IsLoop(NatRange, CutStates, holes, start, CutTurn(r))
  BY AtBeginTyped, CutTurnIs DEF IsLoop
<1>2. /\ Len(holes) \in Nat /\ \A n \in 1..Len(holes) : holes[n] \in NatRange
      /\ \A n \in 0..Len(holes) : n = 0 \/ n \in 1..Len(holes)
      /\ \A n \in 1..Len(holes) : n \in 0..Len(holes) /\ n # 0
      /\ 0 \in 0..Len(holes)
  OBVIOUS
<1>3. PICK f : Turns(holes, start, CutTurn(r), f)
  BY <1>1, TurnsExist
<1>4. /\ f \in [0..Len(holes) -> CutStates] /\ f[0] = start
      /\ \A n \in 1..Len(holes) : /\ n - 1 \in 0..Len(holes)
                                  /\ f[n] = CutTurn(r)[<<f[n - 1], holes[n]>>]
  BY <1>1, <1>3, TurnsAre
<1>5. start = [from |-> r.begin, out |-> list]
  BY DEF AtBegin
<1>6. f = [n \in 0..Len(holes) |-> IF n = 0 THEN start ELSE CutOut(f[n - 1], r, holes[n])]
  <2>1. ASSUME NEW n \in 1..Len(holes)
        PROVE  f[n] = CutOut(f[n - 1], r, holes[n])
    <3>1. f[n - 1] \in CutStates /\ holes[n] \in NatRange
      BY <1>2, <1>4
    <3>2. CutTurn(r)[<<f[n - 1], holes[n]>>] = CutOut(f[n - 1], r, holes[n])
      BY <3>1, CutTurnIs
    <3> QED
      BY <1>4, <3>2
  <2> QED
    BY <1>2, <1>4, <2>1
<1>7. at = [n \in 0..Len(holes) |-> IF n = 0 THEN start ELSE CutOut(at[n - 1], r, holes[n])]
  BY <1>5, <1>6
<1>8. Without(list, r, holes) = CutOff(at[Len(holes)], r)
  BY DEF Without, CutOff
<1> HIDE DEF at, start
<1>9. at[0] = start /\ \A n \in 1..Len(holes) : at[n] = CutOut(at[n - 1], r, holes[n])
  BY <1>2, <1>7
<1>10. \A n \in 1..Len(holes) :
         at[n - 1] \in CutStates => at[n] = CutTurn(r)[<<at[n - 1], holes[n]>>]
  BY <1>2, <1>9, CutTurnIs
<1>11. /\ at[Len(holes)] = Outcome(holes, start, CutTurn(r)) /\ at[Len(holes)] \in CutStates
  BY <1>1, <1>9, <1>10, OutcomeIs
<1> QED
  BY <1>1, <1>8, <1>11, CutOffTyped DEF start

WithoutTurn(holes) == [p \in Lists \X NatRange |-> Without(p[1], p[2], holes)]

LEMMA WithoutTurnIs ==
  ASSUME NEW holes \in Seq(NatRange)
  PROVE  /\ WithoutTurn(holes) \in [Lists \X NatRange -> Lists]
         /\ \A list \in Lists, r \in NatRange :
              WithoutTurn(holes)[<<list, r>>] = Without(list, r, holes)
<1>1. \A p \in Lists \X NatRange : p[1] \in Lists /\ p[2] \in NatRange
  OBVIOUS
<1>2. \A p \in Lists \X NatRange : Without(p[1], p[2], holes) \in Lists
  BY <1>1, WithoutIs
<1>3. \A list \in Lists, r \in NatRange :
        /\ <<list, r>> \in Lists \X NatRange
        /\ <<list, r>>[1] = list /\ <<list, r>>[2] = r
  OBVIOUS
<1> QED
  BY <1>2, <1>3 DEF WithoutTurn

LEMMA WithoutAllIs ==
  ASSUME NEW list \in Lists, NEW more \in Seq(NatRange), NEW holes \in Seq(NatRange)
  PROVE  /\ IsLoop(NatRange, Lists, more, list, WithoutTurn(holes))
         /\ WithoutAll(list, more, holes) = Outcome(more, list, WithoutTurn(holes))
         /\ WithoutAll(list, more, holes) \in Lists
<1> DEFINE at == CHOOSE f : f = [n \in 0..Len(more) |->
                                   IF n = 0 THEN list ELSE Without(f[n - 1], more[n], holes)]
           turn == WithoutTurn(holes)
<1>1. IsLoop(NatRange, Lists, more, list, turn)
  BY WithoutTurnIs DEF IsLoop
<1>2. /\ Len(more) \in Nat /\ \A n \in 1..Len(more) : more[n] \in NatRange
      /\ \A n \in 0..Len(more) : n = 0 \/ n \in 1..Len(more)
      /\ \A n \in 1..Len(more) : n \in 0..Len(more) /\ n # 0
      /\ 0 \in 0..Len(more)
  OBVIOUS
<1>3. PICK f : Turns(more, list, turn, f)
  BY <1>1, TurnsExist
<1>4. /\ f \in [0..Len(more) -> Lists] /\ f[0] = list
      /\ \A n \in 1..Len(more) : n - 1 \in 0..Len(more) /\ f[n] = turn[<<f[n - 1], more[n]>>]
  BY <1>1, <1>3, TurnsAre
<1>5. f = [n \in 0..Len(more) |-> IF n = 0 THEN list ELSE Without(f[n - 1], more[n], holes)]
  <2>1. \A n \in 1..Len(more) : f[n] = Without(f[n - 1], more[n], holes)
    BY <1>2, <1>4, WithoutTurnIs
  <2> QED
    BY <1>2, <1>4, <2>1
<1>6. at = [n \in 0..Len(more) |-> IF n = 0 THEN list ELSE Without(at[n - 1], more[n], holes)]
  BY <1>5
<1>7. WithoutAll(list, more, holes) = at[Len(more)]
  BY DEF WithoutAll
<1> HIDE DEF at
<1>8. at[0] = list /\ \A n \in 1..Len(more) : at[n] = Without(at[n - 1], more[n], holes)
  BY <1>2, <1>6
<1>9. \A n \in 1..Len(more) : at[n - 1] \in Lists => at[n] = turn[<<at[n - 1], more[n]>>]
  BY <1>2, <1>8, WithoutTurnIs
<1> HIDE DEF turn
<1>10. at[Len(more)] = Outcome(more, list, turn) /\ at[Len(more)] \in Lists
  BY <1>1, <1>8, <1>9, OutcomeIs
<1> QED
  BY <1>1, <1>7, <1>10 DEF turn

\* Holes that lie behind the range, or behind what is left of it, leave it as it is.
LEMMA CutsBehind ==
  ASSUME NEW acc \in CutStates, NEW r \in NatRange, NEW holes \in Seq(NatRange),
         \A k \in 1..Len(holes) : holes[k].begin >= r.end
  PROVE  Outcome(holes, acc, CutTurn(r)) = acc
<1>1. IsLoop(NatRange, CutStates, holes, acc, CutTurn(r))
  BY CutTurnIs DEF IsLoop
<1>2. \A k \in 1..Len(holes) : holes[k] \in NatRange
  OBVIOUS
<1>3. \A k \in 1..Len(holes) : CutTurn(r)[<<acc, holes[k]>>] = acc
  <2> TAKE k \in 1..Len(holes)
  <2>1. holes[k] \in NatRange
    BY <1>2
  <2>2. CutTurn(r)[<<acc, holes[k]>>] = CutOut(acc, r, holes[k])
    BY <2>1, CutTurnIs
  <2> QED
    BY <2>2 DEF CutOut
<1>4. \A x \in CutStates : x \in {acc} => \A n \in 1..Len(holes) : CutTurn(r)[<<x, holes[n]>>] \in {acc}
  BY <1>3
<1>5. Outcome(holes, acc, CutTurn(r)) \in {acc}
  <2>1. acc \in {acc}
    OBVIOUS
  <2> QED
    BY <1>1, <1>4, <2>1, OutcomeKeeps
<1> QED
  BY <1>5

LEMMA WithoutBehind ==
  ASSUME NEW list \in Lists, NEW r \in NatRange, r.begin < r.end, NEW holes \in Seq(NatRange),
         \A k \in 1..Len(holes) : holes[k].begin >= r.end
  PROVE  Without(list, r, holes) = Push(list, r)
<1>1. Outcome(holes, AtBegin(list, r), CutTurn(r)) = AtBegin(list, r)
  BY AtBeginTyped, CutsBehind
<1>2. Without(list, r, holes) = CutOff(AtBegin(list, r), r)
  BY <1>1, WithoutIs
<1>3. AtBegin(list, r).from = r.begin /\ AtBegin(list, r).out = list
  BY DEF AtBegin
<1>4. Span(r.begin, r.end) = r
  BY DEF Span, NatRange
<1> QED
  BY <1>2, <1>3, <1>4 DEF CutOff

\* The first hole makes the first cut.
LEMMA WithoutFront ==
  ASSUME NEW list \in Lists, NEW r \in NatRange, NEW holes \in Seq(NatRange), holes # <<>>
  PROVE  /\ CutOut(AtBegin(list, r), r, Head(holes)) \in CutStates
         /\ Without(list, r, holes)
              = CutOff(Outcome(Tail(holes), CutOut(AtBegin(list, r), r, Head(holes)), CutTurn(r)), r)
<1>1. Head(holes) \in NatRange /\ AtBegin(list, r) \in CutStates
  BY AtBeginTyped
<1>2. CutTurn(r)[<<AtBegin(list, r), Head(holes)>>] = CutOut(AtBegin(list, r), r, Head(holes))
  BY <1>1, CutTurnIs
<1>3. /\ IsLoop(NatRange, CutStates, holes, AtBegin(list, r), CutTurn(r))
      /\ Without(list, r, holes) = CutOff(Outcome(holes, AtBegin(list, r), CutTurn(r)), r)
  BY WithoutIs
<1>4. Outcome(holes, AtBegin(list, r), CutTurn(r))
        = Outcome(Tail(holes), CutTurn(r)[<<AtBegin(list, r), Head(holes)>>], CutTurn(r))
  BY <1>3, OutcomeFront
<1> QED
  BY <1>1, <1>2, <1>3, <1>4, CutTyped

\* A hole before the range leaves it alone.
LEMMA WithoutPassed ==
  ASSUME NEW list \in Lists, NEW r \in NatRange, NEW holes \in Seq(NatRange), holes # <<>>,
         Head(holes).end <= r.begin
  PROVE  Without(list, r, holes) = Without(list, r, Tail(holes))
<1>1. CutOut(AtBegin(list, r), r, Head(holes)) = AtBegin(list, r)
  <2>1. AtBegin(list, r).from = r.begin
    BY DEF AtBegin
  <2> QED
    BY <2>1 DEF CutOut
<1>2. Tail(holes) \in Seq(NatRange)
  OBVIOUS
<1>3. Without(list, r, Tail(holes))
        = CutOff(Outcome(Tail(holes), AtBegin(list, r), CutTurn(r)), r)
  BY <1>2, WithoutIs
<1> QED
  BY <1>1, <1>3, WithoutFront

\* A hole that begins in the range or before and ends in it or behind cuts it.
LEMMA WithoutCut ==
  ASSUME NEW list \in Lists, NEW r \in NatRange, NEW holes \in Seq(NatRange), holes # <<>>,
         Head(holes).end > r.begin, Head(holes).begin < r.end,
         NEW out, out = IF Head(holes).begin > r.begin
                        THEN Push(list, Span(r.begin, Head(holes).begin)) ELSE list
  PROVE  /\ out \in Lists
         /\ Head(holes).end < r.end =>
              Without(list, r, holes) = Without(out, Span(Head(holes).end, r.end), Tail(holes))
         /\ Head(holes).end >= r.end /\ (\A k \in 1..Len(Tail(holes)) : Tail(holes)[k].begin >= r.end)
              => Without(list, r, holes) = out
<1> DEFINE h == Head(holes)
           t == Tail(holes)
           s == Span(h.end, r.end)
           cut == CutOut(AtBegin(list, r), r, h)
<1>1. h \in NatRange /\ t \in Seq(NatRange)
  OBVIOUS
<1>2. h.begin \in Nat /\ h.end \in Nat /\ r.begin \in Nat /\ r.end \in Nat
  BY <1>1 DEF NatRange
<1>3. cut \in CutStates /\ Without(list, r, holes) = CutOff(Outcome(t, cut, CutTurn(r)), r)
  BY WithoutFront
<1> HIDE DEF t, h
<1>4. cut = [from |-> h.end, out |-> out]
  <2>1. AtBegin(list, r).from = r.begin /\ AtBegin(list, r).out = list
    BY DEF AtBegin
  <2>2. ~(h.end <= r.begin) /\ ~(h.begin >= r.end)
    BY <1>2 DEF h
  <2> QED
    BY <2>1, <2>2 DEF CutOut, h
<1> HIDE DEF cut
<1>5. out \in Lists
  BY <1>3, <1>4 DEF CutStates
<1>6. ASSUME h.end < r.end
      PROVE  Without(list, r, holes) = Without(out, s, t)
  <2>1. s \in NatRange /\ s.begin = h.end /\ s.end = r.end
    BY <1>2, SpanTyped
  <2>2. AtBegin(out, s) = cut
    BY <1>4, <2>1 DEF AtBegin
  <2>3. CutTurn(s) = CutTurn(r)
    <3>1. \A p \in CutStates \X NatRange : CutOut(p[1], s, p[2]) = CutOut(p[1], r, p[2])
      BY <2>1 DEF CutOut
    <3> QED
      BY <3>1 DEF CutTurn
  <2>4. \A c : CutOff(c, s) = CutOff(c, r)
    BY <2>1 DEF CutOff
  <2> HIDE DEF s
  <2>5. Without(out, s, t) = CutOff(Outcome(t, AtBegin(out, s), CutTurn(s)), s)
    BY <1>1, <1>5, <2>1, WithoutIs
  <2> QED
    BY <1>3, <2>2, <2>3, <2>4, <2>5
<1>7. ASSUME h.end >= r.end, \A k \in 1..Len(t) : t[k].begin >= r.end
      PROVE  Without(list, r, holes) = out
  <2>1. Outcome(t, cut, CutTurn(r)) = cut
    BY <1>1, <1>3, <1>7, CutsBehind
  <2>2. ~(cut.from < r.end) /\ cut.out = out
    BY <1>2, <1>4, <1>7
  <2> QED
    BY <1>3, <2>1, <2>2 DEF CutOff
<1> QED
  BY <1>5, <1>6, <1>7 DEF h, t, s

LEMMA WithoutAllFront ==
  ASSUME NEW list \in Lists, NEW more \in Seq(NatRange), NEW holes \in Seq(NatRange),
         more # <<>>
  PROVE  WithoutAll(list, more, holes)
           = WithoutAll(Without(list, Head(more), holes), Tail(more), holes)
<1> DEFINE first == Without(list, Head(more), holes)
<1>1. Head(more) \in NatRange /\ Tail(more) \in Seq(NatRange)
  OBVIOUS
<1>2. first \in Lists /\ WithoutTurn(holes)[<<list, Head(more)>>] = first
  BY <1>1, WithoutIs, WithoutTurnIs
<1>3. /\ IsLoop(NatRange, Lists, more, list, WithoutTurn(holes))
      /\ WithoutAll(list, more, holes) = Outcome(more, list, WithoutTurn(holes))
  BY WithoutAllIs
<1> HIDE DEF first
<1>4. WithoutAll(first, Tail(more), holes) = Outcome(Tail(more), first, WithoutTurn(holes))
  BY <1>1, <1>2, WithoutAllIs
<1>5. Outcome(more, list, WithoutTurn(holes))
        = Outcome(Tail(more), WithoutTurn(holes)[<<list, Head(more)>>], WithoutTurn(holes))
  BY <1>3, OutcomeFront
<1> QED
  BY <1>2, <1>3, <1>4, <1>5 DEF first

LEMMA WithoutAllEmpty ==
  ASSUME NEW list \in Lists, NEW holes \in Seq(NatRange)
  PROVE  WithoutAll(list, <<>>, holes) = list
<1>1. <<>> \in Seq(NatRange)
  OBVIOUS
<1>2. WithoutAll(list, <<>>, holes) = Outcome(<<>>, list, WithoutTurn(holes))
  BY <1>1, WithoutAllIs
<1>3. WithoutTurn(holes) \in [Lists \X NatRange -> Lists]
  BY WithoutTurnIs
<1> QED
  BY <1>2, <1>3, OutcomeEmpty

\* A hole before all of the ranges leaves them alone.
LEMMA WithoutAllPassed ==
  ASSUME NEW list \in Lists, NEW more \in Seq(NatRange), NEW holes \in Seq(NatRange),
         holes # <<>>, \A k \in 1..Len(more) : Head(holes).end <= more[k].begin
  PROVE  WithoutAll(list, more, holes) = WithoutAll(list, more, Tail(holes))
<1> DEFINE t == Tail(holes)
           turn == WithoutTurn(holes)
           less == WithoutTurn(t)
<1>1. t \in Seq(NatRange)
  OBVIOUS
<1>2. /\ IsLoop(NatRange, Lists, more, list, less)
      /\ WithoutAll(list, more, t) = Outcome(more, list, less)
  BY <1>1, WithoutAllIs
<1>3. /\ IsLoop(NatRange, Lists, more, list, turn)
      /\ WithoutAll(list, more, holes) = Outcome(more, list, turn)
  BY WithoutAllIs
<1>4. PICK f \in [0..Len(more) -> Lists] :
        /\ f[0] = list /\ f[Len(more)] = Outcome(more, list, turn)
        /\ \A n \in 1..Len(more) : /\ n - 1 \in 0..Len(more) /\ n \in 0..Len(more)
                                   /\ f[n] = turn[<<f[n - 1], more[n]>>]
  BY <1>3, OutcomeOf
<1>5. ASSUME NEW n \in 1..Len(more)
      PROVE  f[n] = less[<<f[n - 1], more[n]>>]
  <2>1. f[n - 1] \in Lists /\ more[n] \in NatRange
    BY <1>4
  <2>2. turn[<<f[n - 1], more[n]>>] = Without(f[n - 1], more[n], holes)
    BY <2>1, WithoutTurnIs
  <2>3. less[<<f[n - 1], more[n]>>] = Without(f[n - 1], more[n], t)
    BY <1>1, <2>1, WithoutTurnIs
  <2>4. Without(f[n - 1], more[n], holes) = Without(f[n - 1], more[n], t)
    BY <2>1, WithoutPassed
  <2> QED
    BY <1>4, <2>2, <2>3, <2>4
<1> HIDE DEF less, turn, t
<1>6. f[Len(more)] = Outcome(more, list, less)
  BY SMTT(30), <1>2, <1>4, <1>5, OutcomeIs
<1> QED
  BY <1>2, <1>3, <1>4, <1>6 DEF t

-----------------------------------------------------------------------------
(* The invariant: what each phase has made of the two lists and the result. *)
Names == {"self", "other", "result"}
Listed(name) == Fits(lists[name], given[name]) /\ given[name] \subseteq Covered(lists[name])
InList(name) == Listed(name) /\ Disjoint(lists[name])
Left == Remaining(lists.self, lists.other)

PhaseInv ==
  \/ phase = "fill" /\ Listed("self") /\ Listed("other") /\ lists.result = <<>>
  \/ /\ phase = "sort" /\ sorting = "self"
     /\ Sorting(lists.self, rest, given.self) /\ Listed("other") /\ lists.result = <<>>
  \/ /\ phase = "sort" /\ sorting = "other"
     /\ InList("self") /\ Sorting(lists.other, rest, given.other) /\ lists.result = <<>>
  \/ /\ phase = "subtract" /\ InList("self") /\ InList("other")
     /\ Subtracting(lists.self, lists.other, lists.result, rest, others)
  \/ /\ phase = "sort" /\ sorting = "result" /\ InList("self") /\ InList("other")
     /\ Sorting(lists.result, rest, Left)
  \/ /\ phase = "done" /\ InList("self") /\ InList("other")
     /\ Fits(lists.result, Left) /\ Left \subseteq Covered(lists.result)
     /\ Disjoint(lists.result)

RangeInv ==
  /\ DOMAIN lists = Names /\ DOMAIN given = {"self", "other"}
  /\ given.self \subseteq Nat /\ given.other \subseteq Nat
  /\ PhaseInv

LEMMA RangeInit == Init => RangeInv
<1> SUFFICES ASSUME Init
             PROVE  RangeInv
  OBVIOUS
<1>1. /\ lists = [self |-> <<>>, other |-> <<>>, result |-> <<>>]
      /\ given = [self |-> {}, other |-> {}] /\ phase = "fill"
  BY DEF Init
<1>2. DOMAIN lists = Names /\ DOMAIN given = {"self", "other"}
  BY <1>1 DEF Names
<1>3. lists.self = <<>> /\ lists.other = <<>> /\ lists.result = <<>>
      /\ given.self = {} /\ given.other = {}
  BY <1>1
<1>4. Listed("self") /\ Listed("other")
  BY <1>3, EmptyFits DEF Listed
<1> QED
  BY <1>1, <1>2, <1>3, <1>4 DEF RangeInv, PhaseInv

\* A range more for a list that is being filled.
LEMMA FillKeeps ==
  ASSUME NEW list, NEW g, g \subseteq Nat, Fits(list, g), g \subseteq Covered(list),
         NEW r \in NatRange
  PROVE  /\ g \union Covered(<<r>>) \subseteq Nat
         /\ Fits(Push(list, r), g \union Covered(<<r>>))
         /\ g \union Covered(<<r>>) \subseteq Covered(Push(list, r))
<1>1. r.begin \in Nat /\ r.end \in Nat
  BY DEF NatRange
<1>2. Covered(<<r>>) = r.begin..(r.end - 1)
  <2>1. DOMAIN <<r>> = {1} /\ <<r>>[1] = r
    OBVIOUS
  <2> QED
    BY <2>1 DEF Covered
<1>3. CASE r.end <= r.begin
  <2>1. Push(list, r) = list
    <3>1. r.end <= r.begin /\ ~(r.end > r.begin)
      BY <1>1, <1>3
    <3> QED
      BY <3>1 DEF Push
  <2>2. Covered(<<r>>) = {}
    BY <1>1, <1>2, <1>3
  <2> QED
    BY <2>1, <2>2
<1>4. CASE r.begin < r.end
  <2> DEFINE h == g \union Covered(<<r>>)
  <2>1. h \subseteq Nat
    <3>1. r.begin..(r.end - 1) \subseteq Nat
      BY DEF NatRange
    <3> QED
      BY <1>2, <3>1
  <2>2. g \subseteq h /\ r.begin..(r.end - 1) \subseteq h /\ r.begin \in h /\ r.end - 1 \in h
    BY <1>1, <1>2, <1>4
  <2> HIDE DEF h
  <2>3. Fits(list, h)
    <3>1. Padded(g) \subseteq Padded(h)
      BY <2>2, PaddedGrows
    <3> QED
      BY <2>2, <3>1 DEF Fits
  <2>4. r.begin..(r.end - 1) \subseteq Padded(h)
    BY <2>2, PaddedGrows
  <2>5. /\ Fits(Push(list, r), h) /\ Covered(list) \subseteq Covered(Push(list, r))
        /\ r.begin..(r.end - 1) \subseteq Covered(Push(list, r))
    BY <1>4, <2>1, <2>2, <2>3, <2>4, PushFits
  <2> QED
    BY <1>2, <2>1, <2>5 DEF h
<1> QED
  BY <1>1, <1>3, <1>4

LEMMA FillStep ==
  ASSUME RangeInv, NEW name \in {"self", "other"}, Fill(name)
  PROVE  RangeInv'
<1>1. /\ phase = "fill" /\ phase' = "fill"
      /\ DOMAIN lists = Names /\ DOMAIN given = {"self", "other"}
      /\ given.self \subseteq Nat /\ given.other \subseteq Nat
      /\ Listed("self") /\ Listed("other") /\ lists.result = <<>>
  BY DEF Fill, RangeInv, PhaseInv
<1>2. PICK r \in NatRange :
        /\ lists' = [lists EXCEPT ![name] = Push(lists[name], r)]
        /\ given' = [given EXCEPT ![name] = given[name] \union Covered(<<r>>)]
  BY AddressRangesAreNat DEF Fill
<1>3. /\ given[name] \union Covered(<<r>>) \subseteq Nat
      /\ Fits(Push(lists[name], r), given[name] \union Covered(<<r>>))
      /\ given[name] \union Covered(<<r>>) \subseteq Covered(Push(lists[name], r))
  <2>1. given[name] \subseteq Nat /\ Listed(name)
    BY <1>1
  <2> QED
    BY <2>1, FillKeeps DEF Listed
<1>4. DOMAIN lists' = Names /\ DOMAIN given' = {"self", "other"} /\ lists'.result = <<>>
  BY <1>1, <1>2 DEF Names
<1>5. ASSUME NEW m \in {"self", "other"}
      PROVE  given'[m] \subseteq Nat /\ Listed(m)'
  <2>1. CASE m = name
    <3>1. lists'[m] = Push(lists[name], r) /\ given'[m] = given[name] \union Covered(<<r>>)
      BY <1>1, <1>2, <2>1 DEF Names
    <3> QED
      BY <1>3, <3>1 DEF Listed
  <2>2. CASE m # name
    <3>1. lists'[m] = lists[m] /\ given'[m] = given[m]
      BY <1>1, <1>2, <2>2 DEF Names
    <3>2. Listed(m) /\ given[m] \subseteq Nat
      BY <1>1
    <3> QED
      BY <3>1, <3>2 DEF Listed
  <2> QED
    BY <2>1, <2>2
<1> QED
  BY <1>1, <1>4, <1>5 DEF RangeInv, PhaseInv

LEMMA RemainingAddresses ==
  ASSUME NEW self, NEW other, Proper(self)
  PROVE  Remaining(self, other) \subseteq Nat
  BY CoveredIs DEF Remaining

LEMMA InListProper ==
  ASSUME NEW name, InList(name)
  PROVE  Proper(lists[name]) /\ Ordered(lists[name])
<1>1. Proper(lists[name]) /\ Disjoint(lists[name])
  BY DEF InList, Listed, Fits
<1> QED
  BY <1>1, DisjointOrdered

LEMMA FilledStep ==
  ASSUME RangeInv, Filled
  PROVE  RangeInv'
<1>1. /\ phase = "fill" /\ phase' = "sort" /\ sorting' = "self"
      /\ rest' = ByBegin(lists.self) /\ lists' = [lists EXCEPT !.self = <<>>]
      /\ given' = given
  BY DEF Filled, BeginSort
<1>2. /\ DOMAIN lists = Names /\ Listed("self") /\ Listed("other") /\ lists.result = <<>>
  BY <1>1 DEF RangeInv, PhaseInv
<1>3. /\ DOMAIN lists' = Names /\ lists'.self = <<>> /\ lists'.other = lists.other
      /\ lists'.result = <<>>
  BY <1>1, <1>2 DEF Names
<1>4. Sorting(lists'.self, rest', given'.self)
  BY <1>1, <1>2, <1>3, SortStarts DEF Listed
<1>5. Listed("other")'
  BY <1>1, <1>2, <1>3 DEF Listed
<1> QED
  BY <1>1, <1>3, <1>4, <1>5 DEF RangeInv, PhaseInv

LEMMA SortStepKeeps ==
  ASSUME RangeInv, SortStep
  PROVE  RangeInv'
<1>1. /\ phase = "sort" /\ phase' = "sort" /\ sorting' = sorting /\ given' = given
      /\ rest # <<>> /\ rest' = Tail(rest)
      /\ lists' = [lists EXCEPT ![sorting] = Push(lists[sorting], Head(rest))]
      /\ DOMAIN lists = Names
  BY DEF SortStep, RangeInv
<1>2. CASE sorting = "self"
  <2>1. Sorting(lists.self, rest, given.self) /\ Listed("other") /\ lists.result = <<>>
    BY <1>1, <1>2 DEF RangeInv, PhaseInv
  <2>2. /\ DOMAIN lists' = Names /\ lists'.self = Push(lists.self, Head(rest))
        /\ lists'.other = lists.other /\ lists'.result = <<>>
    BY <1>1, <1>2, <2>1 DEF Names
  <2>3. Sorting(lists'.self, rest', given'.self)
    BY <1>1, <2>1, <2>2, SortGoesOn DEF RangeInv
  <2>4. Listed("other")'
    BY <1>1, <2>1, <2>2 DEF Listed
  <2> QED
    BY <1>1, <1>2, <2>2, <2>3, <2>4 DEF RangeInv, PhaseInv
<1>3. CASE sorting = "other"
  <2>1. Sorting(lists.other, rest, given.other) /\ InList("self") /\ lists.result = <<>>
    BY <1>1, <1>3 DEF RangeInv, PhaseInv
  <2>2. /\ DOMAIN lists' = Names /\ lists'.other = Push(lists.other, Head(rest))
        /\ lists'.self = lists.self /\ lists'.result = <<>>
    BY <1>1, <1>3, <2>1 DEF Names
  <2>3. Sorting(lists'.other, rest', given'.other)
    BY <1>1, <2>1, <2>2, SortGoesOn DEF RangeInv
  <2>4. InList("self")'
    BY <1>1, <2>1, <2>2 DEF InList, Listed
  <2> QED
    BY <1>1, <1>3, <2>2, <2>3, <2>4 DEF RangeInv, PhaseInv
<1>4. CASE sorting = "result"
  <2>1. Sorting(lists.result, rest, Left) /\ InList("self") /\ InList("other")
    BY <1>1, <1>4 DEF RangeInv, PhaseInv
  <2>2. /\ DOMAIN lists' = Names /\ lists'.result = Push(lists.result, Head(rest))
        /\ lists'.self = lists.self /\ lists'.other = lists.other
    BY <1>1, <1>4, <2>1 DEF Names
  <2>3. Left \subseteq Nat
    BY <2>1, InListProper, RemainingAddresses DEF Left
  <2>4. Sorting(lists'.result, rest', Left)
    BY <1>1, <2>1, <2>2, <2>3, SortGoesOn
  <2>5. Left' = Left
    BY <2>2 DEF Left
  <2>6. InList("self")' /\ InList("other")'
    BY <1>1, <2>1, <2>2 DEF InList, Listed
  <2> QED
    BY <1>1, <1>4, <2>2, <2>4, <2>5, <2>6 DEF RangeInv, PhaseInv
<1> QED
  BY <1>1, <1>2, <1>3, <1>4 DEF RangeInv, PhaseInv

\* All ranges are back: the list is sorted.
LEMMA SortEnds ==
  ASSUME NEW list, NEW g, Sorting(list, <<>>, g)
  PROVE  Fits(list, g) /\ Disjoint(list) /\ g \subseteq Covered(list)
  BY EmptyFits DEF Sorting

LEMMA SubtractStarts ==
  ASSUME NEW self, NEW other, Proper(self), Ordered(self), Proper(other), Ordered(other)
  PROVE  Subtracting(self, other, <<>>, self, other)
<1>1. Covered(other) \ Covered(other) = {}
  OBVIOUS
<1>2. Remaining(self, other) \subseteq Covered(self)
  BY DEF Remaining
<1> QED
  BY <1>1, <1>2, EmptyFits DEF Subtracting

LEMMA SortedStep ==
  ASSUME RangeInv, Sorted
  PROVE  RangeInv'
<1>1. /\ phase = "sort" /\ rest = <<>> /\ given' = given /\ DOMAIN lists = Names
  BY DEF Sorted, RangeInv
<1>2. CASE sorting = "self"
  <2>1. Sorting(lists.self, <<>>, given.self) /\ Listed("other") /\ lists.result = <<>>
    BY <1>1, <1>2 DEF RangeInv, PhaseInv
  <2>2. /\ phase' = "sort" /\ sorting' = "other" /\ rest' = ByBegin(lists.other)
        /\ lists' = [lists EXCEPT !.other = <<>>]
    BY <1>2 DEF Sorted, BeginSort
  <2>3. /\ DOMAIN lists' = Names /\ lists'.self = lists.self /\ lists'.other = <<>>
        /\ lists'.result = <<>>
    BY <1>1, <2>1, <2>2 DEF Names
  <2>4. InList("self")'
    BY <1>1, <2>1, <2>3, SortEnds DEF InList, Listed
  <2>5. Sorting(lists'.other, rest', given'.other)
    BY <1>1, <2>1, <2>2, <2>3, SortStarts DEF Listed
  <2> QED
    BY <1>1, <2>2, <2>3, <2>4, <2>5 DEF RangeInv, PhaseInv
<1>3. CASE sorting = "other"
  <2>1. Sorting(lists.other, <<>>, given.other) /\ InList("self") /\ lists.result = <<>>
    BY <1>1, <1>3 DEF RangeInv, PhaseInv
  <2>2. /\ phase' = "subtract" /\ rest' = lists.self /\ others' = lists.other
        /\ lists' = lists
    BY <1>3 DEF Sorted
  <2>3. InList("other")
    BY <2>1, SortEnds DEF InList, Listed
  <2>4. Subtracting(lists.self, lists.other, <<>>, lists.self, lists.other)
    BY <2>1, <2>3, InListProper, SubtractStarts
  <2>5. (InList("self") /\ InList("other"))'
    BY <1>1, <2>1, <2>2, <2>3 DEF InList, Listed
  <2>6. Subtracting(lists.self, lists.other, lists.result, rest, others)'
    BY <2>1, <2>2, <2>4
  <2> QED
    BY <1>1, <2>2, <2>5, <2>6 DEF RangeInv, PhaseInv
<1>4. CASE sorting = "result"
  <2>1. Sorting(lists.result, <<>>, Left) /\ InList("self") /\ InList("other")
    BY <1>1, <1>4 DEF RangeInv, PhaseInv
  <2>2. phase' = "done" /\ lists' = lists
    BY <1>4 DEF Sorted
  <2>3. /\ Fits(lists.result, Left) /\ Left \subseteq Covered(lists.result)
        /\ Disjoint(lists.result)
    BY <2>1, SortEnds
  <2>4. (InList("self") /\ InList("other"))'
    BY <1>1, <2>1, <2>2 DEF InList, Listed
  <2>5. Left' = Left
    BY <2>2 DEF Left
  <2> QED
    BY <1>1, <2>2, <2>3, <2>4, <2>5 DEF RangeInv, PhaseInv
<1> QED
  BY <1>1, <1>2, <1>3, <1>4 DEF RangeInv, PhaseInv

\* A step of the loop of subtract changes the result, the ranges and the holes only.
LEMMA LoopKeeps ==
  ASSUME RangeInv, phase = "subtract", phase' = "subtract", given' = given,
         DOMAIN lists' = Names, lists'.self = lists.self, lists'.other = lists.other,
         Subtracting(lists.self, lists.other, lists'.result, rest', others')
  PROVE  RangeInv'
<1>1. InList("self") /\ InList("other")
  BY DEF RangeInv, PhaseInv
<1>2. (InList("self") /\ InList("other"))'
  BY <1>1 DEF InList, Listed
<1>3. Subtracting(lists.self, lists.other, lists.result, rest, others)'
  OBVIOUS
<1> QED
  BY <1>2, <1>3 DEF RangeInv, PhaseInv

LEMMA InLoop ==
  ASSUME RangeInv, phase = "subtract"
  PROVE  /\ Subtracting(lists.self, lists.other, lists.result, rest, others)
         /\ Proper(lists.self) /\ Proper(rest) /\ Proper(others)
         /\ Fits(lists.result, Remaining(lists.self, lists.other))
         /\ DOMAIN lists = Names
<1>1. /\ Subtracting(lists.self, lists.other, lists.result, rest, others)
      /\ DOMAIN lists = Names
  BY DEF RangeInv, PhaseInv
<1>2. /\ Proper(lists.self) /\ Proper(rest) /\ Proper(others)
      /\ Fits(lists.result, Remaining(lists.self, lists.other))
  BY <1>1 DEF Subtracting
<1> QED
  BY <1>1, <1>2

LEMMA PassOtherStep ==
  ASSUME RangeInv, PassOther
  PROVE  RangeInv'
<1>1. /\ phase = "subtract" /\ phase' = "subtract" /\ given' = given /\ lists' = lists
      /\ rest # <<>> /\ others # <<>> /\ rest' = rest /\ others' = Tail(others)
      /\ Head(others).end <= Head(rest).begin
  BY DEF PassOther, range, hole
<1>2. /\ Subtracting(lists.self, lists.other, lists.result, rest, others)
      /\ DOMAIN lists = Names
  BY <1>1, InLoop
<1>3. Subtracting(lists.self, lists.other, lists.result, rest, Tail(others))
  BY <1>1, <1>2, PassKeeps
<1> QED
  BY <1>1, <1>2, <1>3, LoopKeeps

LEMMA KeepRangeStep ==
  ASSUME RangeInv, KeepRange
  PROVE  RangeInv'
<1> DEFINE r == Head(rest)
           p == Push(lists.result, r)
<1>1. /\ phase = "subtract" /\ phase' = "subtract" /\ given' = given
      /\ lists' = [lists EXCEPT !.result = p]
      /\ rest # <<>> /\ rest' = Tail(rest) /\ others' = others
      /\ others # <<>> => Head(others).begin >= r.end
  BY DEF KeepRange, Keep, range, hole
<1>2. /\ Subtracting(lists.self, lists.other, lists.result, rest, others)
      /\ Proper(rest) /\ Proper(others) /\ DOMAIN lists = Names
  BY <1>1, InLoop
<1>3. r \in NatRange /\ r.begin < r.end
  BY <1>1, <1>2, HeadAndTail
<1>4. r.end \in Nat /\ r.begin \in Nat /\ r.end \in Nat
      /\ r = [begin |-> r.begin, end |-> r.end]
  BY <1>3 DEF NatRange
<1>5. others # <<>> => r.end <= Head(others).begin
  <2>1. others # <<>> => Head(others) \in NatRange
    BY <1>2, HeadAndTail
  <2>2. others # <<>> => Head(others).begin \in Nat
    BY <2>1 DEF NatRange
  <2> QED
    BY <1>1, <1>4, <2>2
<1>6. p = Push(lists.result, [begin |-> Head(rest).begin, end |-> r.end])
  BY <1>4
<1>7. /\ Fits(p, Remaining(lists.self, lists.other))
      /\ Covered(lists.result) \subseteq Covered(p)
      /\ Head(rest).begin..(r.end - 1) \subseteq Covered(p)
  <2>1. r.end <= Head(rest).end /\ Head(rest).begin < r.end
    BY <1>3, <1>4
  <2> HIDE DEF p
  <2> QED
    BY <1>1, <1>2, <1>4, <1>5, <1>6, <2>1, PieceKept
<1>8. Subtracting(lists.self, lists.other, p, Tail(rest), others)
  <2> HIDE DEF p
  <2> QED
    BY <1>1, <1>2, <1>7, RangeDone
<1>9. /\ DOMAIN lists' = Names /\ lists'.self = lists.self /\ lists'.other = lists.other
      /\ lists'.result = p
  <2> HIDE DEF p
  <2> QED
    BY <1>1, <1>2 DEF Names
<1> QED
  BY <1>1, <1>8, <1>9, LoopKeeps

LEMMA CutStep ==
  ASSUME RangeInv, Cut
  PROVE  RangeInv'
<1> DEFINE r == Head(rest)
           h == Head(others)
           p == lists'.result
           u == lists.result
<1>1. /\ phase = "subtract" /\ phase' = "subtract" /\ given' = given
      /\ rest # <<>> /\ others # <<>> /\ h.end > r.begin /\ h.begin < r.end
      /\ IF h.begin > r.begin
         THEN lists' = [lists EXCEPT !.result = Push(u, [begin |-> r.begin, end |-> h.begin])]
         ELSE lists' = lists
      /\ IF h.end < r.end
         THEN /\ rest' = <<[begin |-> h.end, end |-> r.end]>> \o Tail(rest)
              /\ others' = Tail(others)
         ELSE rest' = Tail(rest) /\ others' = others
  BY DEF Cut, Keep, range, hole
<1>2. /\ Subtracting(lists.self, lists.other, u, rest, others)
      /\ Proper(rest) /\ Proper(others) /\ DOMAIN lists = Names
      /\ Fits(u, Remaining(lists.self, lists.other))
  BY <1>1, InLoop
<1>3. /\ DOMAIN lists' = Names /\ lists'.self = lists.self /\ lists'.other = lists.other
      /\ IF h.begin > r.begin THEN p = Push(u, [begin |-> r.begin, end |-> h.begin]) ELSE p = u
  BY <1>1, <1>2 DEF Names
<1>4. /\ r \in NatRange /\ r.begin < r.end /\ h \in NatRange /\ h.begin < h.end
      /\ h.begin..(h.end - 1) \subseteq Covered(others)
  BY <1>1, <1>2, HeadAndTail
<1>5. /\ r.begin \in Nat /\ r.end \in Nat /\ h.begin \in Nat /\ h.end \in Nat
      /\ h.begin \in Nat
  BY <1>4 DEF NatRange
<1> HIDE DEF p
<1>6. /\ Fits(p, Remaining(lists.self, lists.other)) /\ Covered(u) \subseteq Covered(p)
      /\ r.begin..(h.begin - 1) \subseteq Covered(p)
  <2>1. CASE h.begin > r.begin
    <3>1. p = Push(u, [begin |-> r.begin, end |-> h.begin])
      BY <1>3, <2>1
    <3>2. r.begin < h.begin /\ h.begin <= r.end /\ h.begin <= h.begin
      BY <1>1, <1>5, <2>1
    <3> QED
      BY <1>1, <1>2, <1>5, <3>1, <3>2, PieceKept
  <2>2. CASE ~(h.begin > r.begin)
    <3>1. p = u
      BY <1>3, <2>2
    <3>2. r.begin..(h.begin - 1) = {}
      BY <1>5, <2>2
    <3> QED
      BY <1>2, <3>1, <3>2
  <2> QED
    BY <2>1, <2>2
<1>7. CASE h.end < r.end
  <2>1. /\ rest' = <<[begin |-> h.end, end |-> r.end]>> \o Tail(rest)
        /\ others' = Tail(others)
    BY <1>1, <1>7
  <2>2. r.begin < h.end
    BY <1>1, <1>5
  <2>3. Subtracting(lists.self, lists.other, p,
          <<[begin |-> h.end, end |-> r.end]>> \o Tail(rest), Tail(others))
    BY <1>1, <1>2, <1>6, <1>7, <2>2, RangeCut
  <2> QED
    BY <1>1, <1>3, <2>1, <2>3, LoopKeeps DEF p
<1>8. CASE ~(h.end < r.end)
  <2>1. rest' = Tail(rest) /\ others' = others
    BY <1>1, <1>8
  <2>2. Covered(others) \subseteq Covered(lists.other)
    BY <1>2 DEF Subtracting
  <2>3. r.begin..(r.end - 1) \subseteq Covered(p) \union Covered(lists.other)
    <3>1. \A a \in r.begin..(r.end - 1) : \/ a \in r.begin..(h.begin - 1)
                                          \/ a \in h.begin..(h.end - 1)
      BY <1>5, <1>8
    <3> QED
      BY <1>4, <1>6, <2>2, <3>1
  <2>4. Subtracting(lists.self, lists.other, p, Tail(rest), others)
    BY <1>1, <1>2, <1>6, <2>3, RangeDone
  <2> QED
    BY <1>1, <1>3, <2>1, <2>4, LoopKeeps DEF p
<1> QED
  BY <1>7, <1>8

LEMMA SubtractedStep ==
  ASSUME RangeInv, Subtracted
  PROVE  RangeInv'
<1>1. /\ phase = "subtract" /\ rest = <<>> /\ given' = given
      /\ phase' = "sort" /\ sorting' = "result" /\ rest' = ByBegin(lists.result)
      /\ lists' = [lists EXCEPT !.result = <<>>]
  BY DEF Subtracted, BeginSort
<1>2. /\ Subtracting(lists.self, lists.other, lists.result, <<>>, others)
      /\ DOMAIN lists = Names
  BY <1>1, InLoop
<1>3. InList("self") /\ InList("other")
  BY <1>1 DEF RangeInv, PhaseInv
<1>4. Fits(lists.result, Left) /\ Left \subseteq Covered(lists.result)
  BY <1>2, EmptyFits DEF Subtracting, Left
<1>5. /\ DOMAIN lists' = Names /\ lists'.self = lists.self /\ lists'.other = lists.other
      /\ lists'.result = <<>>
  BY <1>1, <1>2 DEF Names
<1>6. Sorting(<<>>, ByBegin(lists.result), Left)
  BY <1>4, SortStarts
<1>7. Left' = Left
  BY <1>5 DEF Left
<1>8. (InList("self") /\ InList("other"))'
  BY <1>1, <1>3, <1>5 DEF InList, Listed
<1>9. Sorting(lists.result, rest, Left)'
  BY <1>1, <1>5, <1>6, <1>7
<1> QED
  BY <1>1, <1>5, <1>8, <1>9 DEF RangeInv, PhaseInv

LEMMA RangeStep == RangeInv /\ [Next]_vars => RangeInv'
<1> SUFFICES ASSUME RangeInv, [Next]_vars
             PROVE  RangeInv'
  OBVIOUS
<1>1. ASSUME NEW name \in {"self", "other"}, Fill(name)
      PROVE  RangeInv'
  BY <1>1, FillStep
<1>2. CASE Filled
  BY <1>2, FilledStep
<1>3. CASE SortStep
  BY <1>3, SortStepKeeps
<1>4. CASE Sorted
  BY <1>4, SortedStep
<1>5. CASE PassOther
  BY <1>5, PassOtherStep
<1>6. CASE KeepRange
  BY <1>6, KeepRangeStep
<1>7. CASE Cut
  BY <1>7, CutStep
<1>8. CASE Subtracted
  BY <1>8, SubtractedStep
<1>9. CASE UNCHANGED vars
  BY <1>9 DEF RangeInv, PhaseInv, InList, Listed, Left, vars
<1> QED
  BY <1>1, <1>2, <1>3, <1>4, <1>5, <1>6, <1>7, <1>8, <1>9 DEF Next

LEMMA RangeInvHolds == Spec => []RangeInv
  BY RangeInit, RangeStep, PTL DEF Spec

-----------------------------------------------------------------------------
\* A sorted RangeList is in order, its ranges do not touch, and it covers the addresses
\* pushed to it in whatever order and none but padding between them besides (RangeList::push
\* and sort), for all ranges, lengths and alignments.
THEOREM SortKeepsEveryAddress == Spec => []SortedAndComplete
<1>1. RangeInv => SortedAndComplete
  <2> SUFFICES ASSUME RangeInv
               PROVE  SortedAndComplete
    OBVIOUS
  <2>1. ASSUME NEW name \in {"self", "other"}, AfterSort(name)
        PROVE  InList(name)
    BY <2>1 DEF RangeInv, PhaseInv, AfterSort
  <2>2. AfterSort("result") => Disjoint(lists.result)
    BY DEF RangeInv, PhaseInv, AfterSort
  <2>3. ASSUME NEW name \in {"self", "other"}, AfterSort(name)
        PROVE  /\ Disjoint(lists[name]) /\ given[name] \subseteq Covered(lists[name])
               /\ Covered(lists[name]) \subseteq Padded(given[name])
    BY <2>1, <2>3 DEF InList, Listed, Fits
  <2> QED
    BY <2>2, <2>3 DEF SortedAndComplete
<1> QED
  BY <1>1, RangeInvHolds, PTL

\* subtract leaves the addresses of its list that are not in the other, and none but
\* padding between them besides (RangeList::subtract, which is what the report of
\* unknown ranges consists of), whatever the two lists.
THEOREM SubtractLeavesTheRest == Spec => []Difference
<1>1. RangeInv => Difference
  <2> SUFFICES ASSUME RangeInv, phase = "done"
               PROVE  LET left == Covered(lists.self) \ Covered(lists.other)
                      IN  /\ left \subseteq Covered(lists.result)
                          /\ Covered(lists.result) \subseteq Padded(left)
    BY DEF Difference
  <2>1. Fits(lists.result, Left) /\ Left \subseteq Covered(lists.result)
    BY DEF RangeInv, PhaseInv
  <2> QED
    BY <2>1 DEF Fits, Left, Remaining
<1> QED
  BY <1>1, RangeInvHolds, PTL

-----------------------------------------------------------------------------
(***************************************************************************)
(* The loop of subtract.  What it has still to do makes, of the result so  *)
(* far, what taking every hole out of every range makes; the last sort     *)
(* then has the pieces of Subtract to push.                                *)
(***************************************************************************)
Pieces == WithoutAll(<<>>, lists.self, lists.other)

LoopInv ==
  /\ phase = "subtract" => WithoutAll(lists.result, rest, others) = Pieces
  /\ phase = "sort" /\ sorting = "result" =>
       PushAll(lists.result, rest) = Subtract(lists.self, lists.other)
  /\ LoopSubtracts

LEMMA LoopTyped ==
  ASSUME RangeInv, phase = "subtract"
  PROVE  /\ lists.result \in Lists /\ lists.self \in Lists /\ lists.other \in Lists
         /\ rest \in Lists /\ others \in Lists
         /\ Ordered(rest) /\ Ordered(others) /\ DOMAIN lists = Names
<1>1. /\ Subtracting(lists.self, lists.other, lists.result, rest, others)
      /\ DOMAIN lists = Names
  BY InLoop
<1>2. /\ Proper(lists.result) /\ Proper(lists.self) /\ Proper(lists.other)
      /\ Proper(rest) /\ Proper(others) /\ Ordered(rest) /\ Ordered(others)
  BY <1>1 DEF Subtracting, Fits
<1> QED
  BY <1>1, <1>2, ListsAreProper

LEMMA ListTyped == \A list \in Lists : list \in Seq(NatRange)
  BY DEF Lists

\* The head of a list and its tail.
LEMMA ListParts ==
  ASSUME NEW list \in Lists, list # <<>>, Ordered(list)
  PROVE  /\ Head(list) \in NatRange /\ Head(list).begin < Head(list).end
         /\ Head(list).begin \in Nat /\ Head(list).end \in Nat
         /\ Tail(list) \in Lists /\ Tail(list) \in Seq(NatRange)
         /\ \A k \in 1..Len(Tail(list)) : /\ Head(list).end <= Tail(list)[k].begin
                                          /\ Tail(list)[k].begin \in Nat
<1>1. Proper(list)
  BY ListsAreProper
<1>2. /\ Head(list) \in NatRange /\ Head(list).begin < Head(list).end
      /\ Proper(Tail(list))
      /\ \A k \in 1..Len(Tail(list)) : Head(list).end <= Tail(list)[k].begin
  BY <1>1, HeadAndTail, TailOrdered
<1>3. \A k \in 1..Len(Tail(list)) : Tail(list)[k].begin \in Nat
  BY <1>2, ProperRanges
<1>4. Tail(list) \in Lists
  BY <1>2, ListsAreProper
<1> QED
  BY <1>2, <1>3, <1>4, ListTyped DEF NatRange

LEMMA LoopStays ==
  ASSUME LoopInv, phase = "subtract", phase' = "subtract",
         lists'.self = lists.self, lists'.other = lists.other,
         WithoutAll(lists'.result, rest', others') = WithoutAll(lists.result, rest, others)
  PROVE  LoopInv'
<1>1. Pieces' = Pieces
  BY DEF Pieces
<1>2. (WithoutAll(lists.result, rest, others) = Pieces)'
  BY <1>1 DEF LoopInv
<1>3. LoopSubtracts'
  BY DEF LoopSubtracts
<1> QED
  BY <1>2, <1>3 DEF LoopInv

LEMMA LoopPasses ==
  ASSUME RangeInv, LoopInv, PassOther
  PROVE  LoopInv'
<1>1. /\ phase = "subtract" /\ phase' = "subtract" /\ lists' = lists
      /\ rest # <<>> /\ others # <<>> /\ rest' = rest /\ others' = Tail(others)
      /\ Head(others).end <= Head(rest).begin
  BY DEF PassOther, range, hole
<1>2. /\ lists.result \in Lists /\ rest \in Lists /\ others \in Lists
      /\ Ordered(rest) /\ Ordered(others)
  BY <1>1, LoopTyped
<1>3. \A k \in 1..Len(rest) : Head(others).end <= rest[k].begin
  <2> TAKE k \in 1..Len(rest)
  <2>1. Proper(rest)
    BY <1>2, ListsAreProper
  <2>2. Head(rest) = rest[1] /\ 1 \in 1..Len(rest)
    BY <1>1, <2>1, HeadAndTail
  <2>3. /\ rest[1].begin \in Nat /\ rest[1].end \in Nat /\ rest[1].begin < rest[1].end
        /\ rest[k].begin \in Nat
    BY <2>1, <2>2, ProperRanges
  <2>4. k = 1 \/ rest[1].end <= rest[k].begin
    <3>1. k = 1 \/ 1 < k
      OBVIOUS
    <3> QED
      BY <1>2, <2>2, <3>1 DEF Ordered
  <2>5. Head(others).end \in Nat
    BY <1>1, <1>2, ListParts
  <2> QED
    BY <1>1, <2>2, <2>3, <2>4, <2>5
<1>4. WithoutAll(lists.result, rest, others) = WithoutAll(lists.result, rest, Tail(others))
  BY <1>1, <1>2, <1>3, ListTyped, WithoutAllPassed
<1> QED
  BY <1>1, <1>4, LoopStays

LEMMA LoopKeepsRange ==
  ASSUME RangeInv, LoopInv, KeepRange
  PROVE  LoopInv'
<1>1. /\ phase = "subtract" /\ phase' = "subtract"
      /\ lists' = [lists EXCEPT !.result = Push(lists.result, Head(rest))]
      /\ rest # <<>> /\ rest' = Tail(rest) /\ others' = others
      /\ others # <<>> => Head(others).begin >= Head(rest).end
  BY DEF KeepRange, Keep, range, hole
<1>2. /\ lists.result \in Lists /\ rest \in Lists /\ others \in Lists
      /\ Ordered(rest) /\ Ordered(others) /\ DOMAIN lists = Names
  BY <1>1, LoopTyped
<1>3. /\ Head(rest) \in NatRange /\ Head(rest).begin < Head(rest).end
      /\ Head(rest).end \in Nat
  BY <1>1, <1>2, ListParts
<1>4. \A k \in 1..Len(others) : others[k].begin >= Head(rest).end
  <2> TAKE k \in 1..Len(others)
  <2>1. Proper(others)
    BY <1>2, ListsAreProper
  <2>2. others # <<>>
    <3>1. Len(others) # 0
      OBVIOUS
    <3> QED
      BY <3>1, SeqEmpty
  <2>3. Head(others) = others[1] /\ 1 \in 1..Len(others)
    BY <2>1, <2>2, HeadAndTail
  <2>4. /\ others[1].begin \in Nat /\ others[1].end \in Nat /\ others[1].begin < others[1].end
        /\ others[k].begin \in Nat
    BY <2>1, <2>3, ProperRanges
  <2>5. k = 1 \/ others[1].end <= others[k].begin
    <3>1. k = 1 \/ 1 < k
      OBVIOUS
    <3> QED
      BY <1>2, <2>3, <3>1 DEF Ordered
  <2> QED
    BY <1>1, <1>3, <2>2, <2>3, <2>4, <2>5
<1>5. Without(lists.result, Head(rest), others) = Push(lists.result, Head(rest))
  BY <1>2, <1>3, <1>4, ListTyped, WithoutBehind
<1>6. WithoutAll(lists.result, rest, others)
        = WithoutAll(Push(lists.result, Head(rest)), Tail(rest), others)
  BY <1>1, <1>2, <1>5, ListTyped, WithoutAllFront
<1>7. /\ lists'.result = Push(lists.result, Head(rest))
      /\ lists'.self = lists.self /\ lists'.other = lists.other
  BY <1>1, <1>2 DEF Names
<1> QED
  BY <1>1, <1>6, <1>7, LoopStays

LEMMA LoopCuts ==
  ASSUME RangeInv, LoopInv, Cut
  PROVE  LoopInv'
<1> DEFINE r == Head(rest)
           h == Head(others)
           out == IF h.begin > r.begin THEN Push(lists.result, Span(r.begin, h.begin))
                  ELSE lists.result
           s == Span(h.end, r.end)
<1>1. /\ phase = "subtract" /\ phase' = "subtract"
      /\ rest # <<>> /\ others # <<>> /\ h.end > r.begin /\ h.begin < r.end
      /\ lists' = IF h.begin > r.begin
                  THEN [lists EXCEPT !.result = Push(lists.result, Span(r.begin, h.begin))]
                  ELSE lists
      /\ IF h.end < r.end THEN rest' = <<s>> \o Tail(rest) /\ others' = Tail(others)
                          ELSE rest' = Tail(rest) /\ others' = others
  BY DEF Cut, Keep, range, hole, Span
<1>2. /\ lists.result \in Lists /\ rest \in Lists /\ others \in Lists
      /\ Ordered(rest) /\ Ordered(others) /\ DOMAIN lists = Names
  BY <1>1, LoopTyped
<1>3. /\ r \in NatRange /\ r.begin < r.end /\ r.begin \in Nat /\ r.end \in Nat
      /\ Tail(rest) \in Lists /\ Tail(rest) \in Seq(NatRange)
      /\ \A k \in 1..Len(Tail(rest)) : r.end <= Tail(rest)[k].begin /\ Tail(rest)[k].begin \in Nat
  BY <1>1, <1>2, ListParts
<1>4. /\ h \in NatRange /\ h.begin < h.end /\ h.begin \in Nat /\ h.end \in Nat
      /\ Tail(others) \in Lists /\ Tail(others) \in Seq(NatRange)
      /\ \A k \in 1..Len(Tail(others)) : /\ h.end <= Tail(others)[k].begin
                                         /\ Tail(others)[k].begin \in Nat
  BY <1>1, <1>2, ListParts
<1>5. /\ lists'.result = out /\ lists'.self = lists.self /\ lists'.other = lists.other
  BY <1>1, <1>2 DEF Names
<1>6. rest \in Seq(NatRange) /\ others \in Seq(NatRange)
  BY <1>2, ListTyped
<1>7. /\ out \in Lists
      /\ h.end < r.end =>
           Without(lists.result, r, others) = Without(out, Span(h.end, r.end), Tail(others))
      /\ h.end >= r.end /\ (\A k \in 1..Len(Tail(others)) : Tail(others)[k].begin >= r.end)
           => Without(lists.result, r, others) = out
  <2>1. /\ r \in NatRange /\ lists.result \in Lists /\ others \in Seq(NatRange)
        /\ others # <<>> /\ Head(others).end > r.begin /\ Head(others).begin < r.end
    BY <1>1, <1>2, <1>3, <1>6
  <2>2. out = IF Head(others).begin > r.begin
              THEN Push(lists.result, Span(r.begin, Head(others).begin)) ELSE lists.result
    OBVIOUS
  <2> HIDE DEF r, out
  <2>3. /\ out \in Lists
        /\ Head(others).end < r.end =>
             Without(lists.result, r, others)
               = Without(out, Span(Head(others).end, r.end), Tail(others))
        /\ Head(others).end >= r.end
             /\ (\A k \in 1..Len(Tail(others)) : Tail(others)[k].begin >= r.end)
             => Without(lists.result, r, others) = out
    BY <2>1, <2>2, WithoutCut
  <2> QED
    BY <2>3
<1>8. WithoutAll(lists.result, rest, others)
        = WithoutAll(Without(lists.result, r, others), Tail(rest), others)
  BY <1>1, <1>2, <1>6, WithoutAllFront
<1> HIDE DEF out, r, h
<1>9. CASE h.end < r.end
  <2>1. s \in NatRange
    BY <1>3, <1>4, SpanTyped
  <2> HIDE DEF s
  <2>2. /\ <<s>> \o Tail(rest) \in Seq(NatRange) /\ <<s>> \o Tail(rest) # <<>>
        /\ Head(<<s>> \o Tail(rest)) = s /\ Tail(<<s>> \o Tail(rest)) = Tail(rest)
    BY <1>3, <2>1
  <2>3. WithoutAll(out, <<s>> \o Tail(rest), Tail(others))
          = WithoutAll(Without(out, s, Tail(others)), Tail(rest), Tail(others))
    <3> DEFINE m == <<s>> \o Tail(rest)
               o == Tail(others)
    <3>1. /\ m \in Seq(NatRange) /\ m # <<>> /\ Head(m) = s /\ Tail(m) = Tail(rest)
          /\ out \in Lists /\ o \in Seq(NatRange)
      BY <1>4, <1>7, <2>2
    <3> HIDE DEF m, o
    <3>2. WithoutAll(out, m, o) = WithoutAll(Without(out, Head(m), o), Tail(m), o)
      BY <3>1, WithoutAllFront
    <3> QED
      BY <3>1, <3>2 DEF m, o
  <2>4. Without(lists.result, r, others) = Without(out, s, Tail(others))
    BY <1>7, <1>9 DEF s
  <2>5. Without(out, s, Tail(others)) \in Lists
    BY <1>4, <1>7, <2>1, WithoutIs
  <2>6. \A k \in 1..Len(Tail(rest)) : h.end <= Tail(rest)[k].begin
    BY <1>3, <1>4, <1>9
  <2>7. WithoutAll(Without(out, s, Tail(others)), Tail(rest), others)
          = WithoutAll(Without(out, s, Tail(others)), Tail(rest), Tail(others))
    BY <1>1, <1>3, <1>6, <2>5, <2>6, WithoutAllPassed DEF h
  <2> QED
    BY <1>1, <1>5, <1>8, <1>9, <2>3, <2>4, <2>7, LoopStays
<1>10. CASE ~(h.end < r.end)
  <2>1. h.end >= r.end /\ \A k \in 1..Len(Tail(others)) : Tail(others)[k].begin >= r.end
    BY <1>3, <1>4, <1>10
  <2>2. Without(lists.result, r, others) = out
    BY <1>7, <2>1
  <2> QED
    BY <1>1, <1>5, <1>8, <1>10, <2>2, LoopStays
<1> QED
  BY <1>9, <1>10

LEMMA LoopEnds ==
  ASSUME RangeInv, LoopInv, Subtracted
  PROVE  LoopInv'
<1>1. /\ phase = "subtract" /\ rest = <<>>
      /\ phase' = "sort" /\ sorting' = "result" /\ rest' = ByBegin(lists.result)
      /\ lists' = [lists EXCEPT !.result = <<>>]
  BY DEF Subtracted, BeginSort
<1>2. lists.result \in Lists /\ others \in Lists /\ DOMAIN lists = Names
  BY <1>1, LoopTyped
<1>3. WithoutAll(lists.result, <<>>, others) = lists.result
  BY <1>2, ListTyped, WithoutAllEmpty
<1>4. lists.result = Pieces
  BY <1>1, <1>3 DEF LoopInv
<1>5. /\ lists'.result = <<>> /\ lists'.self = lists.self /\ lists'.other = lists.other
  BY <1>1, <1>2 DEF Names
<1>6. PushAll(lists'.result, rest') = Subtract(lists'.self, lists'.other)
  BY <1>1, <1>4, <1>5 DEF Subtract, SortRanges, Pieces
<1>7. LoopSubtracts'
  BY <1>1 DEF LoopSubtracts
<1> QED
  BY <1>1, <1>6, <1>7 DEF LoopInv

LEMMA LoopSorts ==
  ASSUME RangeInv, LoopInv, SortStep
  PROVE  LoopInv'
<1>1. /\ phase = "sort" /\ phase' = "sort" /\ sorting' = sorting
      /\ rest # <<>> /\ rest' = Tail(rest)
      /\ lists' = [lists EXCEPT ![sorting] = Push(lists[sorting], Head(rest))]
      /\ DOMAIN lists = Names
  BY DEF SortStep, RangeInv
<1>2. ASSUME sorting = "result"
      PROVE  PushAll(lists'.result, rest') = Subtract(lists'.self, lists'.other)
  <2>1. /\ lists'.result = Push(lists.result, Head(rest))
        /\ lists'.self = lists.self /\ lists'.other = lists.other
    BY <1>1, <1>2 DEF Names
  <2>2. Sorting(lists.result, rest, Left)
    BY <1>1, <1>2 DEF RangeInv, PhaseInv
  <2>3. Proper(lists.result) /\ Proper(rest)
    BY <2>2 DEF Sorting, Fits
  <2>4. lists.result \in Lists /\ rest \in Seq(NatRange)
    BY <2>3, ListsAreProper, ListTyped
  <2>5. PushAll(lists.result, rest) = PushAll(Push(lists.result, Head(rest)), Tail(rest))
    BY <1>1, <2>4, PushAllFront
  <2>6. PushAll(lists.result, rest) = Subtract(lists.self, lists.other)
    BY <1>1, <1>2 DEF LoopInv
  <2> QED
    BY <1>1, <2>1, <2>5, <2>6
<1>3. LoopSubtracts'
  BY <1>1 DEF LoopSubtracts
<1> QED
  BY <1>1, <1>2, <1>3 DEF LoopInv

LEMMA LoopSorted ==
  ASSUME RangeInv, LoopInv, Sorted
  PROVE  LoopInv'
<1>1. phase = "sort" /\ rest = <<>> /\ DOMAIN lists = Names
  BY DEF Sorted, RangeInv
<1>2. CASE sorting = "self"
  <2>1. phase' = "sort" /\ sorting' = "other"
    BY <1>2 DEF Sorted, BeginSort
  <2> QED
    BY <2>1 DEF LoopInv, LoopSubtracts
<1>3. CASE sorting = "other"
  <2>1. lists.result = <<>>
    BY <1>1, <1>3 DEF RangeInv, PhaseInv
  <2>2. /\ phase' = "subtract" /\ rest' = lists.self /\ others' = lists.other
        /\ lists' = lists
    BY <1>3 DEF Sorted
  <2>3. (WithoutAll(lists.result, rest, others) = Pieces)'
    BY <2>1, <2>2 DEF Pieces
  <2> QED
    BY <2>2, <2>3 DEF LoopInv, LoopSubtracts
<1>4. CASE sorting = "result"
  <2>1. Sorting(lists.result, <<>>, Left)
    BY <1>1, <1>4 DEF RangeInv, PhaseInv
  <2>2. lists.result \in Lists
    BY <2>1, ListsAreProper DEF Sorting, Fits
  <2>3. lists.result = Subtract(lists.self, lists.other)
    BY <1>1, <1>4, <2>2, PushAllEmpty DEF LoopInv
  <2>4. phase' = "done" /\ lists' = lists
    BY <1>4 DEF Sorted
  <2> QED
    BY <2>3, <2>4 DEF LoopInv, LoopSubtracts
<1> QED
  BY <1>1, <1>2, <1>3, <1>4 DEF RangeInv, PhaseInv

LEMMA LoopStep == RangeInv /\ LoopInv /\ [Next]_vars => LoopInv'
<1> SUFFICES ASSUME RangeInv, LoopInv, [Next]_vars
             PROVE  LoopInv'
  OBVIOUS
<1>1. ASSUME NEW name \in {"self", "other"}, Fill(name)
      PROVE  LoopInv'
  BY <1>1 DEF Fill, LoopInv, LoopSubtracts
<1>2. CASE Filled
  BY <1>2 DEF Filled, BeginSort, LoopInv, LoopSubtracts
<1>3. CASE SortStep
  BY <1>3, LoopSorts
<1>4. CASE Sorted
  BY <1>4, LoopSorted
<1>5. CASE PassOther
  BY <1>5, LoopPasses
<1>6. CASE KeepRange
  BY <1>6, LoopKeepsRange
<1>7. CASE Cut
  BY <1>7, LoopCuts
<1>8. CASE Subtracted
  BY <1>8, LoopEnds
<1>9. CASE UNCHANGED vars
  BY <1>9 DEF LoopInv, LoopSubtracts, Pieces, vars
<1> QED
  BY <1>1, <1>2, <1>3, <1>4, <1>5, <1>6, <1>7, <1>8, <1>9 DEF Next

\* RangeList::subtract, whose one loop walks both lists at once, has the result of taking
\* every range of the other list out of every range of the list and sorting what is left,
\* whatever the two lists and the alignment.
THEOREM SubtractComputes == Spec => []LoopSubtracts
<1>1. Init => LoopInv
  BY DEF Init, LoopInv, LoopSubtracts
<1>2. LoopInv => LoopSubtracts
  BY DEF LoopInv
<1> QED
  BY <1>1, <1>2, RangeInvHolds, LoopStep, PTL DEF Spec

-----------------------------------------------------------------------------
(***************************************************************************)
(* What the lists that the loops of RangeLists make stand for: no address  *)
(* is lost, and nothing begins where nothing pushed begins.                *)
(***************************************************************************)
Starts(list) == {list[k].begin : k \in 1..Len(list)}

LEMMA StartsAre ==
  ASSUME NEW list, NEW x
  PROVE  x \in Starts(list) <=> \E k \in 1..Len(list) : x = list[k].begin
  BY DEF Starts

LEMMA ListRanges ==
  ASSUME NEW list \in Lists
  PROVE  /\ Proper(list) /\ Len(list) \in Nat /\ DOMAIN list = 1..Len(list)
         /\ \A k \in 1..Len(list) : /\ list[k] \in NatRange
                                    /\ list[k].begin \in Nat /\ list[k].end \in Nat
                                    /\ list[k].begin < list[k].end
         /\ \A a : a \in Covered(list) <=>
                     \E k \in 1..Len(list) : a \in list[k].begin..(list[k].end - 1)
         /\ Covered(list) \subseteq Nat /\ Starts(list) \subseteq Covered(list)
<1>1. Proper(list)
  BY ListsAreProper
<1>2. /\ Len(list) \in Nat /\ DOMAIN list = 1..Len(list)
      /\ \A k \in 1..Len(list) : /\ list[k] \in NatRange
                                 /\ list[k].begin \in Nat /\ list[k].end \in Nat
                                 /\ list[k].begin < list[k].end
  BY <1>1, ProperRanges
<1>3. /\ Covered(list) \subseteq Nat
      /\ \A a : a \in Covered(list) <=>
                  \E k \in 1..Len(list) : a \in list[k].begin..(list[k].end - 1)
  BY <1>1, CoveredIs
<1>4. \A k \in 1..Len(list) : list[k].begin \in list[k].begin..(list[k].end - 1)
  BY <1>2
<1>5. Starts(list) \subseteq Covered(list)
  BY <1>3, <1>4, StartsAre
<1> QED
  BY <1>1, <1>2, <1>3, <1>5

LEMMA PushCovers ==
  ASSUME NEW list \in Lists, NEW r \in NatRange
  PROVE  /\ Covered(list) \subseteq Covered(Push(list, r))
         /\ r.begin..(r.end - 1) \subseteq Covered(Push(list, r))
         /\ Starts(list) \subseteq Starts(Push(list, r))
         /\ \A x \in Starts(Push(list, r)) :
              x \in Starts(list) \/ (x = r.begin /\ r.begin < r.end)
<1>1. r.begin \in Nat /\ r.end \in Nat
  BY DEF NatRange
<1>2. CASE r.end <= r.begin
  <2>1. Push(list, r) = list
    BY <1>2, PushTyped
  <2>2. r.begin..(r.end - 1) = {}
    BY <1>1, <1>2
  <2> QED
    BY <2>1, <2>2
<1>3. CASE r.begin < r.end
  <2> DEFINE g == Covered(list) \union (r.begin..(r.end - 1))
             p == Push(list, r)
  <2>1. Proper(list) /\ Covered(list) \subseteq Nat
    BY ListRanges
  <2>2. /\ g \subseteq Nat /\ r.begin \in g /\ r.end - 1 \in g
        /\ Covered(list) \subseteq g /\ r.begin..(r.end - 1) \subseteq g
    BY <1>1, <1>3, <2>1
  <2> HIDE DEF g
  <2>3. /\ Covered(list) \subseteq Padded(g) /\ r.begin..(r.end - 1) \subseteq Padded(g)
    BY <2>2, PaddedGrows
  <2>4. \A k \in 1..Len(list) : list[k].begin \in g /\ list[k].end - 1 \in g
    <3> TAKE k \in 1..Len(list)
    <3>1. list[k].begin \in Nat /\ list[k].end \in Nat /\ list[k].begin < list[k].end
      BY ListRanges
    <3>2. /\ list[k].begin \in list[k].begin..(list[k].end - 1)
          /\ list[k].end - 1 \in list[k].begin..(list[k].end - 1)
      BY <3>1
    <3>3. list[k].begin \in Covered(list) /\ list[k].end - 1 \in Covered(list)
      BY <3>2, ListRanges
    <3> QED
      BY <2>2, <3>3
  <2>5. Fits(list, g)
    BY <2>1, <2>3, <2>4 DEF Fits
  <2>6. Covered(list) \subseteq Covered(p) /\ r.begin..(r.end - 1) \subseteq Covered(p)
    BY <1>3, <2>2, <2>3, <2>5, PushFits
  <2>7. Grown(list, p, r) \/ Added(list, p, r)
    BY <1>3, <2>1, PushIs
  <2>8. Len(list) \in Nat /\ (list # <<>> => Len(list) # 0)
    BY <2>1, ProperRanges, EmptySeq DEF Proper
  <2> HIDE DEF p
  <2>9. \A x : x \in Starts(p) <=> \E k \in 1..Len(p) : x = p[k].begin
    BY StartsAre
  <2>10. \A x : x \in Starts(list) <=> \E k \in 1..Len(list) : x = list[k].begin
    BY StartsAre
  <2>11. CASE Grown(list, p, r)
    <3>1. Len(p) = Len(list) /\ \A k \in 1..Len(list) : p[k].begin = list[k].begin
      <4>1. \A k \in 1..Len(list) : k \in 1..(Len(list) - 1) \/ k = Len(list)
        BY <2>8
      <4> QED
        BY <2>11, <4>1 DEF Grown
    <3>2. Starts(p) = Starts(list)
      <4>1. \A x : x \in Starts(p) => x \in Starts(list)
        BY <2>9, <2>10, <3>1
      <4>2. \A x : x \in Starts(list) => x \in Starts(p)
        BY <2>9, <2>10, <3>1
      <4> QED
        BY <4>1, <4>2
    <3> QED
      BY <2>6, <3>2 DEF p
  <2>12. CASE Added(list, p, r)
    <3>1. /\ Len(p) = Len(list) + 1 /\ p[Len(list) + 1] = r
          /\ \A k \in 1..Len(list) : p[k] = list[k]
      BY <2>12 DEF Added
    <3>2. /\ \A k \in 1..Len(list) : k \in 1..(Len(list) + 1)
          /\ \A k \in 1..(Len(list) + 1) : k \in 1..Len(list) \/ k = Len(list) + 1
      BY <2>8
    <3>3. Starts(list) \subseteq Starts(p)
      BY <2>9, <2>10, <3>1, <3>2
    <3>4. \A x \in Starts(p) : x \in Starts(list) \/ x = r.begin
      BY <2>9, <2>10, <3>1, <3>2
    <3> QED
      BY <1>3, <2>6, <3>3, <3>4 DEF p
  <2> QED
    BY <2>7, <2>11, <2>12
<1> QED
  BY <1>1, <1>2, <1>3

LEMMA PushAllCovers ==
  ASSUME NEW list \in Lists, NEW more \in Seq(NatRange)
  PROVE  /\ Covered(list) \subseteq Covered(PushAll(list, more))
         /\ \A k \in 1..Len(more) :
              more[k].begin..(more[k].end - 1) \subseteq Covered(PushAll(list, more))
         /\ Starts(list) \subseteq Starts(PushAll(list, more))
         /\ Starts(PushAll(list, more)) \subseteq Starts(list) \union Starts(more)
<1> DEFINE N == Len(more)
           Good(n, x) ==
             /\ Covered(list) \subseteq Covered(x) /\ Starts(list) \subseteq Starts(x)
             /\ \A k \in 1..n : more[k].begin..(more[k].end - 1) \subseteq Covered(x)
             /\ Starts(x) \subseteq Starts(list) \union Starts(more)
<1>1. /\ IsLoop(NatRange, Lists, more, list, PushTurn)
      /\ PushAll(list, more) = Outcome(more, list, PushTurn)
  BY PushAllIs
<1>2. PICK f \in [0..N -> Lists] :
        /\ f[0] = list /\ f[N] = Outcome(more, list, PushTurn)
        /\ \A n \in 1..N : /\ n - 1 \in 0..N /\ n \in 0..N
                           /\ f[n] = PushTurn[<<f[n - 1], more[n]>>]
  BY <1>1, OutcomeOf
<1>3. N \in Nat /\ \A n \in 1..N : more[n] \in NatRange
  OBVIOUS
<1> HIDE DEF N
<1> DEFINE S == {n \in 0..N : Good(n, f[n])}
<1>4. 0 \in S
  BY <1>2, <1>3
<1>5. ASSUME NEW n \in 1..N, n - 1 \in S
      PROVE  n \in S
  <2>1. f[n - 1] \in Lists /\ more[n] \in NatRange /\ n \in 0..N
    BY <1>2, <1>3
  <2>2. f[n] = Push(f[n - 1], more[n])
    BY <1>2, <2>1, PushTurnIs
  <2>3. /\ Covered(f[n - 1]) \subseteq Covered(f[n])
        /\ more[n].begin..(more[n].end - 1) \subseteq Covered(f[n])
        /\ Starts(f[n - 1]) \subseteq Starts(f[n])
        /\ \A x \in Starts(f[n]) : x \in Starts(f[n - 1]) \/ x = more[n].begin
    BY <2>1, <2>2, PushCovers
  <2>4. Good(n - 1, f[n - 1])
    BY <1>5
  <2>5. \A k \in 1..n : k \in 1..(n - 1) \/ k = n
    BY <1>3
  <2>6. more[n].begin \in Starts(more)
    BY StartsAre DEF N
  <2>7. Good(n, f[n])
    BY <2>3, <2>4, <2>5, <2>6
  <2> QED
    BY <2>1, <2>7
<1> HIDE DEF S
<1>6. \A n \in 0..N : n \in S
  BY <1>3, <1>4, <1>5, UpTo
<1>7. N \in S
  BY <1>3, <1>6
<1>8. Good(N, f[N])
  BY <1>7 DEF S
<1> QED
  BY <1>1, <1>2, <1>8 DEF N

\* What every push keeps of the list and of what is left to push holds at the end.
LEMMA PushAllEnds ==
  ASSUME NEW S,
         \A list \in Lists, more \in Seq(NatRange) :
           <<list, more>> \in S /\ more # <<>> => <<Push(list, Head(more)), Tail(more)>> \in S,
         NEW list \in Lists, NEW more \in Seq(NatRange), <<list, more>> \in S
  PROVE  <<PushAll(list, more), <<>>>> \in S
<1> DEFINE N == Len(more)
           T == {n \in 0..N : \A l \in Lists, m \in Seq(NatRange) :
                   Len(m) = n /\ <<l, m>> \in S => <<PushAll(l, m), <<>>>> \in S}
<1>1. N \in Nat
  OBVIOUS
<1> HIDE DEF N
<1>2. 0 \in T
  <2>1. ASSUME NEW l \in Lists, NEW m \in Seq(NatRange), Len(m) = 0, <<l, m>> \in S
        PROVE  <<PushAll(l, m), <<>>>> \in S
    <3>1. m = <<>>
      BY <2>1, EmptySeq
    <3> QED
      BY <2>1, <3>1, PushAllEmpty
  <2> QED
    BY <1>1, <2>1
<1>3. ASSUME NEW n \in 1..N, n - 1 \in T
      PROVE  n \in T
  <2>1. ASSUME NEW l \in Lists, NEW m \in Seq(NatRange), Len(m) = n, <<l, m>> \in S
        PROVE  <<PushAll(l, m), <<>>>> \in S
    <3>1. m # <<>> /\ n \in Nat
      BY <1>1, <2>1, EmptySeq
    <3>2. /\ Head(m) \in NatRange /\ Tail(m) \in Seq(NatRange) /\ Len(Tail(m)) = n - 1
      BY <2>1, <3>1, HeadTailProperties
    <3>3. Push(l, Head(m)) \in Lists
      BY <3>2, PushTyped
    <3>4. <<Push(l, Head(m)), Tail(m)>> \in S
      BY <2>1, <3>1
    <3>5. <<PushAll(Push(l, Head(m)), Tail(m)), <<>>>> \in S
      BY <1>3, <3>2, <3>3, <3>4
    <3> QED
      BY <3>1, <3>5, PushAllFront
  <2>2. n \in 0..N
    BY <1>1
  <2> QED
    BY <2>1, <2>2
<1> HIDE DEF T
<1>4. N \in T
  <2>1. \A n \in 0..N : n \in T
    BY <1>1, <1>2, <1>3, UpTo
  <2> QED
    BY <1>1, <2>1
<1> QED
  BY <1>4 DEF T, N

\* The padding that sort fills: an address between one of the list and an aligned one at
\* which a range of the list begins, where no other range of it begins between the two.
Bridged(list, filled, a) ==
  \E e \in Covered(list), b \in Starts(list) :
    /\ e < a /\ a < b /\ b % Alignment = 0 /\ b - (e + 1) < Alignment
    /\ (e + 1)..(b - 1) \subseteq filled
    /\ \A x \in Starts(list) : x \notin (e + 1)..(b - 1)

LEMMA BridgedStays ==
  ASSUME NEW list, NEW small, NEW large, NEW a, Bridged(list, small, a), small \subseteq large
  PROVE  Bridged(list, large, a)
<1>1. PICK e \in Covered(list), b \in Starts(list) :
        /\ e < a /\ a < b /\ b % Alignment = 0 /\ b - (e + 1) < Alignment
        /\ (e + 1)..(b - 1) \subseteq small
        /\ \A x \in Starts(list) : x \notin (e + 1)..(b - 1)
  BY DEF Bridged
<1>2. (e + 1)..(b - 1) \subseteq large
  BY <1>1
<1> QED
  BY <1>1, <1>2 DEF Bridged

\* What has been pushed of the list l in order, and what is still to push.
Ordering(l, list, more) ==
  /\ Sorting(list, more, Covered(l)) /\ Covered(more) \subseteq Covered(l)
  /\ Starts(list) \subseteq Starts(l) /\ Starts(more) \subseteq Starts(l)
  /\ Starts(l) \subseteq Covered(list) \union Starts(more)
  /\ \A a \in Covered(list) : a \in Covered(l) \/ Bridged(l, Covered(list), a)

LEMMA OrderingStarts ==
  ASSUME NEW l \in Lists
  PROVE  Ordering(l, <<>>, ByBegin(l)) /\ ByBegin(l) \in Seq(NatRange)
<1> DEFINE s == ByBegin(l)
<1>1. l \in Seq(NatRange) /\ Proper(l)
  BY ListTyped, ListsAreProper
<1>2. /\ s \in Seq(NatRange) /\ Len(s) = Len(l)
      /\ \A n \in 1..Len(l) : \E k \in 1..Len(l) : s[n] = l[k]
      /\ \A k \in 1..Len(l) : \E n \in 1..Len(l) : s[n] = l[k]
  BY <1>1, ByBeginSorts
<1> HIDE DEF s
<1>3. Fits(l, Covered(l))
  <2>1. \A k \in 1..Len(l) : l[k].begin \in Covered(l) /\ l[k].end - 1 \in Covered(l)
    <3> TAKE k \in 1..Len(l)
    <3>1. l[k].begin \in Nat /\ l[k].end \in Nat /\ l[k].begin < l[k].end
      BY ListRanges
    <3>2. /\ l[k].begin \in l[k].begin..(l[k].end - 1)
          /\ l[k].end - 1 \in l[k].begin..(l[k].end - 1)
      BY <3>1
    <3> QED
      BY <3>2, ListRanges
  <2> QED
    BY <1>1, <2>1, PaddedGrows DEF Fits
<1>4. Sorting(<<>>, s, Covered(l))
  BY <1>3, SortStarts DEF s
<1>5. s \in Lists
  BY <1>4, ListsAreProper DEF Sorting, Fits
<1>6. Covered(s) \subseteq Covered(l)
  <2> SUFFICES ASSUME NEW a \in Covered(s)
               PROVE  a \in Covered(l)
    OBVIOUS
  <2>1. PICK n \in 1..Len(l) : a \in s[n].begin..(s[n].end - 1)
    BY <1>2, <1>5, ListRanges
  <2>2. PICK k \in 1..Len(l) : s[n] = l[k]
    BY <1>2
  <2> QED
    BY <2>1, <2>2, ListRanges
<1>7. \A x : x \in Starts(s) <=> x \in Starts(l)
  <2> TAKE x
  <2>1. x \in Starts(s) => x \in Starts(l)
    <3> SUFFICES ASSUME x \in Starts(s)
                 PROVE  x \in Starts(l)
      OBVIOUS
    <3>1. PICK n \in 1..Len(s) : x = s[n].begin
      BY StartsAre
    <3>2. PICK k \in 1..Len(l) : s[n] = l[k]
      BY <1>2
    <3> QED
      BY <3>1, <3>2, StartsAre
  <2>2. x \in Starts(l) => x \in Starts(s)
    <3> SUFFICES ASSUME NEW k \in 1..Len(l), x = l[k].begin
                 PROVE  x \in Starts(s)
      BY StartsAre
    <3>1. PICK n \in 1..Len(l) : s[n] = l[k]
      BY <1>2
    <3> QED
      BY <1>2, <3>1, StartsAre
  <2> QED
    BY <2>1, <2>2
<1>8. Covered(<<>>) = {} /\ Starts(<<>>) = {}
  <2>1. \A x : x \notin Starts(<<>>)
    BY StartsAre, SeqEmpty
  <2> QED
    BY <2>1, EmptyFits
<1> QED
  BY <1>2, <1>4, <1>6, <1>7, <1>8 DEF Ordering, s

LEMMA OrderingGoesOn ==
  ASSUME NEW l \in Lists, NEW list \in Lists, NEW more \in Seq(NatRange), more # <<>>,
         Ordering(l, list, more)
  PROVE  Ordering(l, Push(list, Head(more)), Tail(more))
<1> DEFINE g == Covered(l)
           r == Head(more)
           t == Tail(more)
           p == Push(list, r)
           n == Len(list)
<1>1. /\ Sorting(list, more, g) /\ Covered(more) \subseteq g
      /\ Starts(list) \subseteq Starts(l) /\ Starts(more) \subseteq Starts(l)
      /\ Starts(l) \subseteq Covered(list) \union Starts(more)
      /\ \A a \in Covered(list) : a \in g \/ Bridged(l, Covered(list), a)
  BY DEF Ordering
<1>2. /\ Fits(list, g) /\ Disjoint(list) /\ Proper(more) /\ Ascending(more)
      /\ list # <<>> => list[n].begin <= more[1].begin
  BY <1>1 DEF Sorting, Fits
<1>3. /\ r = more[1] /\ 1 \in 1..Len(more) /\ r \in NatRange /\ r.begin < r.end
      /\ Proper(t) /\ Len(t) = Len(more) - 1
      /\ \A k \in 1..(Len(more) - 1) : k + 1 \in 1..Len(more) /\ t[k] = more[k + 1]
      /\ \A a : a \in Covered(more) <=> a \in r.begin..(r.end - 1) \/ a \in Covered(t)
  BY <1>2, HeadAndTail
<1>4. Sorting(p, t, g)
  <2>1. g \subseteq Nat
    BY ListRanges
  <2> QED
    BY <1>1, <2>1, SortGoesOn
<1>5. /\ Covered(list) \subseteq Covered(p) /\ r.begin..(r.end - 1) \subseteq Covered(p)
      /\ \A x \in Starts(p) : x \in Starts(list) \/ x = r.begin
      /\ p \in Lists
  BY <1>3, PushCovers, PushTyped
<1>6. r.begin \in Starts(more) /\ Starts(t) \subseteq Starts(more)
  <2>1. r.begin \in Starts(more)
    BY <1>3, StartsAre
  <2>2. ASSUME NEW x \in Starts(t)
        PROVE  x \in Starts(more)
    <3>1. PICK k \in 1..Len(t) : x = t[k].begin
      BY DEF Starts
    <3>2. k + 1 \in 1..Len(more) /\ x = more[k + 1].begin
      BY <1>3, <3>1
    <3> QED
      BY <3>2, StartsAre
  <2> QED
    BY <2>1, <2>2
<1>7. \A x \in Starts(more) : x = r.begin \/ x \in Starts(t)
  <2> SUFFICES ASSUME NEW k \in 1..Len(more), k # 1
               PROVE  more[k].begin \in Starts(t)
    BY <1>3, StartsAre
  <2>1. Len(more) \in Nat
    OBVIOUS
  <2>2. k - 1 \in 1..(Len(more) - 1) /\ (k - 1) + 1 = k
    BY <2>1
  <2>3. t[k - 1] = more[k]
    BY <1>3, <2>2
  <2> QED
    BY <1>3, <2>2, <2>3, StartsAre
<1>8. \A x \in Starts(more) : r.begin <= x /\ x \in Nat
  <2> SUFFICES ASSUME NEW k \in 1..Len(more)
               PROVE  r.begin <= more[k].begin /\ more[k].begin \in Nat
    BY StartsAre
  <2>1. more[k].begin \in Nat /\ more[1].begin \in Nat
    BY <1>2, <1>3, ProperRanges
  <2>2. k = 1 \/ 1 < k
    OBVIOUS
  <2> QED
    BY <1>2, <1>3, <2>1, <2>2 DEF Ascending
<1>9. r.begin \in Nat /\ r.end \in Nat /\ r.begin \in Covered(p)
  <2>1. r.begin \in Nat /\ r.end \in Nat
    BY <1>3 DEF NatRange
  <2> QED
    BY <1>3, <1>5, <2>1
<1> HIDE DEF p, r, t, n
<1>10. ASSUME NEW a \in Covered(p)
       PROVE  a \in g \/ Bridged(l, Covered(p), a)
  <2>1. CASE a \in Covered(list)
    BY <1>1, <1>5, <2>1, BridgedStays
  <2>2. CASE a \in r.begin..(r.end - 1)
    BY <1>1, <1>3, <2>2
  <2>3. CASE a \notin Covered(list) /\ a \notin r.begin..(r.end - 1)
    <3>1. Grown(list, p, r) \/ Added(list, p, r)
      BY <1>3, ListsAreProper, PushIs DEF p
    <3>2. PICK k \in 1..Len(p) : a \in p[k].begin..(p[k].end - 1)
      BY <1>5, ListRanges
    <3>3. /\ n \in Nat /\ (list # <<>> => n # 0)
          /\ \A i \in 1..n : a \notin list[i].begin..(list[i].end - 1)
      BY <2>3, ListRanges, EmptySeq, ListTyped DEF n
    <3>4. CASE Added(list, p, r)
      <4>1. Len(p) = n + 1 /\ p[n + 1] = r /\ \A i \in 1..n : p[i] = list[i]
        BY <3>4 DEF Added, n
      <4>2. k \in 1..n \/ k = n + 1
        BY <3>3, <4>1
      <4> QED
        BY <2>3, <3>2, <3>3, <4>1, <4>2
    <3>5. CASE Grown(list, p, r)
      <4>1. /\ list # <<>> /\ Len(p) = n
            /\ \A i \in 1..(n - 1) : p[i] = list[i]
            /\ p[n].begin = list[n].begin /\ p[n].end \in {list[n].end, r.end}
            /\ r.begin <= list[n].end + Slack(r) /\ list[n].begin <= r.begin
        BY <3>5 DEF Grown, n
      <4>2. n \in 1..n /\ list[n].begin \in Nat /\ list[n].end \in Nat
            /\ list[n].begin < list[n].end
        <5>1. n \in 1..n
          BY <3>3, <4>1
        <5> QED
          BY <5>1, ListRanges DEF n
      <4>3. k = n
        <5>1. k \in 1..(n - 1) \/ k = n
          BY <3>3, <4>1
        <5> QED
          BY <3>2, <3>3, <4>1, <5>1
      <4> DEFINE e == list[n].end - 1
      <4>4. a \in Nat /\ e < a /\ a < r.begin
        BY <1>9, <2>3, <3>2, <3>3, <4>1, <4>2, <4>3
      <4>5. e \in g /\ e \in Nat
        BY <1>2, <4>2 DEF Fits, n
      <4>6. r.begin % Alignment = 0 /\ r.begin - (e + 1) < Alignment
        <5>1. Slack(r) \in 0..(Alignment - 1) /\ (Slack(r) # 0 => r.begin % Alignment = 0)
          BY <1>3, SlackBounds
        <5>2. Slack(r) # 0
          BY <1>9, <4>1, <4>2, <4>4, <5>1, AlignmentAssumption
        <5> QED
          BY <1>9, <4>1, <4>2, <5>1, <5>2, AlignmentAssumption
      <4>7. (e + 1)..(r.begin - 1) \subseteq Covered(p)
        <5>1. p[n].end = r.end
          BY <1>9, <3>2, <4>1, <4>2, <4>3, <4>4
        <5>2. \A c \in (e + 1)..(r.begin - 1) : c \in p[n].begin..(p[n].end - 1)
          BY SMTT(30), <1>3, <1>9, <4>1, <4>2, <5>1
        <5>3. n \in 1..Len(p)
          BY <4>1, <4>2
        <5> QED
          BY <1>5, <5>2, <5>3, ListRanges
      <4>8. ASSUME NEW x \in Starts(l)
            PROVE  x \notin (e + 1)..(r.begin - 1)
        <5>1. CASE x \in Starts(more)
          BY <1>8, <1>9, <5>1
        <5>2. CASE x \in Covered(list)
          <6>1. PICK i \in 1..n : x \in list[i].begin..(list[i].end - 1)
            BY <5>2, ListRanges DEF n
          <6>2. list[i].end <= list[n].end /\ list[i].begin \in Nat /\ list[i].end \in Nat
            <7>1. list[i].begin \in Nat /\ list[i].end \in Nat
              BY ListRanges DEF n
            <7>2. i = n \/ i < n
              BY <3>3
            <7>3. i < n => list[i].end <= list[n].begin
              BY <1>2, <4>2, ListsAreProper, DisjointOrdered DEF Ordered, n
            <7> QED
              BY <4>2, <7>1, <7>2, <7>3
          <6> QED
            BY SMTT(30), <4>2, <6>1, <6>2
        <5> QED
          BY <1>1, <5>1, <5>2
      <4>9. r.begin \in Starts(l)
        BY <1>1, <1>6
      <4> HIDE DEF e
      <4>10. Bridged(l, Covered(p), a)
        BY <4>4, <4>5, <4>6, <4>7, <4>8, <4>9 DEF Bridged
      <4> QED
        BY <4>10
    <3> QED
      BY <3>1, <3>4, <3>5
  <2> QED
    BY <2>1, <2>2, <2>3
<1>11. Starts(p) \subseteq Starts(l) /\ Starts(t) \subseteq Starts(l)
  BY <1>1, <1>5, <1>6
<1>12. Starts(l) \subseteq Covered(p) \union Starts(t)
  BY <1>1, <1>5, <1>7, <1>9
<1>13. Covered(t) \subseteq g
  BY <1>1, <1>3
<1> QED
  BY <1>4, <1>10, <1>11, <1>12, <1>13 DEF Ordering, p, r, t

\* sort.
LEMMA SortIs ==
  ASSUME NEW l \in Lists
  PROVE  /\ SortRanges(l) \in Lists /\ Disjoint(SortRanges(l))
         /\ Covered(l) \subseteq Covered(SortRanges(l))
         /\ Starts(SortRanges(l)) \subseteq Starts(l)
         /\ \A a \in Covered(SortRanges(l)) :
              a \in Covered(l) \/ Bridged(l, Covered(SortRanges(l)), a)
<1> DEFINE S == {p \in Lists \X Seq(NatRange) : Ordering(l, p[1], p[2])}
           s == SortRanges(l)
<1>1. \A list \in Lists, more \in Seq(NatRange) :
        <<list, more>> \in S <=> Ordering(l, list, more)
  OBVIOUS
<1>2. \A list \in Lists, more \in Seq(NatRange) :
        <<list, more>> \in S /\ more # <<>> => <<Push(list, Head(more)), Tail(more)>> \in S
  <2> TAKE list \in Lists, more \in Seq(NatRange)
  <2> HAVE <<list, more>> \in S /\ more # <<>>
  <2>1. Push(list, Head(more)) \in Lists /\ Tail(more) \in Seq(NatRange)
    BY PushTyped
  <2>2. Ordering(l, Push(list, Head(more)), Tail(more))
    BY <1>1, OrderingGoesOn
  <2> QED
    BY <1>1, <2>1, <2>2
<1>3. ByBegin(l) \in Seq(NatRange) /\ <<<<>>, ByBegin(l)>> \in S
  BY OrderingStarts, EmptyIsList
<1> HIDE DEF S
<1>4. <<PushAll(<<>>, ByBegin(l)), <<>>>> \in S
  BY <1>2, <1>3, EmptyIsList, PushAllEnds
<1>5. s = PushAll(<<>>, ByBegin(l)) /\ s \in Lists
  BY <1>3, EmptyIsList, PushAllIs DEF SortRanges
<1> HIDE DEF s
<1>6. Ordering(l, s, <<>>)
  BY <1>4, <1>5 DEF S
<1>7. Sorting(s, <<>>, Covered(l)) /\ Starts(s) \subseteq Starts(l)
      /\ \A a \in Covered(s) : a \in Covered(l) \/ Bridged(l, Covered(s), a)
  BY <1>6 DEF Ordering
<1>8. Disjoint(s) /\ Covered(l) \subseteq Covered(s)
  BY <1>7, SortEnds
<1> QED
  BY <1>5, <1>7, <1>8 DEF s

\* Ranges that begin outside what a list covers when it is sorted can be pushed to it, and
\* it covers all that it covered: a gap that was filled is filled, or covered, again.
LEMMA SortGrows ==
  ASSUME NEW l \in Lists, NEW more \in Lists,
         Starts(more) \intersect Covered(SortRanges(l)) = {}
  PROVE  Covered(SortRanges(l)) \subseteq Covered(SortRanges(PushAll(l, more)))
<1> DEFINE m == PushAll(l, more)
           old == SortRanges(l)
           new == SortRanges(m)
<1>1. /\ m \in Lists /\ Covered(l) \subseteq Covered(m) /\ Starts(l) \subseteq Starts(m)
      /\ Starts(m) \subseteq Starts(l) \union Starts(more)
  BY ListTyped, PushAllIs, PushAllCovers
<1> HIDE DEF m
<1>2. /\ old \in Lists
      /\ \A a \in Covered(old) : a \in Covered(l) \/ Bridged(l, Covered(old), a)
  BY SortIs
<1>3. /\ new \in Lists /\ Disjoint(new) /\ Covered(m) \subseteq Covered(new)
      /\ Starts(new) \subseteq Starts(m)
  BY <1>1, SortIs
<1>4. Starts(more) \intersect Covered(old) = {}
  OBVIOUS
<1> HIDE DEF old, new
<1> SUFFICES ASSUME NEW a \in Covered(old), a \notin Covered(new)
             PROVE  FALSE
  BY DEF old, new, m
<1>5. PICK e \in Covered(l), b \in Starts(l) :
        /\ e < a /\ a < b /\ b % Alignment = 0 /\ b - (e + 1) < Alignment
        /\ (e + 1)..(b - 1) \subseteq Covered(old)
        /\ \A x \in Starts(l) : x \notin (e + 1)..(b - 1)
  BY <1>1, <1>2, <1>3 DEF Bridged
<1>6. e \in Nat /\ a \in Nat /\ b \in Nat /\ b \in Covered(l)
  BY <1>2, ListRanges
<1>7. e \in Covered(new) /\ b \in Covered(new)
  BY <1>1, <1>3, <1>6
<1>8. PICK i \in 1..Len(new) : e \in new[i].begin..(new[i].end - 1)
  BY <1>3, <1>7, ListRanges
<1>9. PICK j \in 1..Len(new) : b \in new[j].begin..(new[j].end - 1)
  BY <1>3, <1>7, ListRanges
<1>10. /\ Len(new) \in Nat
       /\ \A k \in 1..Len(new) : /\ new[k].begin \in Nat /\ new[k].end \in Nat
                                 /\ new[k].begin < new[k].end
                                 /\ a \notin new[k].begin..(new[k].end - 1)
                                 /\ new[k].begin \in Starts(m)
  <2>1. \A k \in 1..Len(new) : new[k].begin \in Starts(m)
    BY <1>3, StartsAre
  <2>2. \A k \in 1..Len(new) : a \notin new[k].begin..(new[k].end - 1)
    BY <1>3, ListRanges
  <2> QED
    BY <1>3, <2>1, <2>2, ListRanges
<1>11. /\ new[i].begin \in Nat /\ new[i].end \in Nat /\ new[j].begin \in Nat /\ new[j].end \in Nat
       /\ new[i].end <= a /\ a < new[j].begin /\ new[j].begin <= b
       /\ new[i].begin <= e /\ e < new[i].end
  <2>1. /\ new[i].begin \in Nat /\ new[i].end \in Nat
        /\ a \notin new[i].begin..(new[i].end - 1)
    BY <1>8, <1>10
  <2>2. /\ new[j].begin \in Nat /\ new[j].end \in Nat
        /\ a \notin new[j].begin..(new[j].end - 1)
    BY <1>9, <1>10
  <2>3. new[i].begin <= e /\ e < new[i].end
    BY <1>6, <1>8, <2>1
  <2>4. new[j].begin <= b /\ b < new[j].end
    BY <1>6, <1>9, <2>2
  <2>5. e < a /\ a < b
    BY <1>5
  <2>6. new[i].end <= a
    BY <1>6, <2>1, <2>3, <2>5
  <2>7. a < new[j].begin
    BY <1>6, <2>2, <2>4, <2>5
  <2> QED
    BY <2>1, <2>2, <2>3, <2>4, <2>6, <2>7
<1>12. i < j
  <2>1. i # j
    <3> SUFFICES ASSUME i = j
                 PROVE  FALSE
      OBVIOUS
    <3>1. new[i].begin > a /\ new[i].begin <= e
      BY <1>11
    <3>2. e < a
      BY <1>5
    <3> QED
      BY <1>6, <1>11, <3>1, <3>2
  <2>2. ASSUME j < i
        PROVE  FALSE
    <3>1. Ordered(new)
      BY <1>3, ListsAreProper, DisjointOrdered
    <3>2. new[j].end <= new[i].begin
      BY <2>2, <3>1 DEF Ordered
    <3>3. new[i].begin <= e /\ new[j].begin > a /\ new[j].begin < new[j].end
      BY <1>10, <1>11
    <3>4. e < a
      BY <1>5
    <3> QED
      BY <1>6, <1>11, <3>2, <3>3, <3>4
  <2> QED
    BY <1>10, <2>1, <2>2
\* The first range behind a begins at c.
<1>13. i + 1 \in 1..Len(new) /\ i \in 1..(Len(new) - 1)
  BY <1>10, <1>12
<1> DEFINE c == new[i + 1].begin
<1>14. c \in Nat /\ c <= b /\ c \in Starts(m)
  <2>1. c \in Nat /\ c \in Starts(m) /\ new[i + 1].end \in Nat
    BY <1>10, <1>13
  <2>2. i + 1 = j \/ i + 1 < j
    BY <1>10, <1>12
  <2>3. i + 1 < j => new[i + 1].end <= new[j].begin
    BY <1>3, <1>13, ListsAreProper, DisjointOrdered DEF Ordered
  <2>4. new[i + 1].begin < new[i + 1].end /\ new[j].begin \in Nat
    BY <1>10, <1>13
  <2> QED
    BY <1>6, <1>11, <2>1, <2>2, <2>3, <2>4
<1>15. new[i].end + Slack(new[i + 1]) < c /\ Slack(new[i + 1]) \in 0..(Alignment - 1)
  <2>1. new[i + 1] \in NatRange
    BY <1>3, <1>13, ListRanges
  <2> QED
    BY <1>3, <1>13, <2>1, SlackBounds DEF Disjoint, Slack
<1>16. e < new[i].end /\ new[i].end \in Nat
  BY <1>6, <1>8, <1>10
<1>17. e < c
  BY <1>6, <1>14, <1>15, <1>16, AlignmentAssumption
<1> HIDE DEF c
<1>18. CASE c = b
  <2>1. Slack(new[i + 1]) = Alignment - 1
    BY <1>5, <1>18 DEF Slack, c
  <2> QED
    BY <1>5, <1>6, <1>14, <1>15, <1>16, <1>18, <2>1, AlignmentAssumption
<1>19. CASE c # b
  <2>1. c \in (e + 1)..(b - 1)
    BY <1>6, <1>14, <1>17, <1>19
  <2> QED
    BY <1>1, <1>4, <1>5, <1>14, <2>1
<1> QED
  BY <1>18, <1>19

-----------------------------------------------------------------------------
(***************************************************************************)
(* What subtract leaves, for the lists of Symbols.  A piece begins where   *)
(* no hole is, and every address of the ranges outside the holes is in a   *)
(* piece.                                                                  *)
(***************************************************************************)
Free(r, holes) == (r.begin..(r.end - 1)) \ Covered(holes)

CutSoFar(list, r, holes, n, acc) ==
  /\ acc.from >= r.begin
  /\ \A k \in 1..n : holes[k].end <= acc.from \/ holes[k].begin >= r.end
  /\ Covered(list) \subseteq Covered(acc.out)
  /\ \A a \in Free(r, holes) : a < acc.from => a \in Covered(acc.out)
  /\ Starts(acc.out) \subseteq Starts(list) \union Free(r, holes)
  /\ Free(r, holes) = {} => acc.out = list

\* A cut ends before an address that no hole so far has and no later one reaches.
LEMMA CutGoesOn ==
  ASSUME NEW list \in Lists, NEW r \in NatRange, NEW holes \in Lists, Ordered(holes),
         NEW n \in 1..Len(holes), NEW acc \in CutStates, CutSoFar(list, r, holes, n - 1, acc)
  PROVE  CutSoFar(list, r, holes, n, CutOut(acc, r, holes[n]))
<1> DEFINE h == holes[n]
           x == CutOut(acc, r, h)
<1>1. /\ acc.from \in Nat /\ acc.out \in Lists /\ r.begin \in Nat /\ r.end \in Nat
      /\ Len(holes) \in Nat
      /\ \A k \in 1..Len(holes) : /\ holes[k].begin \in Nat /\ holes[k].end \in Nat
                                  /\ holes[k].begin < holes[k].end
      /\ h \in NatRange
  BY ListRanges DEF CutStates, NatRange
<1>2. /\ acc.from >= r.begin
      /\ \A k \in 1..(n - 1) : holes[k].end <= acc.from \/ holes[k].begin >= r.end
      /\ Covered(list) \subseteq Covered(acc.out)
      /\ \A a \in Free(r, holes) : a < acc.from => a \in Covered(acc.out)
      /\ Starts(acc.out) \subseteq Starts(list) \union Free(r, holes)
      /\ Free(r, holes) = {} => acc.out = list
  BY DEF CutSoFar
<1>3. \A k \in 1..n : k \in 1..(n - 1) \/ k = n
  BY <1>1
<1> HIDE DEF h
<1>4. CASE h.end <= acc.from \/ h.begin >= r.end
  <2>1. x = acc
    BY <1>4 DEF CutOut
  <2>2. \A k \in 1..n : holes[k].end <= acc.from \/ holes[k].begin >= r.end
    BY <1>2, <1>3, <1>4 DEF h
  <2> QED
    BY <1>2, <2>1, <2>2 DEF CutSoFar, h
<1>5. CASE ~(h.end <= acc.from \/ h.begin >= r.end)
  <2> DEFINE piece == Span(acc.from, h.begin)
             out == IF h.begin > acc.from THEN Push(acc.out, piece) ELSE acc.out
  <2>1. x = [from |-> h.end, out |-> out]
    BY <1>5 DEF CutOut
  <2>2. h.begin \in Nat /\ h.end \in Nat /\ h.begin < h.end
    BY <1>1 DEF h
  <2>3. h.end > acc.from /\ h.begin < r.end
    BY <1>1, <1>5, <2>2
  <2>4. x.from = h.end /\ x.out = out
    BY <2>1
  <2>5. \A k \in 1..n : holes[k].end <= h.end \/ holes[k].begin >= r.end
    BY <1>1, <1>2, <1>3, <2>2, <2>3 DEF h
  <2>6. ASSUME h.begin > acc.from
        PROVE  acc.from \in Free(r, holes)
    <3>1. acc.from \in r.begin..(r.end - 1)
      BY <1>1, <1>2, <2>2, <2>3, <2>6
    <3>2. ASSUME NEW k \in 1..Len(holes), acc.from \in holes[k].begin..(holes[k].end - 1)
          PROVE  FALSE
      <4>1. holes[k].begin \in Nat /\ holes[k].end \in Nat
        BY <1>1
      <4>2. k < n \/ k = n \/ n < k
        BY <1>1
      <4>3. CASE k < n
        <5>1. k \in 1..(n - 1)
          BY <1>1, <4>3
        <5>2. holes[k].end <= acc.from \/ holes[k].begin >= r.end
          BY <1>2, <5>1
        <5> QED
          BY SMTT(30), <1>1, <3>1, <3>2, <4>1, <5>2
      <4>4. CASE k = n
        BY <1>1, <2>2, <2>6, <3>2, <4>4 DEF h
      <4>5. CASE n < k
        <5>1. h.end <= holes[k].begin
          BY <4>5 DEF Ordered, h
        <5> QED
          BY <1>1, <2>2, <2>3, <3>2, <4>1, <5>1
      <4> QED
        BY <4>2, <4>3, <4>4, <4>5
    <3>3. acc.from \notin Covered(holes)
      BY <3>2, ListRanges
    <3> QED
      BY <3>1, <3>3 DEF Free
  <2>7. /\ Covered(acc.out) \subseteq Covered(out)
        /\ h.begin > acc.from => acc.from..(h.begin - 1) \subseteq Covered(out)
        /\ Starts(out) \subseteq Starts(acc.out) \union Free(r, holes)
        /\ Free(r, holes) = {} => out = acc.out
    <3>1. CASE h.begin > acc.from
      <4>1. /\ piece \in NatRange /\ piece.begin = acc.from /\ piece.end = h.begin
        BY <1>1, <2>2, SpanTyped
      <4>2. out = Push(acc.out, piece)
        BY <3>1
      <4> HIDE DEF piece, out
      <4>3. /\ Covered(acc.out) \subseteq Covered(out)
            /\ piece.begin..(piece.end - 1) \subseteq Covered(out)
            /\ \A y \in Starts(out) : y \in Starts(acc.out) \/ y = piece.begin
        BY <1>1, <4>1, <4>2, PushCovers
      <4>4. acc.from \in Free(r, holes)
        BY <2>6, <3>1
      <4> QED
        BY <4>1, <4>3, <4>4
    <3>2. CASE ~(h.begin > acc.from)
      <4>1. out = acc.out
        BY <3>2
      <4> HIDE DEF out
      <4> QED
        BY <3>2, <4>1
    <3> QED
      BY <3>1, <3>2
  <2> HIDE DEF out
  <2>8. ASSUME NEW a \in Free(r, holes), a < h.end
        PROVE  a \in Covered(out)
    <3>1. a \in Nat /\ a \notin Covered(holes)
      BY <1>1 DEF Free
    <3>2. a \notin h.begin..(h.end - 1)
      BY <3>1, ListRanges DEF h
    <3>3. a < h.begin
      BY <2>2, <2>8, <3>1, <3>2
    <3>4. CASE a < acc.from
      BY <1>2, <2>7, <3>4
    <3>5. CASE ~(a < acc.from)
      <4>1. h.begin > acc.from /\ a \in acc.from..(h.begin - 1)
        BY <1>1, <2>2, <3>1, <3>3, <3>5
      <4> QED
        BY <2>7, <4>1
    <3> QED
      BY <3>4, <3>5
  <2>9. Covered(list) \subseteq Covered(out)
    BY <1>2, <2>7
  <2>10. Starts(out) \subseteq Starts(list) \union Free(r, holes)
    BY <1>2, <2>7
  <2>11. h.end >= r.begin
    BY <1>1, <1>2, <2>2, <2>3
  <2> HIDE DEF x
  <2>12. CutSoFar(list, r, holes, n, x)
    BY <1>2, <2>4, <2>5, <2>7, <2>8, <2>9, <2>10, <2>11 DEF CutSoFar
  <2> QED
    BY <2>12 DEF x, h
<1> QED
  BY <1>4, <1>5

LEMMA WithoutCovers ==
  ASSUME NEW list \in Lists, NEW r \in NatRange, NEW holes \in Lists, Ordered(holes)
  PROVE  /\ Covered(list) \subseteq Covered(Without(list, r, holes))
         /\ Free(r, holes) \subseteq Covered(Without(list, r, holes))
         /\ Starts(Without(list, r, holes)) \subseteq Starts(list) \union Free(r, holes)
         /\ Free(r, holes) = {} => Without(list, r, holes) = list
<1> DEFINE N == Len(holes)
           start == AtBegin(list, r)
           w == Without(list, r, holes)
           So(n, acc) == CutSoFar(list, r, holes, n, acc)
<1>1. /\ IsLoop(NatRange, CutStates, holes, start, CutTurn(r))
      /\ w = CutOff(Outcome(holes, start, CutTurn(r)), r)
  BY ListTyped, WithoutIs
<1>2. PICK f \in [0..N -> CutStates] :
        /\ f[0] = start /\ f[N] = Outcome(holes, start, CutTurn(r))
        /\ \A n \in 1..N : /\ n - 1 \in 0..N /\ n \in 0..N
                           /\ f[n] = CutTurn(r)[<<f[n - 1], holes[n]>>]
  BY <1>1, OutcomeOf
<1>3. /\ N \in Nat /\ r.begin \in Nat /\ r.end \in Nat
      /\ \A n \in 1..N : /\ holes[n] \in NatRange
                         /\ holes[n].begin \in Nat /\ holes[n].end \in Nat
                         /\ holes[n].begin < holes[n].end
  BY ListRanges DEF NatRange
<1> HIDE DEF N, w
<1> DEFINE S == {n \in 0..N : So(n, f[n])}
<1>4. 0 \in S
  <2>1. f[0].from = r.begin /\ f[0].out = list
    BY <1>2 DEF AtBegin
  <2>2. \A a \in Free(r, holes) : ~(a < r.begin)
    BY <1>3 DEF Free
  <2>3. So(0, f[0])
    BY <1>3, <2>1, <2>2 DEF CutSoFar
  <2> QED
    BY <1>3, <2>3
<1>5. ASSUME NEW n \in 1..N, n - 1 \in S
      PROVE  n \in S
  <2>1. f[n - 1] \in CutStates /\ holes[n] \in NatRange /\ n \in 0..N
    BY <1>2, <1>3
  <2>2. f[n] = CutOut(f[n - 1], r, holes[n])
    BY <1>2, <2>1, CutTurnIs
  <2>3. CutSoFar(list, r, holes, n - 1, f[n - 1])
    BY <1>5
  <2>4. CutSoFar(list, r, holes, n, CutOut(f[n - 1], r, holes[n]))
    BY <2>1, <2>3, CutGoesOn DEF N
  <2> QED
    BY <2>1, <2>2, <2>4
<1> HIDE DEF S
<1>6. N \in S
  <2>1. \A n \in 0..N : n \in S
    BY <1>3, <1>4, <1>5, UpTo
  <2> QED
    BY <1>3, <2>1
<1> DEFINE cut == f[N]
<1>7. cut \in CutStates /\ w = CutOff(cut, r)
  BY <1>1, <1>2, <1>3
<1>8. CutSoFar(list, r, holes, N, cut)
  BY <1>6 DEF S
<1> HIDE DEF cut
<1>9. /\ cut.from >= r.begin /\ cut.from \in Nat /\ cut.out \in Lists
      /\ \A k \in 1..N : holes[k].end <= cut.from \/ holes[k].begin >= r.end
      /\ Covered(list) \subseteq Covered(cut.out)
      /\ \A a \in Free(r, holes) : a < cut.from => a \in Covered(cut.out)
      /\ Starts(cut.out) \subseteq Starts(list) \union Free(r, holes)
      /\ Free(r, holes) = {} => cut.out = list
  BY <1>7, <1>8 DEF CutSoFar, CutStates
<1>10. CASE cut.from < r.end
  <2> DEFINE piece == Span(cut.from, r.end)
  <2>1. piece \in NatRange /\ piece.begin = cut.from /\ piece.end = r.end
    BY <1>3, <1>9, SpanTyped
  <2>2. w = Push(cut.out, piece)
    BY <1>7, <1>10 DEF CutOff
  <2> HIDE DEF piece
  <2>3. /\ Covered(cut.out) \subseteq Covered(w)
        /\ piece.begin..(piece.end - 1) \subseteq Covered(w)
        /\ \A y \in Starts(w) : y \in Starts(cut.out) \/ y = piece.begin
    BY <1>9, <2>1, <2>2, PushCovers
  <2>4. cut.from \in Free(r, holes)
    <3>1. cut.from \in r.begin..(r.end - 1)
      BY <1>3, <1>9, <1>10
    <3>2. \A k \in 1..N : cut.from \notin holes[k].begin..(holes[k].end - 1)
      BY <1>3, <1>9, <1>10
    <3>3. cut.from \notin Covered(holes)
      BY <3>2, ListRanges DEF N
    <3> QED
      BY <3>1, <3>3 DEF Free
  <2>5. Free(r, holes) \subseteq Covered(w)
    <3> SUFFICES ASSUME NEW a \in Free(r, holes)
                 PROVE  a \in Covered(w)
      OBVIOUS
    <3>1. a \in r.begin..(r.end - 1)
      BY DEF Free
    <3>2. a < cut.from \/ a \in cut.from..(r.end - 1)
      BY <1>3, <1>9, <3>1
    <3> QED
      BY <1>9, <2>1, <2>3, <3>2
  <2>6. Starts(w) \subseteq Starts(list) \union Free(r, holes)
    BY <1>9, <2>1, <2>3, <2>4
  <2> QED
    BY <1>9, <2>3, <2>4, <2>5, <2>6 DEF w
<1>11. CASE ~(cut.from < r.end)
  <2>1. w = cut.out
    BY <1>7, <1>11 DEF CutOff
  <2>2. Free(r, holes) \subseteq Covered(w)
    <3> SUFFICES ASSUME NEW a \in Free(r, holes)
                 PROVE  a \in Covered(w)
      OBVIOUS
    <3>1. a \in r.begin..(r.end - 1)
      BY DEF Free
    <3>2. a < cut.from
      BY <1>3, <1>9, <1>11, <3>1
    <3> QED
      BY <1>9, <2>1, <3>2
  <2> QED
    BY <1>9, <2>1, <2>2 DEF w
<1> QED
  BY <1>10, <1>11

LEMMA WithoutAllCovers ==
  ASSUME NEW list \in Lists, NEW more \in Lists, NEW holes \in Lists, Ordered(holes)
  PROVE  /\ Covered(list) \subseteq Covered(WithoutAll(list, more, holes))
         /\ Covered(more) \ Covered(holes) \subseteq Covered(WithoutAll(list, more, holes))
         /\ Starts(WithoutAll(list, more, holes))
              \subseteq Starts(list) \union (Covered(more) \ Covered(holes))
         /\ Covered(more) \subseteq Covered(holes) => WithoutAll(list, more, holes) = list
<1> DEFINE N == Len(more)
           left == Covered(more) \ Covered(holes)
           Good(n, x) ==
             /\ Covered(list) \subseteq Covered(x)
             /\ \A k \in 1..n : Free(more[k], holes) \subseteq Covered(x)
             /\ Starts(x) \subseteq Starts(list) \union left
             /\ left = {} => x = list
           turn == WithoutTurn(holes)
<1>1. /\ IsLoop(NatRange, Lists, more, list, turn)
      /\ WithoutAll(list, more, holes) = Outcome(more, list, turn)
  BY ListTyped, WithoutAllIs
<1>2. PICK f \in [0..N -> Lists] :
        /\ f[0] = list /\ f[N] = Outcome(more, list, turn)
        /\ \A n \in 1..N : /\ n - 1 \in 0..N /\ n \in 0..N
                           /\ f[n] = turn[<<f[n - 1], more[n]>>]
  BY <1>1, OutcomeOf
<1>3. N \in Nat /\ \A n \in 1..N : more[n] \in NatRange
  BY ListRanges
<1>4. \A n \in 1..N : Free(more[n], holes) \subseteq left
  BY ListRanges DEF Free
<1> HIDE DEF N, left
<1> DEFINE S == {n \in 0..N : Good(n, f[n])}
<1>5. 0 \in S
  BY <1>2, <1>3
<1>6. ASSUME NEW n \in 1..N, n - 1 \in S
      PROVE  n \in S
  <2>1. f[n - 1] \in Lists /\ more[n] \in NatRange /\ n \in 0..N
    BY <1>2, <1>3
  <2>2. f[n] = Without(f[n - 1], more[n], holes)
    BY <1>2, <2>1, ListTyped, WithoutTurnIs
  <2>3. /\ Covered(f[n - 1]) \subseteq Covered(f[n])
        /\ Free(more[n], holes) \subseteq Covered(f[n])
        /\ Starts(f[n]) \subseteq Starts(f[n - 1]) \union Free(more[n], holes)
        /\ Free(more[n], holes) = {} => f[n] = f[n - 1]
    BY <2>1, <2>2, WithoutCovers
  <2>4. Good(n - 1, f[n - 1])
    BY <1>6
  <2>5. \A k \in 1..n : k \in 1..(n - 1) \/ k = n
    BY <1>3
  <2>6. Good(n, f[n])
    BY <1>4, <2>3, <2>4, <2>5
  <2> QED
    BY <2>1, <2>6
<1> HIDE DEF S
<1>7. N \in S
  <2>1. \A n \in 0..N : n \in S
    BY <1>3, <1>5, <1>6, UpTo
  <2> QED
    BY <1>3, <2>1
<1>8. Good(N, f[N])
  BY <1>7 DEF S
<1>9. left \subseteq Covered(f[N])
  <2> SUFFICES ASSUME NEW a \in left
               PROVE  a \in Covered(f[N])
    OBVIOUS
  <2>1. a \in Covered(more) /\ a \notin Covered(holes)
    BY DEF left
  <2>2. PICK k \in 1..N : a \in more[k].begin..(more[k].end - 1)
    BY <2>1, ListRanges DEF N
  <2> QED
    BY <1>8, <2>1, <2>2 DEF Free
<1>10. Covered(more) \subseteq Covered(holes) => left = {}
  BY DEF left
<1> QED
  BY <1>1, <1>2, <1>8, <1>9, <1>10 DEF left

\* subtract.
LEMMA SubtractIs ==
  ASSUME NEW list \in Lists, NEW other \in Lists, Ordered(other)
  PROVE  /\ Subtract(list, other) \in Lists
         /\ Covered(list) \ Covered(other) \subseteq Covered(Subtract(list, other))
         /\ Starts(Subtract(list, other)) \subseteq Covered(list) \ Covered(other)
         /\ Covered(list) \subseteq Covered(other) => Subtract(list, other) = <<>>
<1> DEFINE w == WithoutAll(<<>>, list, other)
<1>1. Covered(<<>>) = {} /\ Starts(<<>>) = {} /\ <<>> \in Lists
  <2>1. \A x : x \notin Starts(<<>>)
    BY StartsAre, SeqEmpty
  <2> QED
    BY <2>1, EmptyFits, EmptyIsList
<1>2. w \in Lists
  BY <1>1, ListTyped, WithoutAllIs
<1>3. /\ Covered(list) \ Covered(other) \subseteq Covered(w)
      /\ Starts(w) \subseteq Covered(list) \ Covered(other)
      /\ Covered(list) \subseteq Covered(other) => w = <<>>
  BY <1>1, WithoutAllCovers
<1> HIDE DEF w
<1>4. /\ SortRanges(w) \in Lists /\ Covered(w) \subseteq Covered(SortRanges(w))
      /\ Starts(SortRanges(w)) \subseteq Starts(w)
  BY <1>2, SortIs
<1>5. Subtract(list, other) = SortRanges(w)
  BY DEF Subtract, w
<1>6. ASSUME w = <<>>
      PROVE  SortRanges(w) = <<>>
  <2>1. Starts(SortRanges(w)) = {}
    BY <1>1, <1>4, <1>6
  <2>2. Len(SortRanges(w)) = 0
    <3> SUFFICES ASSUME Len(SortRanges(w)) # 0
                 PROVE  FALSE
      OBVIOUS
    <3>1. 1 \in 1..Len(SortRanges(w))
      BY <1>4, ListRanges
    <3> QED
      BY <2>1, <3>1, StartsAre
  <2> QED
    BY <1>4, <2>2, ListTyped, EmptySeq
<1> QED
  BY <1>3, <1>4, <1>5, <1>6
=============================================================================
