---------------------------- MODULE SymbolProofs ----------------------------
(***************************************************************************)
(* Theorems about how a file is opened, for every symbol table and for     *)
(* any number of sections and units, whose ranges have any addresses.      *)
(*                                                                         *)
(* The calls of get_symbol are those of the parsed units, in order: FileInv *)
(* says which of them have been made and that the used symbols and the     *)
(* names are those of the calls made.  What follows from it at the end is  *)
(* about lists of ranges (RangeProofs), about the first symbol at an       *)
(* address, and about how often a symbol occurs.                           *)
(***************************************************************************)
EXTENDS RangeProofs, Symbols

-----------------------------------------------------------------------------
(***************************************************************************)
(* The two loops that keep an order.                                       *)
(***************************************************************************)
\* Elements of s, at places in I: every one of them is there, in the order of s.
InPlaces(s, I, order) ==
  /\ order \in [1..Cardinality(I) -> I]
  /\ Picked(s, I) = [n \in 1..Cardinality(I) |-> s[order[n]]]
  /\ \A i, j \in 1..Cardinality(I) : i < j => order[i] < order[j]
  /\ \A k \in I : \E n \in 1..Cardinality(I) : order[n] = k

LEMMA PickedPlaces ==
  ASSUME NEW s, IsSeq(s), NEW I, I \subseteq 1..Len(s)
  PROVE  /\ IsFiniteSet(I) /\ Cardinality(I) \in Nat
         /\ \E order : InPlaces(s, I, order)
<1> DEFINE before == {p \in I \X I : p[1] < p[2]}
           order == Arrange(I, before)
<1>1. Len(s) \in Nat /\ DOMAIN s = 1..Len(s)
  BY SeqLen
<1>2. IsFiniteSet(1..Len(s))
  BY <1>1, FS_Interval
<1>3. IsFiniteSet(I) /\ Cardinality(I) \in Nat
  BY <1>2, FS_Subset, FS_CardinalityType
<1>4. \A i, j \in I : <<i, j>> \in before <=> i < j
  OBVIOUS
<1>5. \A i \in I : i \in Nat
  BY <1>1
<1>6. Picked(s, I) = [n \in DOMAIN order |-> s[order[n]]]
  BY DEF Picked
<1> HIDE DEF before, order
<1>7. Strict(I, before)
  BY <1>4, <1>5 DEF Strict
<1>8. /\ order \in [1..Cardinality(I) -> I]
      /\ \A i, j \in 1..Cardinality(I) : i < j => <<order[i], order[j]>> \in before
      /\ \A k \in I : \E n \in 1..Cardinality(I) : order[n] = k
  BY <1>3, <1>7, ArrangeSorts DEF order
<1>9. \A i, j \in 1..Cardinality(I) : i < j => order[i] < order[j]
  BY <1>4, <1>8
<1>10. DOMAIN order = 1..Cardinality(I)
  BY <1>8
<1>11. InPlaces(s, I, order)
  BY <1>6, <1>8, <1>9, <1>10 DEF InPlaces
<1> QED
  BY <1>3, <1>11

LEMMA ListOf ==
  \A n \in Nat : \A E, s : s \in [1..n -> E] =>
    s \in Seq(E) /\ Len(s) = n /\ DOMAIN s = 1..n /\ IsSeq(s)
<1> TAKE n \in Nat
<1> TAKE E, s
<1> HAVE s \in [1..n -> E]
<1>1. s \in Seq(E)
  <2>1. [1..n -> E] \in {[1..m -> E] : m \in Nat}
    OBVIOUS
  <2> QED
    BY <2>1, SeqDef
<1>2. IsSeq(s)
  BY <1>1 DEF IsSeq
<1>3. DOMAIN s = 1..n /\ DOMAIN s = 1..Len(s) /\ Len(s) \in Nat
  BY <1>1, LenProperties
<1>4. Len(s) = n
  BY <1>3
<1> QED
  BY <1>1, <1>2, <1>3, <1>4

IsPick(x, s, I) ==
  /\ IsSeq(x)
  /\ \A n \in 1..Len(x) : \E k \in I : x[n] = s[k]
  /\ \A k \in I : \E n \in 1..Len(x) : x[n] = s[k]

LEMMA PickedIs ==
  ASSUME NEW E, NEW s \in Seq(E), NEW I, I \subseteq 1..Len(s)
  PROVE  /\ Picked(s, I) \in Seq(E) /\ IsPick(Picked(s, I), s, I)
         /\ I = {} => Picked(s, I) = <<>>
<1> DEFINE c == Cardinality(I)
           x == Picked(s, I)
<1>1. IsSeq(s)
  BY DEF IsSeq
<1>2. PICK order : InPlaces(s, I, order)
  BY <1>1, PickedPlaces
<1>3. /\ c \in Nat /\ order \in [1..c -> I]
      /\ x = [n \in 1..c |-> s[order[n]]]
      /\ \A k \in I : \E n \in 1..c : order[n] = k
  BY <1>1, <1>2, PickedPlaces DEF InPlaces
<1>4. \A k \in I : s[k] \in E
  OBVIOUS
<1> HIDE DEF c, x
<1>5. x \in [1..c -> E]
  BY <1>3, <1>4
<1>6. x \in Seq(E) /\ Len(x) = c /\ IsSeq(x)
  BY <1>3, <1>5, ListOf
<1>7. I = {} => c = 0
  BY FS_EmptySet DEF c
<1>8. c = 0 => x = <<>>
  BY <1>6, EmptySeq
<1>9. \A n \in 1..c : order[n] \in I /\ x[n] = s[order[n]]
  BY <1>3
<1>10. \A k \in I : \E n \in 1..c : x[n] = s[k]
  BY <1>3, <1>9
<1>11. IsPick(x, s, I)
  BY <1>6, <1>9, <1>10 DEF IsPick
<1> QED
  BY <1>6, <1>7, <1>8, <1>11 DEF x

\* The elements of sequences, one behind the other.
LEMMA FlattenedIs ==
  ASSUME NEW E, NEW seqs, IsSeq(seqs), \A k \in 1..Len(seqs) : seqs[k] \in Seq(E)
  PROVE  /\ Flattened(seqs) \in Seq(E) /\ IsSeq(Flattened(seqs))
         /\ \A n \in 1..Len(Flattened(seqs)) :
              \E k \in 1..Len(seqs) : \E m \in 1..Len(seqs[k]) : Flattened(seqs)[n] = seqs[k][m]
         /\ \A k \in 1..Len(seqs) : \A m \in 1..Len(seqs[k]) :
              \E n \in 1..Len(Flattened(seqs)) : Flattened(seqs)[n] = seqs[k][m]
<1> DEFINE D == 1..Len(seqs)
           Part(k) == {k} \X DOMAIN seqs[k]
           Parts == {Part(k) : k \in D}
           I == UNION Parts
           before == {p \in I \X I : \/ p[1][1] < p[2][1]
                                     \/ p[1][1] = p[2][1] /\ p[1][2] < p[2][2]}
           order == Arrange(I, before)
           c == Cardinality(I)
           x == Flattened(seqs)
<1>1. Len(seqs) \in Nat /\ DOMAIN seqs = D
  BY SeqLen
<1>2. \A k \in D : Len(seqs[k]) \in Nat /\ DOMAIN seqs[k] = 1..Len(seqs[k])
                   /\ \A m \in 1..Len(seqs[k]) : seqs[k][m] \in E
  OBVIOUS
<1>3. \A k \in D : IsFiniteSet(Part(k))
  <2> TAKE k \in D
  <2>1. IsFiniteSet({k}) /\ IsFiniteSet(1..Len(seqs[k]))
    <3>1. IsFiniteSet({k})
      BY FS_Singleton
    <3>2. 1 \in Int /\ Len(seqs[k]) \in Int
      BY <1>2
    <3>3. IsFiniteSet(1..Len(seqs[k]))
      BY <3>2, FS_Interval
    <3> QED
      BY <3>1, <3>3
  <2> QED
    BY <1>2, <2>1, FS_Product
<1>4. x = [n \in DOMAIN order |-> seqs[order[n][1]][order[n][2]]]
  BY <1>1 DEF Flattened
<1>5. \A i : i \in I <=> \E k \in D : \E m \in 1..Len(seqs[k]) : i = <<k, m>>
  BY <1>2
<1>6. IsFiniteSet(Parts)
  <2> DEFINE f == [k \in D |-> Part(k)]
  <2>1. f \in Surjection(D, Parts)
    BY DEF Surjection
  <2>2. IsFiniteSet(D)
    BY <1>1, FS_Interval
  <2> QED
    BY <2>1, <2>2, FS_Surjection
<1>7. IsFiniteSet(I)
  BY <1>3, <1>6, FS_UNION
<1>8. c \in Nat
  BY <1>7, FS_CardinalityType
<1>9. \A i, j \in I : <<i, j>> \in before <=> (i[1] < j[1] \/ (i[1] = j[1] /\ i[2] < j[2]))
  OBVIOUS
<1> HIDE DEF Parts, I, before, order, x, D
<1>10. \A i \in I : i[1] \in Nat /\ i[2] \in Nat /\ i = <<i[1], i[2]>>
  BY <1>1, <1>2, <1>5 DEF D
<1>11. Strict(I, before)
  <2>1. ASSUME NEW i \in I, NEW j \in I, NEW k \in I,
               <<i, j>> \in before, <<j, k>> \in before
        PROVE  <<i, k>> \in before
    BY <1>9, <1>10, <2>1
  <2>2. ASSUME NEW i \in I, NEW j \in I, i # j
        PROVE  <<i, j>> \in before \/ <<j, i>> \in before
    <3>1. i[1] # j[1] \/ i[2] # j[2]
      BY <1>10, <2>2
    <3> QED
      BY <1>9, <1>10, <3>1
  <2>3. ASSUME NEW i \in I
        PROVE  <<i, i>> \notin before
    BY <1>9, <1>10
  <2> QED
    BY <2>1, <2>2, <2>3 DEF Strict
<1>12. /\ order \in [1..c -> I]
       /\ \A k \in I : \E n \in 1..c : order[n] = k
  BY <1>7, <1>11, ArrangeSorts DEF order
<1> HIDE DEF c
<1>13. x = [n \in 1..c |-> seqs[order[n][1]][order[n][2]]]
  BY <1>4, <1>12
<1>14. \A n \in 1..c : order[n] \in I
  BY <1>12
<1>15. \A i \in I : seqs[i[1]][i[2]] \in E
  <2> TAKE i \in I
  <2>1. PICK k \in D : \E m \in 1..Len(seqs[k]) : i = <<k, m>>
    BY <1>5
  <2>2. PICK m \in 1..Len(seqs[k]) : i = <<k, m>>
    BY <2>1
  <2> QED
    BY <1>2, <2>2
<1>16. x \in [1..c -> E]
  BY <1>13, <1>14, <1>15
<1>17. x \in Seq(E) /\ Len(x) = c /\ IsSeq(x)
  BY <1>8, <1>16, ListOf
<1>18. ASSUME NEW n \in 1..c
       PROVE  \E k \in D : \E m \in 1..Len(seqs[k]) : x[n] = seqs[k][m]
  <2>1. PICK k \in D : \E m \in 1..Len(seqs[k]) : order[n] = <<k, m>>
    BY <1>5, <1>14
  <2>2. PICK m \in 1..Len(seqs[k]) : order[n] = <<k, m>>
    BY <2>1
  <2>3. x[n] = seqs[k][m]
    BY <1>13, <2>2
  <2> QED
    BY <2>3
<1>19. ASSUME NEW k \in D, NEW m \in 1..Len(seqs[k])
       PROVE  \E n \in 1..c : x[n] = seqs[k][m]
  <2>1. <<k, m>> \in I
    BY <1>5
  <2>2. PICK n \in 1..c : order[n] = <<k, m>>
    BY <1>12, <2>1
  <2>3. x[n] = seqs[k][m]
    BY <1>13, <2>2
  <2> QED
    BY <2>3
<1> QED
  BY <1>17, <1>18, <1>19 DEF x, D

\* A function on 1..n is a sequence, whatever its elements are.
LEMMA FunctionIsSeq ==
  \A n \in Nat : \A s : DOMAIN s = 1..n /\ s = [k \in DOMAIN s |-> s[k]] =>
    IsSeq(s) /\ Len(s) = n
<1> TAKE n \in Nat
<1> TAKE s
<1> HAVE DOMAIN s = 1..n /\ s = [k \in DOMAIN s |-> s[k]]
<1> DEFINE E == {s[k] : k \in 1..n}
<1>1. s \in [1..n -> E]
  OBVIOUS
<1> HIDE DEF E
<1> QED
  BY <1>1, ListOf

-----------------------------------------------------------------------------
(***************************************************************************)
(* What the attributes of an input give: ranges and addresses.             *)
(***************************************************************************)
RowStates == [from : OptAddress, out : Seq(NatRange)]
RowTurn == [p \in RowStates \X (Nat \X BOOLEAN) |-> Row(p[1], p[2])]

LEMMA RowTyped ==
  ASSUME NEW acc \in RowStates, NEW row \in Nat \X BOOLEAN
  PROVE  Row(acc, row) \in RowStates
<1>1. acc.from \in OptAddress /\ acc.out \in Seq(NatRange) /\ row[1] \in Nat
  BY DEF RowStates
<1>2. row[1] \in OptAddress /\ Absent \in OptAddress
  BY <1>1 DEF OptAddress
<1>3. CASE row[2]
  <2> DEFINE out == IF acc.from \in {Absent, 0} THEN acc.out
                    ELSE Append(acc.out, Span(acc.from, row[1]))
  <2>1. ASSUME acc.from \notin {Absent, 0}
        PROVE  Append(acc.out, Span(acc.from, row[1])) \in Seq(NatRange)
    <3>1. acc.from \in Nat
      BY <1>1, <2>1 DEF OptAddress
    <3>2. Span(acc.from, row[1]) \in NatRange
      BY <1>1, <3>1, SpanTyped
    <3> QED
      BY <1>1, <3>2
  <2>2. out \in Seq(NatRange)
    BY <1>1, <2>1
  <2>3. Row(acc, row) = [from |-> Absent, out |-> out]
    BY <1>3 DEF Row
  <2> HIDE DEF out
  <2> QED
    BY <1>2, <2>2, <2>3 DEF RowStates
<1>4. CASE ~row[2] /\ acc.from = Absent
  <2>1. Row(acc, row) = [acc EXCEPT !.from = row[1]]
    BY <1>4 DEF Row
  <2> QED
    BY <1>2, <2>1 DEF RowStates
<1>5. CASE ~row[2] /\ acc.from # Absent
  BY <1>5 DEF Row
<1> QED
  BY <1>3, <1>4, <1>5

LEMMA RowTurnIs ==
  /\ RowTurn \in [RowStates \X (Nat \X BOOLEAN) -> RowStates]
  /\ \A acc \in RowStates, row \in Nat \X BOOLEAN : RowTurn[<<acc, row>>] = Row(acc, row)
<1> DEFINE E == Nat \X BOOLEAN
<1>1. \A acc \in RowStates, row \in E : Row(acc, row) \in RowStates
  BY RowTyped
<1>2. RowTurn = [p \in RowStates \X E |-> Row(p[1], p[2])]
  BY DEF RowTurn
<1> HIDE DEF E
<1>3. \A p \in RowStates \X E : p[1] \in RowStates /\ p[2] \in E
  OBVIOUS
<1>4. \A acc \in RowStates, row \in E :
        /\ <<acc, row>> \in RowStates \X E
        /\ <<acc, row>>[1] = acc /\ <<acc, row>>[2] = row
  OBVIOUS
<1>5. \A acc \in RowStates, row \in E : RowTurn[<<acc, row>>] = Row(acc, row)
  BY <1>2, <1>4
<1>6. RowTurn \in [RowStates \X E -> RowStates]
  BY <1>1, <1>2, <1>3
<1> QED
  BY <1>5, <1>6 DEF E

LEMMA SequencesIs ==
  ASSUME NEW rows \in Seq(Nat \X BOOLEAN)
  PROVE  Sequences(rows) \in Seq(NatRange)
<1> DEFINE E == Nat \X BOOLEAN
           base == [from |-> Absent, out |-> <<>>]
           at == CHOOSE f : f = [n \in 0..Len(rows) |->
                                   IF n = 0 THEN base ELSE Row(f[n - 1], rows[n])]
<1>1. base \in RowStates
  BY DEF RowStates, OptAddress
<1>2. IsLoop(E, RowStates, rows, base, RowTurn)
  BY <1>1, RowTurnIs DEF IsLoop
<1>3. /\ Len(rows) \in Nat /\ \A n \in 1..Len(rows) : rows[n] \in E
      /\ \A n \in 0..Len(rows) : n = 0 \/ n \in 1..Len(rows)
      /\ \A n \in 1..Len(rows) : n \in 0..Len(rows) /\ n # 0
      /\ 0 \in 0..Len(rows)
  OBVIOUS
<1>4. Sequences(rows) = at[Len(rows)].out
  BY DEF Sequences
<1> HIDE DEF base, E
<1>5. \A acc \in RowStates, row \in E : RowTurn[<<acc, row>>] = Row(acc, row)
  BY RowTurnIs DEF E
<1>6. PICK f : Turns(rows, base, RowTurn, f)
  BY <1>2, TurnsExist
<1>7. /\ f \in [0..Len(rows) -> RowStates] /\ f[0] = base
      /\ \A n \in 1..Len(rows) : n - 1 \in 0..Len(rows) /\ f[n] = RowTurn[<<f[n - 1], rows[n]>>]
  BY <1>2, <1>6, TurnsAre
<1>8. f = [n \in 0..Len(rows) |-> IF n = 0 THEN base ELSE Row(f[n - 1], rows[n])]
  <2>1. \A n \in 1..Len(rows) : f[n] = Row(f[n - 1], rows[n])
    BY <1>3, <1>5, <1>7
  <2> QED
    BY <1>3, <1>7, <2>1
<1>9. at = [n \in 0..Len(rows) |-> IF n = 0 THEN base ELSE Row(at[n - 1], rows[n])]
  BY <1>8
<1> HIDE DEF at
<1>10. at[0] = base /\ \A n \in 1..Len(rows) : at[n] = Row(at[n - 1], rows[n])
  BY <1>3, <1>9
<1>11. \A n \in 1..Len(rows) : at[n - 1] \in RowStates =>
                                 at[n] = RowTurn[<<at[n - 1], rows[n]>>]
  BY <1>3, <1>5, <1>10
<1>12. at[Len(rows)] \in RowStates
  BY <1>2, <1>10, <1>11, OutcomeIs
<1> QED
  BY <1>4, <1>12 DEF RowStates

\* The lists that the units hold.
LEMMA SortedSpans ==
  ASSUME NEW spans \in Seq(NatRange)
  PROVE  /\ PushAll(<<>>, spans) \in Lists /\ SortRanges(PushAll(<<>>, spans)) \in Lists
         /\ SortRanges(PushAll(<<>>, spans)) \in Seq(NatRange)
<1>1. PushAll(<<>>, spans) \in Lists
  BY EmptyIsList, PushAllIs
<1>2. SortRanges(PushAll(<<>>, spans)) \in Lists
  BY <1>1, SortIs
<1> QED
  BY <1>1, <1>2, ListTyped

LEMMA UnitRangesIs ==
  ASSUME NEW u, UnitInputOK(u)
  PROVE  UnitRanges(u) \in Seq(NatRange)
<1> DEFINE spans ==
      CASE u.rows # Absent -> Sequences(u.rows)
        [] u.rows = Absent /\ u.ranges # Absent -> u.ranges
        [] u.rows = Absent /\ u.ranges = Absent /\ u.low # Absent /\ u.high # Absent ->
             <<Span(u.low, u.high)>>
        [] OTHER -> <<>>
<1>1. UnitRanges(u) = SortRanges(PushAll(<<>>, spans))
  BY DEF UnitRanges
<1>2. /\ u.rows # Absent => u.rows \in Seq(Nat \X BOOLEAN)
      /\ u.ranges # Absent => u.ranges \in Seq(NatRange)
      /\ u.low # Absent => u.low \in Nat
      /\ u.high # Absent => u.high \in Nat
  BY DEF UnitInputOK, OptSpans, OptAddress, NatRange
<1>3. CASE u.rows # Absent
  <2>1. spans = Sequences(u.rows)
    BY <1>3
  <2>2. spans \in Seq(NatRange)
    BY <1>2, <1>3, <2>1, SequencesIs
  <2> QED
    BY <1>1, <2>2, SortedSpans
<1>4. CASE u.rows = Absent /\ u.ranges # Absent
  <2>1. spans = u.ranges
    BY <1>4
  <2>2. spans \in Seq(NatRange)
    BY <1>2, <1>4, <2>1
  <2> QED
    BY <1>1, <2>2, SortedSpans
<1>5. CASE u.rows = Absent /\ u.ranges = Absent /\ u.low # Absent /\ u.high # Absent
  <2>1. spans = <<Span(u.low, u.high)>>
    BY <1>5
  <2>2. Span(u.low, u.high) \in NatRange
    BY <1>2, <1>5, SpanTyped
  <2> HIDE DEF spans
  <2>3. spans \in Seq(NatRange)
    BY <2>1, <2>2
  <2> QED
    BY <1>1, <2>3, SortedSpans
<1>6. CASE u.rows = Absent /\ u.ranges = Absent /\ ~(u.low # Absent /\ u.high # Absent)
  <2>1. spans = <<>>
    BY <1>6
  <2> HIDE DEF spans
  <2>2. spans \in Seq(NatRange)
    BY <2>1
  <2> QED
    BY <1>1, <2>2, SortedSpans
<1> QED
  BY <1>3, <1>4, <1>5, <1>6

LEMMA ParsedFunctionIs ==
  ASSUME NEW f, FunctionInputOK(f), NEW unit
  PROVE  /\ ParsedFunction(f, unit).ranges \in Seq(NatRange)
         /\ ParsedFunction(f, unit).address \in OptAddress
         /\ ParsedFunction(f, unit).ranges # <<>> =>
              ParsedFunction(f, unit).address = ParsedFunction(f, unit).ranges[1].begin
         /\ ParsedFunction(f, unit).symbol = Absent
         /\ ParsedFunction(f, unit) = [name |-> ParsedFunction(f, unit).name,
                                       address |-> ParsedFunction(f, unit).address,
                                       symbol |-> ParsedFunction(f, unit).symbol,
                                       ranges |-> ParsedFunction(f, unit).ranges]
<1> DEFINE I == {k \in DOMAIN f.ranges : f.ranges[k].end > f.ranges[k].begin}
           kept == Picked(f.ranges, I)
           atZero == f.low = 0 /\ (unit = <<>> \/ unit[1].begin # 0)
           address == CASE f.ranges # Absent -> IF kept = <<>> THEN 0 ELSE kept[1].begin
                        [] f.ranges = Absent /\ ~atZero -> f.low
                        [] OTHER -> Absent
           spans == CASE f.ranges # Absent -> kept
                      [] /\ f.ranges = Absent /\ address # Absent /\ f.high # Absent
                         /\ f.high > f.low -> <<Span(f.low, f.high)>>
                      [] OTHER -> <<>>
           p == ParsedFunction(f, unit)
<1>1. p = [name |-> f.name, address |-> address, symbol |-> Absent, ranges |-> spans]
  BY DEF ParsedFunction
<1> HIDE DEF p
<1>2. /\ p.address = address /\ p.ranges = spans /\ p.symbol = Absent
      /\ p = [name |-> p.name, address |-> p.address, symbol |-> p.symbol, ranges |-> p.ranges]
  <2> HIDE DEF address, spans
  <2>1. /\ p.name = f.name /\ p.address = address /\ p.symbol = Absent /\ p.ranges = spans
    BY <1>1
  <2> QED
    BY <1>1, <2>1
<1>3. /\ f.ranges # Absent => f.ranges \in Seq(NatRange)
      /\ f.low \in OptAddress
      /\ f.high # Absent => f.high \in Nat
  BY DEF FunctionInputOK, OptSpans, OptAddress, NatRange
<1>4. CASE f.ranges # Absent
  <2>1. f.ranges \in Seq(NatRange) /\ I \subseteq 1..Len(f.ranges)
    BY <1>3, <1>4
  <2>2. address = (IF kept = <<>> THEN 0 ELSE kept[1].begin) /\ spans = kept
    BY <1>4
  <2> HIDE DEF I, address, spans
  <2>3. kept \in Seq(NatRange)
    BY <2>1, PickedIs
  <2> HIDE DEF kept
  <2>4. kept # <<>> => kept[1] \in NatRange
    BY <2>3
  <2>5. address \in OptAddress
    BY <2>2, <2>4 DEF OptAddress, NatRange
  <2> QED
    BY <1>2, <2>2, <2>3, <2>5 DEF p
<1>5. CASE f.ranges = Absent
  <2>1. address = IF atZero THEN Absent ELSE f.low
    BY <1>5
  <2>2. address \in OptAddress /\ (address # Absent => address = f.low /\ f.low \in Nat)
    BY <1>3, <2>1 DEF OptAddress
  <2>3. spans = IF address # Absent /\ f.high # Absent /\ f.high > f.low
                THEN <<Span(f.low, f.high)>> ELSE <<>>
    BY <1>5
  <2> HIDE DEF address, spans
  <2>4. CASE address # Absent /\ f.high # Absent /\ f.high > f.low
    <3>1. Span(f.low, f.high) \in NatRange /\ Span(f.low, f.high).begin = f.low
      BY <1>3, <2>2, <2>4, SpanTyped
    <3>2. spans = <<Span(f.low, f.high)>>
      BY <2>3, <2>4
    <3>3. spans \in Seq(NatRange) /\ spans[1].begin = f.low
      BY <3>1, <3>2
    <3> QED
      BY <1>2, <2>2, <2>4, <3>3 DEF p
  <2>5. CASE ~(address # Absent /\ f.high # Absent /\ f.high > f.low)
    <3>1. spans = <<>>
      BY <2>3, <2>5
    <3>2. spans \in Seq(NatRange)
      BY <3>1
    <3> QED
      BY <1>2, <2>2, <3>1, <3>2 DEF p
  <2> QED
    BY <2>4, <2>5
<1> QED
  BY <1>4, <1>5

-----------------------------------------------------------------------------
(***************************************************************************)
(* The units of the debug info: as the parser made them, but for the names *)
(* that get_symbol gives.                                                  *)
(***************************************************************************)
FunctionLike(f, p) ==
  f = [name |-> p.name, address |-> p.address, symbol |-> f.symbol, ranges |-> p.ranges]
VariableLike(v, p) ==
  v = [name |-> p.name, address |-> p.address, symbol |-> v.symbol, size |-> p.size]

UnitLike(u, p) ==
  /\ u = [ranges |-> p.ranges, functions |-> u.functions, variables |-> u.variables]
  /\ IsSeq(u.functions) /\ Len(u.functions) = Len(p.functions)
  /\ IsSeq(u.variables) /\ Len(u.variables) = Len(p.variables)
  /\ \A k \in 1..Len(p.functions) : FunctionLike(u.functions[k], p.functions[k])
  /\ \A k \in 1..Len(p.variables) : VariableLike(u.variables[k], p.variables[k])

\* What unit.rs needs of a unit to compute its ranges.
UnitShape(u) ==
  /\ u.ranges \in Seq(NatRange) /\ IsSeq(u.functions) /\ IsSeq(u.variables)
  /\ \A k \in 1..Len(u.functions) : u.functions[k].ranges \in Seq(NatRange)
  /\ \A k \in 1..Len(u.variables) :
       u.variables[k].address \in OptAddress /\ u.variables[k].size \in OptAddress

LEMMA LikeParts ==
  /\ \A f, p : FunctionLike(f, p) =>
       f.name = p.name /\ f.address = p.address /\ f.ranges = p.ranges
  /\ \A v, p : VariableLike(v, p) =>
       v.name = p.name /\ v.address = p.address /\ v.size = p.size
<1>1. ASSUME NEW f, NEW p, FunctionLike(f, p)
      PROVE  f.name = p.name /\ f.address = p.address /\ f.ranges = p.ranges
  <2> DEFINE symbol == f.symbol
  <2>1. f = [name |-> p.name, address |-> p.address, symbol |-> symbol, ranges |-> p.ranges]
    BY <1>1 DEF FunctionLike
  <2> HIDE DEF symbol
  <2> QED
    BY <2>1
<1>2. ASSUME NEW v, NEW p, VariableLike(v, p)
      PROVE  v.name = p.name /\ v.address = p.address /\ v.size = p.size
  <2> DEFINE symbol == v.symbol
  <2>1. v = [name |-> p.name, address |-> p.address, symbol |-> symbol, size |-> p.size]
    BY <1>2 DEF VariableLike
  <2> HIDE DEF symbol
  <2> QED
    BY <2>1
<1> QED
  BY <1>1, <1>2

LEMMA LikeShape ==
  ASSUME NEW u, NEW p, UnitLike(u, p), UnitShape(p)
  PROVE  UnitShape(u)
<1>1. u.ranges = p.ranges
  BY DEF UnitLike
<1>2. \A k \in 1..Len(p.functions) : u.functions[k].ranges = p.functions[k].ranges
  BY LikeParts DEF UnitLike
<1>3. \A k \in 1..Len(p.variables) : /\ u.variables[k].address = p.variables[k].address
                                     /\ u.variables[k].size = p.variables[k].size
  BY LikeParts DEF UnitLike
<1> QED
  BY <1>1, <1>2, <1>3 DEF UnitLike, UnitShape

LEMMA ParsedUnitIs ==
  ASSUME NEW u, UnitInputOK(u)
  PROVE  /\ UnitShape(ParsedUnit(u)) /\ UnitLike(ParsedUnit(u), ParsedUnit(u))
         /\ \A k \in 1..Len(ParsedUnit(u).functions) :
              LET f == ParsedUnit(u).functions[k]
              IN  /\ f.address \in OptAddress /\ f.symbol = Absent
                  /\ f.ranges # <<>> => f.address = f.ranges[1].begin
         /\ \A k \in 1..Len(ParsedUnit(u).variables) :
              LET v == ParsedUnit(u).variables[k]
              IN  v.address \in OptAddress /\ v.symbol = Absent
<1> DEFINE p == ParsedUnit(u)
           F(k) == ParsedFunction(u.functions[k], UnitRanges(u))
           V(k) == [name |-> u.variables[k].name, address |-> u.variables[k].address,
                    symbol |-> Absent, size |-> u.variables[k].size]
<1>1. /\ IsSeq(u.functions) /\ IsSeq(u.variables)
      /\ \A k \in DOMAIN u.functions : FunctionInputOK(u.functions[k])
      /\ \A k \in DOMAIN u.variables : VariableInputOK(u.variables[k])
  BY DEF UnitInputOK, IsSeq
<1>2. /\ Len(u.functions) \in Nat /\ DOMAIN u.functions = 1..Len(u.functions)
      /\ Len(u.variables) \in Nat /\ DOMAIN u.variables = 1..Len(u.variables)
  BY <1>1, SeqLen
<1>3. p = [ranges |-> UnitRanges(u), functions |-> [k \in DOMAIN u.functions |-> F(k)],
           variables |-> [k \in DOMAIN u.variables |-> V(k)]]
  BY DEF ParsedUnit
<1>4. \A k \in DOMAIN u.functions : /\ F(k).ranges \in Seq(NatRange)
                                    /\ F(k).address \in OptAddress /\ F(k).symbol = Absent
                                    /\ F(k).ranges # <<>> => F(k).address = F(k).ranges[1].begin
  BY <1>1, ParsedFunctionIs
<1>5. \A k \in DOMAIN u.functions : FunctionLike(F(k), F(k))
  BY <1>1, ParsedFunctionIs DEF FunctionLike
<1>6. \A k \in DOMAIN u.variables : /\ V(k).address \in OptAddress /\ V(k).size \in OptAddress
                                    /\ V(k).symbol = Absent /\ VariableLike(V(k), V(k))
  BY <1>1 DEF VariableInputOK, VariableLike
<1>7. UnitRanges(u) \in Seq(NatRange)
  BY UnitRangesIs
<1> HIDE DEF p, F, V
<1>8. /\ p.ranges = UnitRanges(u)
      /\ p.functions = [k \in 1..Len(u.functions) |-> F(k)]
      /\ p.variables = [k \in 1..Len(u.variables) |-> V(k)]
  BY <1>2, <1>3
<1>9. /\ IsSeq(p.functions) /\ Len(p.functions) = Len(u.functions)
      /\ \A k \in 1..Len(u.functions) : p.functions[k] = F(k)
  BY <1>2, <1>8, FunctionIsSeq
<1>10. /\ IsSeq(p.variables) /\ Len(p.variables) = Len(u.variables)
       /\ \A k \in 1..Len(u.variables) : p.variables[k] = V(k)
  BY <1>2, <1>8, FunctionIsSeq
<1>11. p = [ranges |-> p.ranges, functions |-> p.functions, variables |-> p.variables]
  BY <1>3
<1>12. UnitShape(p)
  BY <1>2, <1>4, <1>6, <1>7, <1>8, <1>9, <1>10 DEF UnitShape
<1>13. UnitLike(p, p)
  BY <1>2, <1>5, <1>6, <1>9, <1>10, <1>11 DEF UnitLike
<1>14. \A k \in 1..Len(p.functions) :
         /\ p.functions[k].address \in OptAddress /\ p.functions[k].symbol = Absent
         /\ p.functions[k].ranges # <<>> =>
              p.functions[k].address = p.functions[k].ranges[1].begin
  BY <1>2, <1>4, <1>9
<1>15. \A k \in 1..Len(p.variables) :
         p.variables[k].address \in OptAddress /\ p.variables[k].symbol = Absent
  BY <1>2, <1>6, <1>10
<1> QED
  BY <1>12, <1>13, <1>14, <1>15 DEF p

-----------------------------------------------------------------------------
(***************************************************************************)
(* The symbols, in the order of their addresses and, at one address, in    *)
(* the file's.                                                             *)
(***************************************************************************)
TableOK(table) ==
  IsSeq(table) /\ \A k \in 1..Len(table) : table[k].address \in Nat /\ table[k].size \in Nat

InOrder(table, order) ==
  /\ order \in [1..Cardinality(Kept(table)) -> Kept(table)]
  /\ ByAddress(table) = [n \in 1..Cardinality(Kept(table)) |-> table[order[n]]]
  /\ \A i, j \in 1..Cardinality(Kept(table)) :
       i < j => \/ table[order[i]].address < table[order[j]].address
                \/ table[order[i]].address = table[order[j]].address /\ order[i] < order[j]
  /\ \A k \in Kept(table) : \E n \in 1..Cardinality(Kept(table)) : order[n] = k

LEMMA ByAddressOrders ==
  ASSUME NEW table, TableOK(table)
  PROVE  /\ IsFiniteSet(Kept(table)) /\ Cardinality(Kept(table)) \in Nat
         /\ Kept(table) \subseteq 1..Len(table)
         /\ \E order : InOrder(table, order)
<1> DEFINE I == Kept(table)
           before == {p \in I \X I :
                        \/ table[p[1]].address < table[p[2]].address
                        \/ table[p[1]].address = table[p[2]].address /\ p[1] < p[2]}
           order == Arrange(I, before)
           c == Cardinality(I)
<1>1. Len(table) \in Nat /\ DOMAIN table = 1..Len(table)
  BY SeqLen DEF TableOK
<1>2. I \subseteq 1..Len(table)
  BY <1>1 DEF Kept
<1>3. IsFiniteSet(1..Len(table))
  BY <1>1, FS_Interval
<1>4. IsFiniteSet(I) /\ c \in Nat
  BY <1>2, <1>3, FS_Subset, FS_CardinalityType
<1>5. \A i \in I : i \in Nat /\ table[i].address \in Nat
  BY <1>1, <1>2 DEF TableOK
<1>6. \A i, j \in I : <<i, j>> \in before <=>
        \/ table[i].address < table[j].address
        \/ table[i].address = table[j].address /\ i < j
  OBVIOUS
<1>7. ByAddress(table) = [n \in DOMAIN order |-> table[order[n]]]
  BY DEF ByAddress
<1> HIDE DEF I, before, order, c
<1>8. Strict(I, before)
  <2>1. ASSUME NEW i \in I, NEW j \in I, NEW k \in I,
               <<i, j>> \in before, <<j, k>> \in before
        PROVE  <<i, k>> \in before
    <3>1. /\ \/ table[i].address < table[j].address
             \/ table[i].address = table[j].address /\ i < j
          /\ \/ table[j].address < table[k].address
             \/ table[j].address = table[k].address /\ j < k
      BY <1>6, <2>1
    <3>2. \/ table[i].address < table[k].address
          \/ table[i].address = table[k].address /\ i < k
      BY <1>5, <3>1
    <3> QED
      BY <1>6, <3>2
  <2>2. ASSUME NEW i \in I, NEW j \in I, i # j
        PROVE  <<i, j>> \in before \/ <<j, i>> \in before
    <3>1. \/ table[i].address < table[j].address
          \/ table[i].address = table[j].address /\ i < j
          \/ table[j].address < table[i].address
          \/ table[j].address = table[i].address /\ j < i
      BY <1>5, <2>2
    <3> QED
      BY <1>6, <3>1
  <2>3. ASSUME NEW i \in I
        PROVE  <<i, i>> \notin before
    <3>1. ~(table[i].address < table[i].address) /\ ~(i < i)
      BY <1>5
    <3> QED
      BY <1>6, <3>1
  <2> QED
    BY <2>1, <2>2, <2>3 DEF Strict
<1>9. /\ order \in [1..c -> I]
      /\ \A i, j \in 1..c : i < j => <<order[i], order[j]>> \in before
      /\ \A k \in I : \E n \in 1..c : order[n] = k
  BY <1>4, <1>8, ArrangeSorts DEF order, c
<1>10. \A i, j \in 1..c :
         i < j => \/ table[order[i]].address < table[order[j]].address
                  \/ table[order[i]].address = table[order[j]].address /\ order[i] < order[j]
  <2> TAKE i, j \in 1..c
  <2> HAVE i < j
  <2>1. order[i] \in I /\ order[j] \in I /\ <<order[i], order[j]>> \in before
    BY <1>9
  <2> QED
    BY <1>6, <2>1
<1>11. DOMAIN order = 1..c
  BY <1>9
<1>12. InOrder(table, order)
  BY <1>7, <1>9, <1>10, <1>11 DEF InOrder, I, c
<1> QED
  BY <1>2, <1>4, <1>12 DEF I, c

LEMMA ByAddressIs ==
  ASSUME NEW table, TableOK(table)
  PROVE  TableOK(ByAddress(table)) /\ Len(ByAddress(table)) = Cardinality(Kept(table))
<1> DEFINE c == Cardinality(Kept(table))
           b == ByAddress(table)
<1>1. PICK order : InOrder(table, order)
  BY ByAddressOrders
<1>2. /\ c \in Nat /\ Kept(table) \subseteq 1..Len(table)
      /\ order \in [1..c -> Kept(table)] /\ b = [n \in 1..c |-> table[order[n]]]
  BY <1>1, ByAddressOrders DEF InOrder
<1> HIDE DEF c, b
<1>3. IsSeq(b) /\ Len(b) = c
  BY <1>2, FunctionIsSeq
<1>4. \A n \in 1..c : order[n] \in 1..Len(table) /\ b[n] = table[order[n]]
  BY <1>2
<1>5. \A n \in 1..c : b[n].address \in Nat /\ b[n].size \in Nat
  BY <1>4 DEF TableOK
<1> QED
  BY <1>3, <1>5 DEF TableOK, c, b

LEMMA InputParts ==
  ASSUME NEW f \in SymbolFiles
  PROVE  /\ TableOK(f.symbols) /\ TableOK(f.sections)
         /\ IsSeq(f.units) /\ Len(f.units) \in Nat /\ DOMAIN f.units = 1..Len(f.units)
         /\ \A k \in 1..Len(f.units) : UnitInputOK(f.units[k])
<1>1. IsSeq(f.symbols) /\ IsSeq(f.sections) /\ IsSeq(f.units)
  BY SymbolFilesAssumption DEF IsSeq
<1>2. /\ DOMAIN f.symbols = 1..Len(f.symbols) /\ DOMAIN f.sections = 1..Len(f.sections)
      /\ Len(f.units) \in Nat /\ DOMAIN f.units = 1..Len(f.units)
  BY <1>1, SeqLen
<1> QED
  BY <1>1, <1>2, SymbolFilesAssumption DEF TableOK

-----------------------------------------------------------------------------
(***************************************************************************)
(* The calls of get_symbol that a unit makes.                              *)
(***************************************************************************)
ElementsOf(s) == {s[n] : n \in 1..Len(s)}

LEMMA ElementIs ==
  ASSUME NEW s, NEW x
  PROVE  x \in ElementsOf(s) <=> \E n \in 1..Len(s) : x = s[n]
  BY DEF ElementsOf

LEMMA ElementsConcat ==
  ASSUME NEW s, NEW t, IsSeq(s), IsSeq(t)
  PROVE  IsSeq(s \o t) /\ ElementsOf(s \o t) = ElementsOf(s) \union ElementsOf(t)
<1> DEFINE st == s \o t
<1>1. /\ IsSeq(st) /\ Len(st) = Len(s) + Len(t) /\ Len(s) \in Nat /\ Len(t) \in Nat
      /\ \A i \in 1..Len(st) : \/ i \in 1..Len(s) /\ st[i] = s[i]
                               \/ i - Len(s) \in 1..Len(t) /\ st[i] = t[i - Len(s)]
  BY SeqConcat, SeqLen
<1>2. PICK S : s \in Seq(S)
  BY DEF IsSeq
<1>3. PICK T : t \in Seq(T)
  BY DEF IsSeq
<1>4. s \in Seq(S \union T) /\ t \in Seq(S \union T)
  BY <1>2, <1>3, SeqMonotonic
<1>5. /\ \A i \in 1..Len(s) : i \in 1..Len(st) /\ st[i] = s[i]
      /\ \A i \in 1..Len(t) : Len(s) + i \in 1..Len(st) /\ st[Len(s) + i] = t[i]
  BY <1>1, <1>4, ConcatProperties
<1> HIDE DEF st
<1>6. ASSUME NEW x \in ElementsOf(st)
      PROVE  x \in ElementsOf(s) \union ElementsOf(t)
  <2>1. PICK i \in 1..Len(st) : x = st[i]
    BY <1>6, ElementIs
  <2>2. CASE i \in 1..Len(s) /\ st[i] = s[i]
    BY <2>1, <2>2, ElementIs
  <2>3. CASE i - Len(s) \in 1..Len(t) /\ st[i] = t[i - Len(s)]
    BY <2>1, <2>3, ElementIs
  <2> QED
    BY <1>1, <2>2, <2>3
<1>7. ASSUME NEW x \in ElementsOf(s)
      PROVE  x \in ElementsOf(st)
  <2>1. PICK i \in 1..Len(s) : x = s[i]
    BY <1>7, ElementIs
  <2> QED
    BY <1>5, <2>1, ElementIs
<1>8. ASSUME NEW x \in ElementsOf(t)
      PROVE  x \in ElementsOf(st)
  <2>1. PICK i \in 1..Len(t) : x = t[i]
    BY <1>8, ElementIs
  <2> QED
    BY <1>5, <2>1, ElementIs
<1> QED
  BY <1>1, <1>6, <1>7, <1>8 DEF st

LEMMA ElementsFlattened ==
  ASSUME NEW seqs, IsSeq(seqs), \A k \in 1..Len(seqs) : IsSeq(seqs[k])
  PROVE  /\ IsSeq(Flattened(seqs))
         /\ \A x : x \in ElementsOf(Flattened(seqs)) <=>
                     \E k \in 1..Len(seqs) : x \in ElementsOf(seqs[k])
<1> DEFINE E == UNION {ElementsOf(seqs[k]) : k \in 1..Len(seqs)}
           x == Flattened(seqs)
<1>1. ASSUME NEW k \in 1..Len(seqs)
      PROVE  seqs[k] \in Seq(E)
  <2>1. /\ Len(seqs[k]) \in Nat /\ DOMAIN seqs[k] = 1..Len(seqs[k])
    BY SeqLen
  <2>2. \A m \in 1..Len(seqs[k]) : seqs[k][m] \in E
    BY DEF ElementsOf
  <2>3. PICK S : seqs[k] \in Seq(S)
    BY DEF IsSeq
  <2>4. seqs[k] \in [1..Len(seqs[k]) -> S]
    BY <2>3, LenProperties
  <2> HIDE DEF E
  <2>5. seqs[k] \in [1..Len(seqs[k]) -> E]
    BY <2>2, <2>4
  <2> QED
    BY <2>1, <2>5, ListOf
<1> HIDE DEF E
<1>2. /\ IsSeq(x)
      /\ \A n \in 1..Len(x) : \E k \in 1..Len(seqs) : \E m \in 1..Len(seqs[k]) : x[n] = seqs[k][m]
      /\ \A k \in 1..Len(seqs) : \A m \in 1..Len(seqs[k]) :
              \E n \in 1..Len(x) : x[n] = seqs[k][m]
  BY <1>1, FlattenedIs
<1> HIDE DEF x
<1>3. ASSUME NEW y \in ElementsOf(x)
      PROVE  \E k \in 1..Len(seqs) : y \in ElementsOf(seqs[k])
  <2>1. PICK n \in 1..Len(x) : y = x[n]
    BY <1>3, ElementIs
  <2>2. PICK k \in 1..Len(seqs) : \E m \in 1..Len(seqs[k]) : x[n] = seqs[k][m]
    BY <1>2
  <2>3. y \in ElementsOf(seqs[k])
    BY <2>1, <2>2, ElementIs
  <2> QED
    BY <2>3
<1>4. ASSUME NEW y, NEW k \in 1..Len(seqs), y \in ElementsOf(seqs[k])
      PROVE  y \in ElementsOf(x)
  <2>1. PICK m \in 1..Len(seqs[k]) : y = seqs[k][m]
    BY <1>4, ElementIs
  <2>2. PICK n \in 1..Len(x) : x[n] = seqs[k][m]
    BY <1>2
  <2> QED
    BY <2>1, <2>2, ElementIs
<1> QED
  BY <1>2, <1>3, <1>4 DEF x

\* A call for a function or variable x at its address, and for a later range of a function.
CallFor(c, u, list, k, x) ==
  /\ c.unit = u /\ c.list = list /\ c.nth = k
  /\ c.address = x.address /\ c.name = x.name /\ x.address # Absent

CallLater(c, f) ==
  /\ c.list = "none" /\ f.address # Absent
  /\ \E j \in 2..Len(f.ranges) : c.address = f.ranges[j].begin

LEMMA OfFunctionIs ==
  ASSUME NEW u, NEW k, NEW f, f.ranges \in Seq(NatRange)
  PROVE  /\ IsSeq(OfFunction(u, k, f))
         /\ \A c \in ElementsOf(OfFunction(u, k, f)) :
              CallFor(c, u, "functions", k, f) \/ CallLater(c, f)
         /\ f.address # Absent =>
              /\ \E c \in ElementsOf(OfFunction(u, k, f)) : CallFor(c, u, "functions", k, f)
              /\ \A j \in 2..Len(f.ranges) :
                   \E c \in ElementsOf(OfFunction(u, k, f)) : c.address = f.ranges[j].begin
<1> DEFINE later == IF f.ranges = <<>> THEN <<>> ELSE Tail(f.ranges)
           own == LookupAt(u, "functions", k, f.address, f.name)
           At(j) == LookupAt(u, "none", k, later[j].begin, Absent)
           more == [j \in DOMAIN later |-> At(j)]
           o == OfFunction(u, k, f)
<1>1. CASE f.address = Absent
  <2>1. o = <<>>
    BY <1>1 DEF OfFunction
  <2> HIDE DEF o
  <2>2. IsSeq(o) /\ \A c : c \notin ElementsOf(o)
    BY <2>1, SeqEmpty DEF ElementsOf
  <2> QED
    BY <1>1, <2>2 DEF o
<1>2. CASE f.address # Absent
  <2>1. o = <<own>> \o more
    BY <1>2 DEF OfFunction
  <2>2. /\ Len(later) \in Nat /\ DOMAIN later = 1..Len(later)
        /\ \A j \in 1..Len(later) : j + 1 \in 2..Len(f.ranges) /\ later[j] = f.ranges[j + 1]
        /\ \A j \in 2..Len(f.ranges) : j - 1 \in 1..Len(later) /\ later[j - 1] = f.ranges[j]
    <3>1. CASE f.ranges = <<>>
      <4>1. later = <<>> /\ Len(<<>>) = 0 /\ DOMAIN <<>> = {}
        BY <3>1
      <4> HIDE DEF later
      <4> QED
        BY <3>1, <4>1
    <3>2. CASE f.ranges # <<>>
      <4>1. later = Tail(f.ranges) /\ IsSeq(f.ranges)
        BY <3>2 DEF IsSeq
      <4>2. /\ IsSeq(later) /\ Len(later) = Len(f.ranges) - 1 /\ Len(f.ranges) \in Nat
            /\ \A j \in 1..(Len(f.ranges) - 1) : later[j] = f.ranges[j + 1]
        BY <3>2, <4>1, SeqTail
      <4> HIDE DEF later
      <4>3. DOMAIN later = 1..Len(later)
        BY <4>2, SeqLen
      <4>4. \A j \in 2..Len(f.ranges) : j - 1 \in 1..(Len(f.ranges) - 1) /\ (j - 1) + 1 = j
        BY <4>2
      <4>5. \A j \in 2..Len(f.ranges) : later[j - 1] = f.ranges[(j - 1) + 1]
        BY <4>2, <4>4
      <4> QED
        BY <4>2, <4>3, <4>4, <4>5
    <3> QED
      BY <3>1, <3>2
  <2> HIDE DEF later
  <2>3. IsSeq(more) /\ Len(more) = Len(later) /\ \A j \in 1..Len(later) : more[j] = At(j)
    BY <2>2, FunctionIsSeq
  <2>4. CallFor(own, u, "functions", k, f)
    BY <1>2 DEF CallFor, LookupAt
  <2>5. \A j \in 1..Len(later) : At(j).list = "none" /\ At(j).address = later[j].begin
    BY DEF LookupAt
  <2> HIDE DEF own, At, more, o
  <2>6. IsSeq(<<own>>) /\ Len(<<own>>) = 1 /\ <<own>>[1] = own
    BY SeqOne
  <2>7. ElementsOf(<<own>>) = {own}
    BY <2>6 DEF ElementsOf
  <2>8. IsSeq(o) /\ ElementsOf(o) = {own} \union ElementsOf(more)
    BY <2>1, <2>3, <2>6, <2>7, ElementsConcat
  <2>9. ASSUME NEW c \in ElementsOf(more)
        PROVE  CallLater(c, f)
    <3>1. PICK j \in 1..Len(later) : c = more[j]
      BY <2>3, <2>9, ElementIs
    <3>2. c.list = "none" /\ c.address = f.ranges[j + 1].begin /\ j + 1 \in 2..Len(f.ranges)
      BY <2>2, <2>3, <2>5, <3>1
    <3> QED
      BY <1>2, <3>2 DEF CallLater
  <2>10. ASSUME NEW j \in 2..Len(f.ranges)
         PROVE  \E c \in ElementsOf(more) : c.address = f.ranges[j].begin
    <3>1. j - 1 \in 1..Len(later) /\ later[j - 1] = f.ranges[j]
      BY <2>2
    <3>2. more[j - 1] \in ElementsOf(more)
      BY <2>3, <3>1, ElementIs
    <3>3. more[j - 1].address = f.ranges[j].begin
      BY <2>3, <2>5, <3>1
    <3> QED
      BY <3>2, <3>3
  <2> QED
    BY <1>2, <2>4, <2>8, <2>9, <2>10 DEF o
<1> QED
  BY <1>1, <1>2

LEMMA OfVariableIs ==
  ASSUME NEW u, NEW k, NEW v
  PROVE  /\ IsSeq(OfVariable(u, k, v))
         /\ \A c \in ElementsOf(OfVariable(u, k, v)) : CallFor(c, u, "variables", k, v)
         /\ v.address # Absent =>
              \E c \in ElementsOf(OfVariable(u, k, v)) : CallFor(c, u, "variables", k, v)
<1> DEFINE own == LookupAt(u, "variables", k, v.address, v.name)
           o == OfVariable(u, k, v)
<1>1. CASE v.address = Absent
  <2>1. o = <<>>
    BY <1>1 DEF OfVariable
  <2> HIDE DEF o
  <2>2. IsSeq(o) /\ \A c : c \notin ElementsOf(o)
    BY <2>1, SeqEmpty DEF ElementsOf
  <2> QED
    BY <1>1, <2>2 DEF o
<1>2. CASE v.address # Absent
  <2>1. o = <<own>>
    BY <1>2 DEF OfVariable
  <2>2. CallFor(own, u, "variables", k, v)
    BY <1>2 DEF CallFor, LookupAt
  <2> HIDE DEF own, o
  <2>3. IsSeq(o) /\ Len(o) = 1 /\ o[1] = own
    BY <2>1, SeqOne
  <2>4. ElementsOf(o) = {own}
    BY <2>3 DEF ElementsOf
  <2> QED
    BY <2>2, <2>3, <2>4 DEF o
<1> QED
  BY <1>1, <1>2

UnitCalls(u, p) ==
  Flattened([k \in DOMAIN p.functions |-> OfFunction(u, k, p.functions[k])])
    \o Flattened([k \in DOMAIN p.variables |-> OfVariable(u, k, p.variables[k])])

CallOf(c, u, p) ==
  \/ \E k \in 1..Len(p.functions) : CallFor(c, u, "functions", k, p.functions[k])
  \/ \E k \in 1..Len(p.functions) : CallLater(c, p.functions[k])
  \/ \E k \in 1..Len(p.variables) : CallFor(c, u, "variables", k, p.variables[k])

\* Whatever begins in the unit p is asked for in a call of the set S.
AllCalled(S, u, p) ==
  /\ \A k \in 1..Len(p.functions) :
       p.functions[k].address # Absent =>
         /\ \E c \in S : CallFor(c, u, "functions", k, p.functions[k])
         /\ \A j \in 2..Len(p.functions[k].ranges) :
              \E c \in S : c.address = p.functions[k].ranges[j].begin
  /\ \A k \in 1..Len(p.variables) :
       p.variables[k].address # Absent =>
         \E c \in S : CallFor(c, u, "variables", k, p.variables[k])

LEMMA UnitCallsAre ==
  ASSUME NEW u, NEW p, UnitShape(p)
  PROVE  /\ IsSeq(UnitCalls(u, p))
         /\ \A c \in ElementsOf(UnitCalls(u, p)) : CallOf(c, u, p)
         /\ AllCalled(ElementsOf(UnitCalls(u, p)), u, p)
<1> DEFINE fs == [k \in DOMAIN p.functions |-> OfFunction(u, k, p.functions[k])]
           vs == [k \in DOMAIN p.variables |-> OfVariable(u, k, p.variables[k])]
           S == ElementsOf(UnitCalls(u, p))
<1>1. /\ IsSeq(p.functions) /\ IsSeq(p.variables)
      /\ \A k \in 1..Len(p.functions) : p.functions[k].ranges \in Seq(NatRange)
  BY DEF UnitShape
<1>2. /\ Len(p.functions) \in Nat /\ DOMAIN p.functions = 1..Len(p.functions)
      /\ Len(p.variables) \in Nat /\ DOMAIN p.variables = 1..Len(p.variables)
  BY <1>1, SeqLen
<1>3. /\ IsSeq(fs) /\ Len(fs) = Len(p.functions)
      /\ \A k \in 1..Len(p.functions) : fs[k] = OfFunction(u, k, p.functions[k])
  BY <1>2, FunctionIsSeq
<1>4. /\ IsSeq(vs) /\ Len(vs) = Len(p.variables)
      /\ \A k \in 1..Len(p.variables) : vs[k] = OfVariable(u, k, p.variables[k])
  BY <1>2, FunctionIsSeq
<1>5. UnitCalls(u, p) = Flattened(fs) \o Flattened(vs)
  BY DEF UnitCalls
<1> HIDE DEF fs, vs
<1>6. \A k \in 1..Len(p.functions) :
        LET f == p.functions[k]
        IN  /\ IsSeq(fs[k])
            /\ \A c \in ElementsOf(fs[k]) : CallFor(c, u, "functions", k, f) \/ CallLater(c, f)
            /\ f.address # Absent =>
                 /\ \E c \in ElementsOf(fs[k]) : CallFor(c, u, "functions", k, f)
                 /\ \A j \in 2..Len(f.ranges) :
                      \E c \in ElementsOf(fs[k]) : c.address = f.ranges[j].begin
  BY <1>1, <1>3, OfFunctionIs
<1>7. \A k \in 1..Len(p.variables) :
        LET v == p.variables[k]
        IN  /\ IsSeq(vs[k])
            /\ \A c \in ElementsOf(vs[k]) : CallFor(c, u, "variables", k, v)
            /\ v.address # Absent => \E c \in ElementsOf(vs[k]) : CallFor(c, u, "variables", k, v)
  BY <1>4, OfVariableIs
<1>8. /\ IsSeq(Flattened(fs))
      /\ \A c : c \in ElementsOf(Flattened(fs)) <=>
                  \E k \in 1..Len(p.functions) : c \in ElementsOf(fs[k])
  <2>1. \A k \in 1..Len(fs) : IsSeq(fs[k])
    BY <1>3, <1>6
  <2> QED
    BY <1>3, <2>1, ElementsFlattened
<1>9. /\ IsSeq(Flattened(vs))
      /\ \A c : c \in ElementsOf(Flattened(vs)) <=>
                  \E k \in 1..Len(p.variables) : c \in ElementsOf(vs[k])
  <2>1. \A k \in 1..Len(vs) : IsSeq(vs[k])
    BY <1>4, <1>7
  <2> QED
    BY <1>4, <2>1, ElementsFlattened
<1>10. /\ IsSeq(UnitCalls(u, p))
       /\ S = ElementsOf(Flattened(fs)) \union ElementsOf(Flattened(vs))
  BY <1>5, <1>8, <1>9, ElementsConcat
<1> HIDE DEF S
<1>11. ASSUME NEW c \in S
       PROVE  CallOf(c, u, p)
  <2>1. CASE c \in ElementsOf(Flattened(fs))
    <3>1. PICK k \in 1..Len(p.functions) : c \in ElementsOf(fs[k])
      BY <1>8, <2>1
    <3>2. CallFor(c, u, "functions", k, p.functions[k]) \/ CallLater(c, p.functions[k])
      BY <1>6, <3>1
    <3> QED
      BY <3>2 DEF CallOf
  <2>2. CASE c \in ElementsOf(Flattened(vs))
    <3>1. PICK k \in 1..Len(p.variables) : c \in ElementsOf(vs[k])
      BY <1>9, <2>2
    <3>2. CallFor(c, u, "variables", k, p.variables[k])
      BY <1>7, <3>1
    <3> QED
      BY <3>2 DEF CallOf
  <2> QED
    BY <1>10, <2>1, <2>2
<1>12. \A k \in 1..Len(p.functions) : ElementsOf(fs[k]) \subseteq S
  BY <1>8, <1>10
<1>13. \A k \in 1..Len(p.variables) : ElementsOf(vs[k]) \subseteq S
  BY <1>9, <1>10
<1>14. ASSUME NEW k \in 1..Len(p.functions), p.functions[k].address # Absent
       PROVE  /\ \E c \in S : CallFor(c, u, "functions", k, p.functions[k])
              /\ \A j \in 2..Len(p.functions[k].ranges) :
                   \E c \in S : c.address = p.functions[k].ranges[j].begin
  <2>1. PICK c \in ElementsOf(fs[k]) : CallFor(c, u, "functions", k, p.functions[k])
    BY <1>6, <1>14
  <2>2. ASSUME NEW j \in 2..Len(p.functions[k].ranges)
        PROVE  \E d \in S : d.address = p.functions[k].ranges[j].begin
    <3>1. PICK d \in ElementsOf(fs[k]) : d.address = p.functions[k].ranges[j].begin
      BY <1>6, <1>14
    <3> QED
      BY <1>12, <3>1
  <2> QED
    BY <1>12, <2>1, <2>2
<1>15. ASSUME NEW k \in 1..Len(p.variables), p.variables[k].address # Absent
       PROVE  \E c \in S : CallFor(c, u, "variables", k, p.variables[k])
  <2>1. PICK c \in ElementsOf(vs[k]) : CallFor(c, u, "variables", k, p.variables[k])
    BY <1>7, <1>15
  <2> QED
    BY <1>13, <2>1
<1>16. AllCalled(S, u, p)
  BY <1>14, <1>15 DEF AllCalled
<1> QED
  BY <1>10, <1>11, <1>16 DEF S

LEMMA LookupsAre ==
  ASSUME NEW parsed, IsSeq(parsed), \A u \in 1..Len(parsed) : UnitShape(parsed[u])
  PROVE  /\ IsSeq(LookupsOf(parsed))
         /\ \A c \in ElementsOf(LookupsOf(parsed)) :
              \E u \in 1..Len(parsed) : CallOf(c, u, parsed[u])
         /\ \A u \in 1..Len(parsed) : AllCalled(ElementsOf(LookupsOf(parsed)), u, parsed[u])
<1> DEFINE us == [u \in DOMAIN parsed |-> UnitCalls(u, parsed[u])]
           S == ElementsOf(LookupsOf(parsed))
<1>1. Len(parsed) \in Nat /\ DOMAIN parsed = 1..Len(parsed)
  BY SeqLen
<1>2. /\ IsSeq(us) /\ Len(us) = Len(parsed)
      /\ \A u \in 1..Len(parsed) : us[u] = UnitCalls(u, parsed[u])
  BY <1>1, FunctionIsSeq
<1>3. LookupsOf(parsed) = Flattened(us)
  BY DEF LookupsOf, UnitCalls
<1> HIDE DEF us
<1>4. \A u \in 1..Len(parsed) : /\ IsSeq(us[u])
                                /\ \A c \in ElementsOf(us[u]) : CallOf(c, u, parsed[u])
                                /\ AllCalled(ElementsOf(us[u]), u, parsed[u])
  BY <1>2, UnitCallsAre
<1>5. /\ IsSeq(LookupsOf(parsed))
      /\ \A c : c \in S <=> \E u \in 1..Len(parsed) : c \in ElementsOf(us[u])
  <2>1. \A u \in 1..Len(us) : IsSeq(us[u])
    BY <1>2, <1>4
  <2> QED
    BY <1>2, <1>3, <2>1, ElementsFlattened
<1> HIDE DEF S
<1>6. ASSUME NEW u \in 1..Len(parsed)
      PROVE  AllCalled(S, u, parsed[u])
  <2>1. ElementsOf(us[u]) \subseteq S
    BY <1>5
  <2>2. AllCalled(ElementsOf(us[u]), u, parsed[u])
    BY <1>4
  <2> QED
    BY <2>1, <2>2 DEF AllCalled
<1>7. \A c \in S : \E u \in 1..Len(parsed) : CallOf(c, u, parsed[u])
  BY <1>4, <1>5
<1> QED
  BY <1>5, <1>6, <1>7 DEF S

-----------------------------------------------------------------------------
(***************************************************************************)
(* A unit of which one function or variable gets a name.                   *)
(***************************************************************************)
SameNames(u, w, p, list, k) ==
  /\ \A m \in 1..Len(p.functions) :
       list # "functions" \/ m # k => w.functions[m].symbol = u.functions[m].symbol
  /\ \A m \in 1..Len(p.variables) :
       list # "variables" \/ m # k => w.variables[m].symbol = u.variables[m].symbol

ChangedAt(s, i, x, t) == t = [s EXCEPT ![i] = x]

LEMMA SeqExcept ==
  ASSUME NEW s, IsSeq(s), NEW i \in 1..Len(s), NEW x, NEW t, ChangedAt(s, i, x, t)
  PROVE  /\ IsSeq(t) /\ Len(t) = Len(s) /\ t[i] = x
         /\ \A n \in 1..Len(s) : n # i => t[n] = s[n]
<1>1. Len(s) \in Nat /\ DOMAIN s = 1..Len(s)
  BY SeqLen
<1>2. DOMAIN t = 1..Len(s) /\ t = [n \in DOMAIN t |-> t[n]]
  BY <1>1 DEF ChangedAt
<1>3. t[i] = x /\ \A n \in 1..Len(s) : n # i => t[n] = s[n]
  BY <1>1 DEF ChangedAt
<1>4. IsSeq(t) /\ Len(t) = Len(s)
  BY <1>1, <1>2, FunctionIsSeq
<1> QED
  BY <1>3, <1>4

FunctionGets(u, k, x, w) ==
  w = [u EXCEPT !.functions = [u.functions EXCEPT ![k] = [u.functions[k] EXCEPT !.symbol = x]]]

LEMMA FunctionNamed ==
  ASSUME NEW u, NEW p, UnitLike(u, p), NEW k \in 1..Len(p.functions), NEW x,
         NEW w, FunctionGets(u, k, x, w)
  PROVE  UnitLike(w, p) /\ w.functions[k].symbol = x /\ SameNames(u, w, p, "functions", k)
<1> DEFINE f == u.functions[k]
           g == [f EXCEPT !.symbol = x]
           fs == [u.functions EXCEPT ![k] = g]
<1>1. /\ u = [ranges |-> p.ranges, functions |-> u.functions, variables |-> u.variables]
      /\ IsSeq(u.functions) /\ Len(u.functions) = Len(p.functions)
      /\ IsSeq(u.variables) /\ Len(u.variables) = Len(p.variables)
      /\ \A m \in 1..Len(p.functions) : FunctionLike(u.functions[m], p.functions[m])
      /\ \A m \in 1..Len(p.variables) : VariableLike(u.variables[m], p.variables[m])
  BY DEF UnitLike
<1>2. FunctionLike(g, p.functions[k]) /\ g.symbol = x
  <2> DEFINE q == p.functions[k]
             y == f.symbol
  <2>1. f = [name |-> q.name, address |-> q.address, symbol |-> y, ranges |-> q.ranges]
    BY <1>1 DEF FunctionLike
  <2> HIDE DEF q, y, f
  <2>2. g = [name |-> q.name, address |-> q.address, symbol |-> x, ranges |-> q.ranges]
    BY <2>1
  <2> QED
    BY <2>2 DEF FunctionLike, q
<1>3. w = [u EXCEPT !.functions = fs]
  BY DEF FunctionGets
<1> HIDE DEF g
<1>4. /\ IsSeq(fs) /\ Len(fs) = Len(p.functions) /\ fs[k] = g
      /\ \A m \in 1..Len(p.functions) : m # k => fs[m] = u.functions[m]
  <2> DEFINE s == u.functions
  <2>1. IsSeq(s) /\ Len(s) = Len(p.functions) /\ ChangedAt(s, k, g, fs)
    BY <1>1 DEF ChangedAt
  <2> HIDE DEF s, fs
  <2>2. k \in 1..Len(s)
    BY <2>1
  <2>3. /\ IsSeq(fs) /\ Len(fs) = Len(s) /\ fs[k] = g
        /\ \A m \in 1..Len(s) : m # k => fs[m] = s[m]
    BY <2>1, <2>2, SeqExcept
  <2> QED
    BY <2>1, <2>3 DEF s
<1> HIDE DEF fs
<1>5. w = [ranges |-> p.ranges, functions |-> fs, variables |-> u.variables]
  <2> DEFINE a == u.functions
             b == u.variables
  <2>1. u = [ranges |-> p.ranges, functions |-> a, variables |-> b]
    BY <1>1
  <2> HIDE DEF a, b
  <2>2. w = [ranges |-> p.ranges, functions |-> fs, variables |-> b]
    BY <1>3, <2>1
  <2> QED
    BY <2>2 DEF b
<1>6. w.functions = fs /\ w.variables = u.variables
  BY <1>5
<1>7. \A m \in 1..Len(p.functions) : FunctionLike(fs[m], p.functions[m])
  BY <1>1, <1>2, <1>4
<1>8. UnitLike(w, p)
  BY <1>1, <1>4, <1>5, <1>6, <1>7 DEF UnitLike
<1> QED
  BY <1>2, <1>4, <1>6, <1>8 DEF SameNames

VariableGets(u, k, x, w) ==
  w = [u EXCEPT !.variables = [u.variables EXCEPT ![k] = [u.variables[k] EXCEPT !.symbol = x]]]

LEMMA VariableNamed ==
  ASSUME NEW u, NEW p, UnitLike(u, p), NEW k \in 1..Len(p.variables), NEW x,
         NEW w, VariableGets(u, k, x, w)
  PROVE  UnitLike(w, p) /\ w.variables[k].symbol = x /\ SameNames(u, w, p, "variables", k)
<1> DEFINE f == u.variables[k]
           g == [f EXCEPT !.symbol = x]
           vs == [u.variables EXCEPT ![k] = g]
<1>1. /\ u = [ranges |-> p.ranges, functions |-> u.functions, variables |-> u.variables]
      /\ IsSeq(u.functions) /\ Len(u.functions) = Len(p.functions)
      /\ IsSeq(u.variables) /\ Len(u.variables) = Len(p.variables)
      /\ \A m \in 1..Len(p.functions) : FunctionLike(u.functions[m], p.functions[m])
      /\ \A m \in 1..Len(p.variables) : VariableLike(u.variables[m], p.variables[m])
  BY DEF UnitLike
<1>2. VariableLike(g, p.variables[k]) /\ g.symbol = x
  <2> DEFINE q == p.variables[k]
             y == f.symbol
  <2>1. f = [name |-> q.name, address |-> q.address, symbol |-> y, size |-> q.size]
    BY <1>1 DEF VariableLike
  <2> HIDE DEF q, y, f
  <2>2. g = [name |-> q.name, address |-> q.address, symbol |-> x, size |-> q.size]
    BY <2>1
  <2> QED
    BY <2>2 DEF VariableLike, q
<1>3. w = [u EXCEPT !.variables = vs]
  BY DEF VariableGets
<1> HIDE DEF g
<1>4. /\ IsSeq(vs) /\ Len(vs) = Len(p.variables) /\ vs[k] = g
      /\ \A m \in 1..Len(p.variables) : m # k => vs[m] = u.variables[m]
  <2> DEFINE s == u.variables
  <2>1. IsSeq(s) /\ Len(s) = Len(p.variables) /\ ChangedAt(s, k, g, vs)
    BY <1>1 DEF ChangedAt
  <2> HIDE DEF s, vs
  <2>2. k \in 1..Len(s)
    BY <2>1
  <2>3. /\ IsSeq(vs) /\ Len(vs) = Len(s) /\ vs[k] = g
        /\ \A m \in 1..Len(s) : m # k => vs[m] = s[m]
    BY <2>1, <2>2, SeqExcept
  <2> QED
    BY <2>1, <2>3 DEF s
<1> HIDE DEF vs
<1>5. w = [ranges |-> p.ranges, functions |-> u.functions, variables |-> vs]
  <2> DEFINE a == u.functions
             b == u.variables
  <2>1. u = [ranges |-> p.ranges, functions |-> a, variables |-> b]
    BY <1>1
  <2> HIDE DEF a, b
  <2>2. w = [ranges |-> p.ranges, functions |-> a, variables |-> vs]
    BY <1>3, <2>1
  <2> QED
    BY <2>2 DEF a
<1>6. w.functions = u.functions /\ w.variables = vs
  BY <1>5
<1>7. \A m \in 1..Len(p.variables) : VariableLike(vs[m], p.variables[m])
  BY <1>1, <1>2, <1>4
<1>8. UnitLike(w, p)
  BY <1>1, <1>4, <1>5, <1>6, <1>7 DEF UnitLike
<1> QED
  BY <1>2, <1>4, <1>6, <1>8 DEF SameNames

-----------------------------------------------------------------------------
(***************************************************************************)
(* The inductive invariant of opening a file.  The calls are those of the  *)
(* parsed units, in order, and `lookups' are the last of them; a symbol is *)
(* used, and a function or variable has the name that is due to it, as     *)
(* soon as the call is made.                                               *)
(***************************************************************************)
ParsedAt(u) == ParsedUnit(opened.units[u])
Places == 1..Len(opened.units)
Calls == LookupsOf([u \in DOMAIN opened.units |-> ParsedUnit(opened.units[u])])
Made == Len(Calls) - Len(lookups)

Asked(u, list, k) ==
  \E i \in 1..Made : Calls[i].unit = u /\ Calls[i].list = list /\ Calls[i].nth = k

\* The name for what begins at the address of x.
NameDue(x) ==
  LET there == SymbolsAt(x.address, x.name)
      first == CHOOSE k \in there : \A j \in there : k <= j
  IN  IF there = {} \/ \E k \in there : symbols[k].name = x.name THEN Absent
      ELSE symbols[first].name

NameOf(asked, x) == IF asked THEN NameDue(x) ELSE Absent

CallsMatch ==
  /\ IsSeq(lookups) /\ Len(lookups) <= Len(Calls)
  /\ \A i \in 1..Len(lookups) : lookups[i] = Calls[Made + i]

UsedMatch ==
  /\ used = [k \in DOMAIN symbols |-> used[k]]
  /\ \A k \in DOMAIN symbols :
       used[k] <=> \E i \in 1..Made : Calls[i].address = symbols[k].address

UnitsMatch ==
  /\ IsSeq(units)
  /\ Len(units) = Len(opened.units) + (CASE opening = "symtab" -> 1
                                         [] opening = "opened" -> 2
                                         [] OTHER -> 0)
  /\ \A u \in Places : UnitLike(units[u], ParsedAt(u))

NamesMatch ==
  \A u \in Places :
    /\ \A k \in 1..Len(ParsedAt(u).functions) :
         units[u].functions[k].symbol
           = NameOf(Asked(u, "functions", k), ParsedAt(u).functions[k])
    /\ \A k \in 1..Len(ParsedAt(u).variables) :
         units[u].variables[k].symbol
           = NameOf(Asked(u, "variables", k), ParsedAt(u).variables[k])

Matched ==
  /\ symbols = ByAddress(opened.symbols)
  /\ CallsMatch /\ UsedMatch /\ UnitsMatch /\ NamesMatch
  /\ Named => lookups = <<>> /\ symtab = SymtabUnit

FileInv ==
  /\ opened \in SymbolFiles
  /\ opening \in {"parse", "names", "symtab", "opened"}
  /\ opening # "parse" => Matched

LEMMA CallsAre ==
  ASSUME opened \in SymbolFiles
  PROVE  /\ IsSeq(Calls) /\ Len(Calls) \in Nat
         /\ \A c \in ElementsOf(Calls) : \E u \in Places : CallOf(c, u, ParsedAt(u))
         /\ \A u \in Places : /\ AllCalled(ElementsOf(Calls), u, ParsedAt(u))
                              /\ UnitInputOK(opened.units[u]) /\ UnitShape(ParsedAt(u))
                              /\ UnitLike(ParsedAt(u), ParsedAt(u))
<1> DEFINE parsed == [u \in DOMAIN opened.units |-> ParsedUnit(opened.units[u])]
<1>1. /\ Len(opened.units) \in Nat /\ DOMAIN opened.units = Places
      /\ \A u \in Places : UnitInputOK(opened.units[u])
  BY InputParts DEF Places
<1>2. \A u \in Places : UnitShape(ParsedAt(u)) /\ UnitLike(ParsedAt(u), ParsedAt(u))
  BY <1>1, ParsedUnitIs DEF ParsedAt
<1>3. /\ DOMAIN parsed = Places /\ \A u \in Places : parsed[u] = ParsedAt(u)
      /\ parsed = [u \in DOMAIN parsed |-> parsed[u]]
  BY <1>1 DEF ParsedAt
<1>4. Calls = LookupsOf(parsed)
  BY DEF Calls
<1> HIDE DEF parsed
<1>5. IsSeq(parsed) /\ Len(parsed) = Len(opened.units)
  BY <1>1, <1>3, FunctionIsSeq DEF Places
<1>6. \A u \in 1..Len(parsed) : UnitShape(parsed[u])
  BY <1>2, <1>3, <1>5 DEF Places
<1>7. /\ IsSeq(Calls)
      /\ \A c \in ElementsOf(Calls) : \E u \in 1..Len(parsed) : CallOf(c, u, parsed[u])
      /\ \A u \in 1..Len(parsed) : AllCalled(ElementsOf(Calls), u, parsed[u])
  BY <1>4, <1>5, <1>6, LookupsAre
<1>8. Len(Calls) \in Nat
  BY <1>7, SeqLen
<1>9. 1..Len(parsed) = Places
  BY <1>5 DEF Places
<1> QED
  BY <1>1, <1>2, <1>3, <1>7, <1>8, <1>9

LEMMA FileStart == SymbolsInit => FileInv
  BY DEF SymbolsInit, FileInv

LEMMA ParseStep ==
  ASSUME FileInv, ParseFile
  PROVE  FileInv'
<1> DEFINE parsed == [u \in DOMAIN opened.units |-> ParsedUnit(opened.units[u])]
           table == ByAddress(opened.symbols)
<1>1. /\ opened \in SymbolFiles /\ opened' = opened /\ opening' = "names"
      /\ symbols' = table /\ used' = [k \in DOMAIN table |-> FALSE]
      /\ units' = parsed /\ lookups' = Calls
  BY DEF FileInv, ParseFile, Calls
<1>2. Calls' = Calls /\ Places' = Places /\ \A u : ParsedAt(u)' = ParsedAt(u)
  BY <1>1 DEF Calls, Places, ParsedAt
<1>3. /\ IsSeq(Calls) /\ Len(Calls) \in Nat
      /\ \A u \in Places : /\ UnitInputOK(opened.units[u])
                           /\ UnitLike(ParsedAt(u), ParsedAt(u))
  BY <1>1, CallsAre
<1>4. /\ Len(opened.units) \in Nat /\ DOMAIN opened.units = Places
  BY <1>1, InputParts DEF Places
<1>5. /\ DOMAIN parsed = Places /\ \A u \in Places : parsed[u] = ParsedAt(u)
      /\ parsed = [u \in DOMAIN parsed |-> parsed[u]]
  BY <1>4 DEF ParsedAt
<1>6. Made' = 0
  BY <1>1, <1>2, <1>3 DEF Made
<1>7. CallsMatch'
  BY <1>1, <1>2, <1>3, <1>6 DEF CallsMatch
<1> HIDE DEF table, parsed
<1>8. UsedMatch'
  <2>1. /\ DOMAIN used' = DOMAIN symbols'
        /\ \A k \in DOMAIN symbols' : used'[k] = FALSE
        /\ used' = [k \in DOMAIN symbols' |-> used'[k]]
    BY <1>1
  <2>2. 1..Made' = {}
    BY <1>6
  <2> QED
    BY <2>1, <2>2 DEF UsedMatch
<1>9. UnitsMatch'
  <2>1. IsSeq(parsed) /\ Len(parsed) = Len(opened.units)
    BY <1>4, <1>5, FunctionIsSeq DEF Places
  <2>2. \A u \in Places : UnitLike(units'[u], ParsedAt(u)')
    BY <1>1, <1>2, <1>3, <1>5
  <2> QED
    BY <1>1, <1>2, <1>4, <2>1, <2>2 DEF UnitsMatch
<1>10. NamesMatch'
  <2>1. \A u, list, k : ~Asked(u, list, k)'
    BY <1>6 DEF Asked
  <2>2. ASSUME NEW u \in Places
        PROVE  /\ \A k \in 1..Len(ParsedAt(u).functions) :
                    ParsedAt(u).functions[k].symbol = Absent
               /\ \A k \in 1..Len(ParsedAt(u).variables) :
                    ParsedAt(u).variables[k].symbol = Absent
    BY <1>3, ParsedUnitIs DEF ParsedAt
  <2>3. \A u \in Places : units'[u] = ParsedAt(u)
    BY <1>1, <1>5
  <2>4. \A u \in Places :
          /\ \A k \in 1..Len(ParsedAt(u).functions) : units'[u].functions[k].symbol = Absent
          /\ \A k \in 1..Len(ParsedAt(u).variables) : units'[u].variables[k].symbol = Absent
    BY <2>2, <2>3
  <2> QED
    BY <1>2, <2>1, <2>4 DEF NamesMatch, NameOf
<1>11. symbols' = ByAddress(opened'.symbols)
  BY <1>1 DEF table
<1>12. ~Named'
  BY <1>1 DEF Named
<1>13. Matched'
  BY <1>7, <1>8, <1>9, <1>10, <1>11, <1>12 DEF Matched
<1> QED
  BY <1>1, <1>13 DEF FileInv

\* What a call does to the names: x is the function or variable it is for.
Renamed(u, list, k, due) ==
  /\ IsSeq(units') /\ Len(units') = Len(units)
  /\ \A n \in Places : n # u => units'[n] = units[n]
  /\ UnitLike(units'[u], ParsedAt(u))
  /\ SameNames(units[u], units'[u], ParsedAt(u), list, k)
  /\ list = "functions" => units'[u].functions[k].symbol = due
  /\ list = "variables" => units'[u].variables[k].symbol = due

LEMMA CallStarts ==
  ASSUME FileInv, opening = "names", lookups # <<>>
  PROVE  /\ Head(lookups) = Calls[Made + 1] /\ Made \in Nat /\ Made + 1 \in 1..Len(Calls)
         /\ \E u \in Places : CallOf(Head(lookups), u, ParsedAt(u))
         /\ IsSeq(Tail(lookups)) /\ Len(Tail(lookups)) = Len(lookups) - 1
         /\ Len(lookups) \in Nat
         /\ \A i \in 1..Len(Tail(lookups)) : Tail(lookups)[i] = Calls[(Made + 1) + i]
<1>1. opened \in SymbolFiles /\ CallsMatch
  BY DEF FileInv, Matched
<1>2. /\ IsSeq(Calls) /\ Len(Calls) \in Nat
      /\ \A c \in ElementsOf(Calls) : \E u \in Places : CallOf(c, u, ParsedAt(u))
  BY <1>1, CallsAre
<1>3. /\ IsSeq(lookups) /\ Len(lookups) <= Len(Calls)
      /\ \A i \in 1..Len(lookups) : lookups[i] = Calls[Made + i]
  BY <1>1 DEF CallsMatch
<1>4. /\ IsSeq(Tail(lookups)) /\ Len(Tail(lookups)) = Len(lookups) - 1
      /\ Len(lookups) \in Nat \ {0} /\ Head(lookups) = lookups[1]
      /\ \A i \in 1..(Len(lookups) - 1) : i + 1 \in 1..Len(lookups)
                                          /\ Tail(lookups)[i] = lookups[i + 1]
  BY <1>3, SeqTail
<1>5. Made \in Nat /\ Made + 1 \in 1..Len(Calls)
  BY <1>2, <1>3, <1>4 DEF Made
<1>6. Head(lookups) = Calls[Made + 1]
  BY <1>3, <1>4
<1>7. Head(lookups) \in ElementsOf(Calls)
  BY <1>5, <1>6, ElementIs
<1>8. \A i \in 1..Len(Tail(lookups)) : Tail(lookups)[i] = Calls[(Made + 1) + i]
  <2> TAKE i \in 1..Len(Tail(lookups))
  <2>1. i \in 1..(Len(lookups) - 1) /\ i + 1 \in 1..Len(lookups)
    BY <1>4
  <2>2. Tail(lookups)[i] = Calls[Made + (i + 1)]
    BY <1>3, <1>4, <2>1
  <2>3. Made + (i + 1) = (Made + 1) + i
    BY <1>5, <2>1
  <2> QED
    BY <2>2, <2>3
<1> QED
  BY <1>2, <1>4, <1>5, <1>6, <1>7, <1>8

\* The call gives the name that is due.
LEMMA CallNames ==
  ASSUME FileInv, GetSymbol
  PROVE  \E u \in Places :
           \/ \E k \in 1..Len(ParsedAt(u).functions) :
                /\ CallFor(Head(lookups), u, "functions", k, ParsedAt(u).functions[k])
                /\ Renamed(u, "functions", k, NameDue(ParsedAt(u).functions[k]))
           \/ \E k \in 1..Len(ParsedAt(u).variables) :
                /\ CallFor(Head(lookups), u, "variables", k, ParsedAt(u).variables[k])
                /\ Renamed(u, "variables", k, NameDue(ParsedAt(u).variables[k]))
           \/ Head(lookups).list = "none" /\ units' = units
<1> DEFINE call == Head(lookups)
           found == SymbolsAt(call.address, call.name)
           known == found = {} \/ \E k \in found : symbols[k].name = call.name
           first == CHOOSE k \in found : \A j \in found : k <= j
           due == IF known THEN Absent ELSE symbols[first].name
<1>1. /\ opening = "names" /\ lookups # <<>> /\ symbols' = symbols
      /\ units' = CASE known -> units
                    [] ~known /\ call.list = "functions" ->
                         [units EXCEPT ![call.unit].functions[call.nth].symbol =
                                         symbols[first].name]
                    [] ~known /\ call.list = "variables" ->
                         [units EXCEPT ![call.unit].variables[call.nth].symbol =
                                         symbols[first].name]
                    [] OTHER -> units
  BY DEF GetSymbol
<1>2. /\ IsSeq(units) /\ Len(units) = Len(opened.units) + 0
      /\ \A u \in Places : UnitLike(units[u], ParsedAt(u))
      /\ NamesMatch
  BY <1>1 DEF FileInv, Matched, UnitsMatch
<1>3. Len(opened.units) \in Nat /\ Len(units) = Len(opened.units)
  BY <1>2, InputParts DEF FileInv
<1>4. PICK u \in Places : CallOf(call, u, ParsedAt(u))
  BY <1>1, CallStarts
<1>5. ASSUME NEW x, x.address = call.address, x.name = call.name
      PROVE  NameDue(x) = due
  BY <1>5 DEF NameDue
<1> HIDE DEF due
<1> DEFINE p == ParsedAt(u)
<1>6. UnitLike(units[u], p) /\ u \in 1..Len(units)
  BY <1>2, <1>3 DEF Places
<1>7. CASE \E k \in 1..Len(p.functions) : CallFor(call, u, "functions", k, p.functions[k])
  <2>1. PICK k \in 1..Len(p.functions) : CallFor(call, u, "functions", k, p.functions[k])
    BY <1>7
  <2>2. call.unit = u /\ call.list = "functions" /\ call.nth = k /\ due = NameDue(p.functions[k])
    BY <1>5, <2>1 DEF CallFor
  <2>3. CASE known
    <3>1. units' = units
      BY <1>1, <2>3
    <3>2. due = Absent
      BY <2>3 DEF due
    <3>3. units[u].functions[k].symbol = NameOf(Asked(u, "functions", k), p.functions[k])
      BY <1>2 DEF NamesMatch
    <3>4. units[u].functions[k].symbol = Absent
      BY <2>2, <3>2, <3>3 DEF NameOf
    <3>5. SameNames(units[u], units[u], p, "functions", k)
      BY DEF SameNames
    <3>6. Renamed(u, "functions", k, due)
      BY <1>2, <1>6, <3>1, <3>2, <3>4, <3>5 DEF Renamed
    <3> QED
      BY <2>1, <2>2, <3>6
  <2>4. CASE ~known
    <3> DEFINE w == [units[u] EXCEPT !.functions = [units[u].functions EXCEPT ![k] =
                                        [units[u].functions[k] EXCEPT !.symbol = due]]]
    <3>1. due = symbols[first].name
      BY <2>4 DEF due
    <3>2. units' = [units EXCEPT ![u].functions[k].symbol = due]
      BY <1>1, <2>2, <2>4, <3>1
    <3>3. ChangedAt(units, u, w, units')
      BY <3>2 DEF ChangedAt
    <3>4. FunctionGets(units[u], k, due, w)
      BY DEF FunctionGets
    <3> HIDE DEF w
    <3>5. UnitLike(w, p) /\ w.functions[k].symbol = due
          /\ SameNames(units[u], w, p, "functions", k)
      BY <1>6, <3>4, FunctionNamed
    <3>6. /\ IsSeq(units') /\ Len(units') = Len(units) /\ units'[u] = w
          /\ \A n \in 1..Len(units) : n # u => units'[n] = units[n]
      BY <1>2, <1>6, <3>3, SeqExcept
    <3>7. \A n \in Places : n # u => units'[n] = units[n]
      BY <1>3, <3>6 DEF Places
    <3>8. Renamed(u, "functions", k, due)
      BY <3>5, <3>6, <3>7 DEF Renamed
    <3> QED
      BY <2>1, <2>2, <3>8
  <2> QED
    BY <2>3, <2>4
<1>8. CASE \E k \in 1..Len(p.variables) : CallFor(call, u, "variables", k, p.variables[k])
  <2>1. PICK k \in 1..Len(p.variables) : CallFor(call, u, "variables", k, p.variables[k])
    BY <1>8
  <2>2. call.unit = u /\ call.list = "variables" /\ call.nth = k /\ due = NameDue(p.variables[k])
    BY <1>5, <2>1 DEF CallFor
  <2>3. CASE known
    <3>1. units' = units
      BY <1>1, <2>3
    <3>2. due = Absent
      BY <2>3 DEF due
    <3>3. units[u].variables[k].symbol = NameOf(Asked(u, "variables", k), p.variables[k])
      BY <1>2 DEF NamesMatch
    <3>4. units[u].variables[k].symbol = Absent
      BY <2>2, <3>2, <3>3 DEF NameOf
    <3>5. SameNames(units[u], units[u], p, "variables", k)
      BY DEF SameNames
    <3>6. Renamed(u, "variables", k, due)
      BY <1>2, <1>6, <3>1, <3>2, <3>4, <3>5 DEF Renamed
    <3> QED
      BY <2>1, <2>2, <3>6
  <2>4. CASE ~known
    <3> DEFINE w == [units[u] EXCEPT !.variables = [units[u].variables EXCEPT ![k] =
                                        [units[u].variables[k] EXCEPT !.symbol = due]]]
    <3>1. due = symbols[first].name
      BY <2>4 DEF due
    <3>2. units' = [units EXCEPT ![u].variables[k].symbol = due]
      BY <1>1, <2>2, <2>4, <3>1
    <3>3. ChangedAt(units, u, w, units')
      BY <3>2 DEF ChangedAt
    <3>4. VariableGets(units[u], k, due, w)
      BY DEF VariableGets
    <3> HIDE DEF w
    <3>5. UnitLike(w, p) /\ w.variables[k].symbol = due
          /\ SameNames(units[u], w, p, "variables", k)
      BY <1>6, <3>4, VariableNamed
    <3>6. /\ IsSeq(units') /\ Len(units') = Len(units) /\ units'[u] = w
          /\ \A n \in 1..Len(units) : n # u => units'[n] = units[n]
      BY <1>2, <1>6, <3>3, SeqExcept
    <3>7. \A n \in Places : n # u => units'[n] = units[n]
      BY <1>3, <3>6 DEF Places
    <3>8. Renamed(u, "variables", k, due)
      BY <3>5, <3>6, <3>7 DEF Renamed
    <3> QED
      BY <2>1, <2>2, <3>8
  <2> QED
    BY <2>3, <2>4
<1>9. CASE \E k \in 1..Len(p.functions) : CallLater(call, p.functions[k])
  <2>1. call.list = "none"
    BY <1>9 DEF CallLater
  <2>2. units' = units
    BY <1>1, <2>1
  <2> QED
    BY <2>1, <2>2
<1> QED
  BY <1>4, <1>7, <1>8, <1>9 DEF CallOf

\* What was asked for before a call, and by it.
LEMMA AskedAfter ==
  ASSUME FileInv, GetSymbol
  PROVE  /\ Calls' = Calls /\ Places' = Places /\ Made' = Made + 1 /\ Made \in Nat
         /\ \A u : ParsedAt(u)' = ParsedAt(u)
         /\ \A x : NameDue(x)' = NameDue(x)
         /\ \A u, list, k :
              Asked(u, list, k)' <=> \/ Asked(u, list, k)
                                     \/ /\ Head(lookups).unit = u /\ Head(lookups).list = list
                                        /\ Head(lookups).nth = k
         /\ \A a : (\E i \in 1..Made' : Calls'[i].address = a) <=>
                     (\E i \in 1..Made : Calls[i].address = a) \/ Head(lookups).address = a
<1>1. /\ opening = "names" /\ lookups # <<>> /\ lookups' = Tail(lookups)
      /\ opened' = opened /\ symbols' = symbols
  BY DEF GetSymbol
<1>2. /\ Head(lookups) = Calls[Made + 1] /\ Made \in Nat
      /\ Len(Tail(lookups)) = Len(lookups) - 1 /\ Len(lookups) \in Nat
  BY <1>1, CallStarts
<1>3. Calls' = Calls /\ Places' = Places /\ \A u : ParsedAt(u)' = ParsedAt(u)
  BY <1>1 DEF Calls, Places, ParsedAt
<1>4. Len(Calls) \in Nat
  BY CallsAre DEF FileInv
<1>5. Made' = Made + 1
  BY <1>1, <1>2, <1>3, <1>4 DEF Made
<1>6. \A x : NameDue(x)' = NameDue(x)
  BY <1>1 DEF NameDue, SymbolsAt
<1>7. \A i : i \in 1..(Made + 1) <=> i \in 1..Made \/ i = Made + 1
  BY <1>2
<1>8. ASSUME NEW u, NEW list, NEW k
      PROVE  Asked(u, list, k)' <=> \/ Asked(u, list, k)
                                    \/ /\ Head(lookups).unit = u /\ Head(lookups).list = list
                                       /\ Head(lookups).nth = k
  <2>1. Asked(u, list, k)' <=>
          \E i \in 1..(Made + 1) : Calls[i].unit = u /\ Calls[i].list = list /\ Calls[i].nth = k
    BY <1>3, <1>5 DEF Asked
  <2> QED
    BY <1>2, <1>7, <2>1 DEF Asked
<1>9. ASSUME NEW a
      PROVE  (\E i \in 1..Made' : Calls'[i].address = a) <=>
               (\E i \in 1..Made : Calls[i].address = a) \/ Head(lookups).address = a
  BY <1>2, <1>3, <1>5, <1>7
<1> QED
  BY <1>2, <1>3, <1>5, <1>6, <1>8, <1>9

LEMMA NamesStep ==
  ASSUME FileInv, GetSymbol
  PROVE  FileInv'
<1> DEFINE call == Head(lookups)
<1>1. /\ opening = "names" /\ lookups # <<>> /\ lookups' = Tail(lookups)
      /\ opened' = opened /\ symbols' = symbols /\ opening' = opening
      /\ used' = [k \in DOMAIN used |-> used[k] \/ k \in SymbolsAt(call.address, call.name)]
  BY DEF GetSymbol
<1>2. /\ opened \in SymbolFiles /\ symbols = ByAddress(opened.symbols)
      /\ CallsMatch /\ UsedMatch /\ UnitsMatch /\ NamesMatch
  BY <1>1 DEF FileInv, Matched
<1>3. /\ Calls' = Calls /\ Places' = Places /\ Made' = Made + 1 /\ Made \in Nat
      /\ \A u : ParsedAt(u)' = ParsedAt(u)
      /\ \A x : NameDue(x)' = NameDue(x)
      /\ \A u, list, k :
           Asked(u, list, k)' <=> \/ Asked(u, list, k)
                                  \/ call.unit = u /\ call.list = list /\ call.nth = k
      /\ \A a : (\E i \in 1..Made' : Calls'[i].address = a) <=>
                  (\E i \in 1..Made : Calls[i].address = a) \/ call.address = a
  BY AskedAfter
<1>4. CallsMatch'
  <2>1. /\ IsSeq(lookups') /\ Len(lookups') = Len(lookups) - 1 /\ Len(lookups) \in Nat
        /\ \A i \in 1..Len(lookups') : lookups'[i] = Calls'[Made' + i]
    BY <1>1, <1>3, CallStarts
  <2>2. Len(lookups) <= Len(Calls) /\ Len(Calls) \in Nat
    BY <1>2, CallsAre DEF CallsMatch
  <2> QED
    BY <1>3, <2>1, <2>2 DEF CallsMatch
<1>5. UsedMatch'
  <2>1. /\ used = [k \in DOMAIN symbols |-> used[k]]
        /\ \A k \in DOMAIN symbols :
             used[k] <=> \E i \in 1..Made : Calls[i].address = symbols[k].address
    BY <1>2 DEF UsedMatch
  <2>2. DOMAIN used = DOMAIN symbols
    BY <2>1
  <2>3. used' = [k \in DOMAIN symbols |-> used[k] \/ k \in SymbolsAt(call.address, call.name)]
    BY <1>1, <2>2
  <2>4. /\ DOMAIN used' = DOMAIN symbols'
        /\ used' = [k \in DOMAIN symbols' |-> used'[k]]
    BY <1>1, <2>3
  <2>5. ASSUME NEW k \in DOMAIN symbols
        PROVE  used'[k] <=> \E i \in 1..Made' : Calls'[i].address = symbols[k].address
    <3>1. used'[k] <=> used[k] \/ k \in SymbolsAt(call.address, call.name)
      BY <2>3
    <3>2. k \in SymbolsAt(call.address, call.name) <=> call.address = symbols[k].address
      BY DEF SymbolsAt
    <3>3. used[k] <=> \E i \in 1..Made : Calls[i].address = symbols[k].address
      BY <2>1
    <3>4. (\E i \in 1..Made' : Calls'[i].address = symbols[k].address) <=>
            \/ \E i \in 1..Made : Calls[i].address = symbols[k].address
            \/ call.address = symbols[k].address
      BY <1>3
    <3> QED
      BY <3>1, <3>2, <3>3, <3>4
  <2> QED
    BY <1>1, <2>4, <2>5 DEF UsedMatch
<1> HIDE DEF call
<1>6. /\ IsSeq(units) /\ Len(units) = Len(opened.units) + 0
      /\ \A u \in Places : UnitLike(units[u], ParsedAt(u))
  BY <1>1, <1>2 DEF UnitsMatch
<1>7. PICK u \in Places :
        \/ \E k \in 1..Len(ParsedAt(u).functions) :
             /\ CallFor(call, u, "functions", k, ParsedAt(u).functions[k])
             /\ Renamed(u, "functions", k, NameDue(ParsedAt(u).functions[k]))
        \/ \E k \in 1..Len(ParsedAt(u).variables) :
             /\ CallFor(call, u, "variables", k, ParsedAt(u).variables[k])
             /\ Renamed(u, "variables", k, NameDue(ParsedAt(u).variables[k]))
        \/ call.list = "none" /\ units' = units
  BY CallNames DEF call
<1>8. ASSUME NEW list \in {"functions", "variables"}, NEW k, NEW due, Renamed(u, list, k, due)
      PROVE  UnitsMatch'
  <2>1. /\ IsSeq(units') /\ Len(units') = Len(units)
        /\ \A n \in Places : n # u => units'[n] = units[n]
        /\ UnitLike(units'[u], ParsedAt(u))
    BY <1>8 DEF Renamed
  <2>2. \A n \in Places : UnitLike(units'[n], ParsedAt(n))
    BY <1>6, <2>1
  <2>3. opening' # "symtab" /\ opening' # "opened"
    BY <1>1
  <2> QED
    BY <1>1, <1>3, <1>6, <2>1, <2>2, <2>3 DEF UnitsMatch
<1>9. \A n \in Places :
        /\ \A m \in 1..Len(ParsedAt(n).functions) :
             units[n].functions[m].symbol
               = NameOf(Asked(n, "functions", m), ParsedAt(n).functions[m])
        /\ \A m \in 1..Len(ParsedAt(n).variables) :
             units[n].variables[m].symbol
               = NameOf(Asked(n, "variables", m), ParsedAt(n).variables[m])
  BY <1>2 DEF NamesMatch
<1>10. SUFFICES UnitsMatch' /\ NamesMatch'
  <2>1. symbols' = ByAddress(opened'.symbols) /\ ~Named'
    BY <1>1, <1>2 DEF Named
  <2>2. UnitsMatch' /\ NamesMatch' => Matched'
    BY <1>4, <1>5, <2>1 DEF Matched
  <2> QED
    BY <1>1, <1>2, <2>2 DEF FileInv
<1>11. CASE \E k \in 1..Len(ParsedAt(u).functions) :
              /\ CallFor(call, u, "functions", k, ParsedAt(u).functions[k])
              /\ Renamed(u, "functions", k, NameDue(ParsedAt(u).functions[k]))
  <2>1. PICK k \in 1..Len(ParsedAt(u).functions) :
          /\ CallFor(call, u, "functions", k, ParsedAt(u).functions[k])
          /\ Renamed(u, "functions", k, NameDue(ParsedAt(u).functions[k]))
    BY <1>11
  <2>2. call.unit = u /\ call.list = "functions" /\ call.nth = k
    BY <2>1 DEF CallFor
  <2>3. /\ \A n \in Places : n # u => units'[n] = units[n]
        /\ \A m \in 1..Len(ParsedAt(u).functions) :
             m # k => units'[u].functions[m].symbol = units[u].functions[m].symbol
        /\ \A m \in 1..Len(ParsedAt(u).variables) :
             units'[u].variables[m].symbol = units[u].variables[m].symbol
        /\ units'[u].functions[k].symbol = NameDue(ParsedAt(u).functions[k])
    BY <2>1 DEF Renamed, SameNames
  <2>4. /\ \A n, m : n # u \/ m # k => (Asked(n, "functions", m)' <=> Asked(n, "functions", m))
        /\ \A n, m : Asked(n, "variables", m)' <=> Asked(n, "variables", m)
        /\ Asked(u, "functions", k)'
    BY <1>3, <2>2
  <2>5. ASSUME NEW n \in Places, NEW m \in 1..Len(ParsedAt(n).functions)
        PROVE  units'[n].functions[m].symbol
                 = (NameOf(Asked(n, "functions", m), ParsedAt(n).functions[m]))'
    <3>1. CASE n # u \/ m # k
      <4>1. units'[n].functions[m].symbol = units[n].functions[m].symbol
        BY <2>3, <3>1
      <4>2. Asked(n, "functions", m)' <=> Asked(n, "functions", m)
        BY <2>4, <3>1
      <4> QED
        BY <1>3, <1>9, <4>1, <4>2 DEF NameOf
    <3>2. CASE n = u /\ m = k
      BY <1>3, <2>3, <2>4, <3>2 DEF NameOf
    <3> QED
      BY <3>1, <3>2
  <2>6. ASSUME NEW n \in Places, NEW m \in 1..Len(ParsedAt(n).variables)
        PROVE  units'[n].variables[m].symbol
                 = (NameOf(Asked(n, "variables", m), ParsedAt(n).variables[m]))'
    <3>1. units'[n].variables[m].symbol = units[n].variables[m].symbol
      BY <2>3
    <3>2. Asked(n, "variables", m)' <=> Asked(n, "variables", m)
      BY <2>4
    <3> QED
      BY <1>3, <1>9, <3>1, <3>2 DEF NameOf
  <2>7. NamesMatch'
    BY <1>3, <2>5, <2>6 DEF NamesMatch
  <2> QED
    BY <1>8, <2>1, <2>7
<1>12. CASE \E k \in 1..Len(ParsedAt(u).variables) :
              /\ CallFor(call, u, "variables", k, ParsedAt(u).variables[k])
              /\ Renamed(u, "variables", k, NameDue(ParsedAt(u).variables[k]))
  <2>1. PICK k \in 1..Len(ParsedAt(u).variables) :
          /\ CallFor(call, u, "variables", k, ParsedAt(u).variables[k])
          /\ Renamed(u, "variables", k, NameDue(ParsedAt(u).variables[k]))
    BY <1>12
  <2>2. call.unit = u /\ call.list = "variables" /\ call.nth = k
    BY <2>1 DEF CallFor
  <2>3. /\ \A n \in Places : n # u => units'[n] = units[n]
        /\ \A m \in 1..Len(ParsedAt(u).variables) :
             m # k => units'[u].variables[m].symbol = units[u].variables[m].symbol
        /\ \A m \in 1..Len(ParsedAt(u).functions) :
             units'[u].functions[m].symbol = units[u].functions[m].symbol
        /\ units'[u].variables[k].symbol = NameDue(ParsedAt(u).variables[k])
    BY <2>1 DEF Renamed, SameNames
  <2>4. /\ \A n, m : n # u \/ m # k => (Asked(n, "variables", m)' <=> Asked(n, "variables", m))
        /\ \A n, m : Asked(n, "functions", m)' <=> Asked(n, "functions", m)
        /\ Asked(u, "variables", k)'
    BY <1>3, <2>2
  <2>5. ASSUME NEW n \in Places, NEW m \in 1..Len(ParsedAt(n).variables)
        PROVE  units'[n].variables[m].symbol
                 = (NameOf(Asked(n, "variables", m), ParsedAt(n).variables[m]))'
    <3>1. CASE n # u \/ m # k
      <4>1. units'[n].variables[m].symbol = units[n].variables[m].symbol
        BY <2>3, <3>1
      <4>2. Asked(n, "variables", m)' <=> Asked(n, "variables", m)
        BY <2>4, <3>1
      <4> QED
        BY <1>3, <1>9, <4>1, <4>2 DEF NameOf
    <3>2. CASE n = u /\ m = k
      BY <1>3, <2>3, <2>4, <3>2 DEF NameOf
    <3> QED
      BY <3>1, <3>2
  <2>6. ASSUME NEW n \in Places, NEW m \in 1..Len(ParsedAt(n).functions)
        PROVE  units'[n].functions[m].symbol
                 = (NameOf(Asked(n, "functions", m), ParsedAt(n).functions[m]))'
    <3>1. units'[n].functions[m].symbol = units[n].functions[m].symbol
      BY <2>3
    <3>2. Asked(n, "functions", m)' <=> Asked(n, "functions", m)
      BY <2>4
    <3> QED
      BY <1>3, <1>9, <3>1, <3>2 DEF NameOf
  <2>7. NamesMatch'
    BY <1>3, <2>5, <2>6 DEF NamesMatch
  <2> QED
    BY <1>8, <2>1, <2>7
<1>13. CASE call.list = "none" /\ units' = units
  <2>1. /\ \A n, m : Asked(n, "functions", m)' <=> Asked(n, "functions", m)
        /\ \A n, m : Asked(n, "variables", m)' <=> Asked(n, "variables", m)
    BY <1>3, <1>13
  <2>2. NamesMatch'
    BY <1>3, <1>9, <1>13, <2>1 DEF NamesMatch, NameOf
  <2>3. opening' # "symtab" /\ opening' # "opened"
    BY <1>1
  <2>4. UnitsMatch'
    BY <1>1, <1>3, <1>6, <1>13, <2>3 DEF UnitsMatch
  <2> QED
    BY <2>2, <2>4
<1> QED
  BY <1>7, <1>11, <1>12, <1>13

\* The two units that are added stand behind those of the debug info.
LEMMA AddStep ==
  ASSUME FileInv, AddSymtab \/ AddUnknown
  PROVE  FileInv'
<1>1. /\ lookups = <<>> /\ lookups' = lookups
      /\ opened' = opened /\ symbols' = symbols /\ used' = used
      /\ \/ opening = "names" /\ opening' = "symtab" /\ units' = Append(units, SymtabUnit)
         \/ /\ opening = "symtab" /\ opening' = "opened"
            /\ \E x : units' = Append(units, x)
  BY DEF AddSymtab, AddUnknown, FileInv, Matched, Named
<1>2. /\ opened \in SymbolFiles /\ symbols = ByAddress(opened.symbols)
      /\ CallsMatch /\ UsedMatch /\ UnitsMatch /\ NamesMatch
      /\ Named => symtab = SymtabUnit
  BY <1>1 DEF FileInv, Matched
<1>3. /\ Calls' = Calls /\ Places' = Places /\ Made' = Made
      /\ \A u : ParsedAt(u)' = ParsedAt(u)
      /\ \A x : NameDue(x)' = NameDue(x)
      /\ SymtabUnit' = SymtabUnit
  BY <1>1 DEF Calls, Places, Made, ParsedAt, NameDue, SymbolsAt, SymtabUnit
<1>4. \A u, list, k : Asked(u, list, k)' <=> Asked(u, list, k)
  BY <1>3 DEF Asked
<1>5. CallsMatch' /\ UsedMatch'
  BY <1>1, <1>2, <1>3 DEF CallsMatch, UsedMatch
<1> DEFINE added == CASE opening = "symtab" -> 1 [] opening = "opened" -> 2 [] OTHER -> 0
<1>6. /\ IsSeq(units) /\ Len(units) = Len(opened.units) + added
      /\ \A u \in Places : UnitLike(units[u], ParsedAt(u))
  BY <1>2 DEF UnitsMatch
<1>7. Len(opened.units) \in Nat /\ added \in Nat
  BY <1>2, InputParts
<1> HIDE DEF added
<1>8. PICK x : units' = Append(units, x) /\ (opening = "names" => x = SymtabUnit)
  BY <1>1
<1>9. /\ IsSeq(units') /\ Len(units') = Len(units) + 1
      /\ \A u \in 1..Len(units) : units'[u] = units[u]
      /\ units'[Len(units) + 1] = x
  <2>1. /\ IsSeq(Append(units, x)) /\ Len(Append(units, x)) = Len(units) + 1
        /\ \A u \in 1..Len(units) : Append(units, x)[u] = units[u]
        /\ Append(units, x)[Len(units) + 1] = x
    BY <1>6, SeqAppend
  <2> QED
    BY <1>8, <2>1
<1>10. \A u \in Places : units'[u] = units[u]
  BY <1>6, <1>7, <1>9 DEF Places
<1>11. UnitsMatch'
  <2>1. \A u \in Places : UnitLike(units'[u], ParsedAt(u))
    BY <1>6, <1>10
  <2>2. CASE opening = "names"
    <3>1. Len(units') = Len(opened.units) + 1 /\ opening' = "symtab"
      BY <1>1, <1>6, <1>7, <1>9, <2>2 DEF added
    <3> QED
      BY <1>1, <1>3, <1>9, <2>1, <3>1 DEF UnitsMatch
  <2>3. CASE opening = "symtab"
    <3>1. Len(units') = Len(opened.units) + 2 /\ opening' = "opened"
      BY <1>1, <1>6, <1>7, <1>9, <2>3 DEF added
    <3> QED
      BY <1>1, <1>3, <1>9, <2>1, <3>1 DEF UnitsMatch
  <2> QED
    BY <1>1, <2>2, <2>3
<1>12. NamesMatch'
  <2>1. \A u \in Places :
          /\ \A k \in 1..Len(ParsedAt(u).functions) :
               units'[u].functions[k].symbol
                 = NameOf(Asked(u, "functions", k), ParsedAt(u).functions[k])
          /\ \A k \in 1..Len(ParsedAt(u).variables) :
               units'[u].variables[k].symbol
                 = NameOf(Asked(u, "variables", k), ParsedAt(u).variables[k])
    BY <1>2, <1>10 DEF NamesMatch
  <2> QED
    BY <1>3, <1>4, <2>1 DEF NamesMatch, NameOf
<1>13. symtab' = SymtabUnit
  <2>1. CASE opening = "names"
    BY <1>1, <1>6, <1>7, <1>8, <1>9, <2>1 DEF symtab, added
  <2>2. CASE opening = "symtab"
    <3>1. symtab = SymtabUnit /\ Len(opened.units) + 1 \in 1..Len(units)
      BY <1>2, <1>6, <1>7, <2>2 DEF Named, added
    <3> QED
      BY <1>1, <1>9, <3>1 DEF symtab
  <2> QED
    BY <1>1, <2>1, <2>2
<1>14. Matched'
  BY <1>1, <1>2, <1>3, <1>5, <1>11, <1>12, <1>13 DEF Matched
<1> QED
  BY <1>1, <1>2, <1>14 DEF FileInv

LEMMA FileStep == FileInv /\ [SymbolsNext]_symbolsVars => FileInv'
<1> SUFFICES ASSUME FileInv, [SymbolsNext]_symbolsVars
             PROVE  FileInv'
  OBVIOUS
<1>1. CASE ParseFile
  BY <1>1, ParseStep
<1>2. CASE GetSymbol
  BY <1>2, NamesStep
<1>3. CASE AddSymtab \/ AddUnknown
  BY <1>3, AddStep
<1>4. CASE UNCHANGED symbolsVars
  <2>1. /\ opened' = opened /\ symbols' = symbols /\ used' = used /\ units' = units
        /\ lookups' = lookups /\ opening' = opening
    BY <1>4 DEF symbolsVars
  <2>2. /\ Calls' = Calls /\ Places' = Places /\ Made' = Made
        /\ \A u : ParsedAt(u)' = ParsedAt(u)
        /\ \A x : NameDue(x)' = NameDue(x)
        /\ (Named' <=> Named) /\ symtab' = symtab /\ SymtabUnit' = SymtabUnit
    BY <2>1 DEF Calls, Places, Made, ParsedAt, NameDue, SymbolsAt, Named, symtab, SymtabUnit
  <2>3. \A u, list, k : Asked(u, list, k)' <=> Asked(u, list, k)
    BY <2>2 DEF Asked
  <2>4. NamesMatch => NamesMatch'
    BY <2>1, <2>2, <2>3 DEF NamesMatch, NameOf
  <2>5. Matched => Matched'
    BY <2>1, <2>2, <2>4 DEF Matched, CallsMatch, UsedMatch, UnitsMatch
  <2> QED
    BY <2>1, <2>5 DEF FileInv
<1> QED
  BY <1>1, <1>2, <1>3, <1>4 DEF SymbolsNext

LEMMA FileInvHolds == SymbolsSpec => []FileInv
  BY FileStart, FileStep, PTL DEF SymbolsSpec

-----------------------------------------------------------------------------
(***************************************************************************)
(* The ranges of units: what unit.rs computes of them are lists.           *)
(***************************************************************************)
LEMMA ExtentTyped ==
  ASSUME NEW s, s.address \in Nat, s.size \in Nat
  PROVE  /\ Extent(s) \in NatRange
         /\ Extent(s).begin = s.address /\ Extent(s).end = s.address + s.size
  BY DEF Extent, Span, NatRange

LEMMA ExtentsTyped ==
  ASSUME NEW s, IsSeq(s), \A k \in 1..Len(s) : s[k].address \in Nat /\ s[k].size \in Nat
  PROVE  /\ [k \in DOMAIN s |-> Extent(s[k])] \in Seq(NatRange)
         /\ Len([k \in DOMAIN s |-> Extent(s[k])]) = Len(s)
<1> DEFINE e == [k \in DOMAIN s |-> Extent(s[k])]
<1>1. Len(s) \in Nat /\ DOMAIN s = 1..Len(s)
  BY SeqLen
<1>2. \A k \in 1..Len(s) : Extent(s[k]) \in NatRange
  BY ExtentTyped
<1>3. e \in [1..Len(s) -> NatRange]
  BY <1>1, <1>2
<1> HIDE DEF e
<1>4. e \in Seq(NatRange) /\ Len(e) = Len(s)
  BY <1>1, <1>3, ListOf
<1> QED
  BY <1>4 DEF e

\* Elements of a sequence, when there is no set to name for them.
LEMMA PickedSeq ==
  ASSUME NEW s, IsSeq(s), NEW I, I \subseteq 1..Len(s)
  PROVE  IsPick(Picked(s, I), s, I)
<1>1. PICK S : s \in Seq(S)
  BY DEF IsSeq
<1> QED
  BY <1>1, PickedIs

LEMMA SymtabShape ==
  ASSUME TableOK(symbols)
  PROVE  UnitShape(SymtabUnit)
<1> DEFINE free == {k \in DOMAIN symbols : ~used[k]}
           F == {k \in free : symbols[k].kind = "Text"}
           V == {k \in free : symbols[k].kind # "Text"}
           all == Picked(symbols, free)
           funs == Picked(symbols, F)
           datas == Picked(symbols, V)
           fs == [k \in DOMAIN funs |->
                    [name |-> funs[k].name, address |-> funs[k].address, symbol |-> Absent,
                     ranges |-> <<Extent(funs[k])>>]]
           vs == [k \in DOMAIN datas |->
                    [name |-> datas[k].name, address |-> datas[k].address, symbol |-> Absent,
                     size |-> datas[k].size]]
           spans == [k \in DOMAIN all |-> Extent(all[k])]
           ranges == SortRanges(PushAll(<<>>, spans))
<1>1. SymtabUnit = [ranges |-> ranges, functions |-> fs, variables |-> vs]
  BY DEF SymtabUnit
<1>2. /\ IsSeq(symbols) /\ DOMAIN symbols = 1..Len(symbols)
      /\ \A k \in 1..Len(symbols) : symbols[k].address \in Nat /\ symbols[k].size \in Nat
  BY SeqLen DEF TableOK
<1>3. free \subseteq 1..Len(symbols) /\ F \subseteq 1..Len(symbols) /\ V \subseteq 1..Len(symbols)
  BY <1>2
<1> HIDE DEF free, F, V
<1>4. /\ IsSeq(all)
      /\ \A k \in 1..Len(all) : all[k].address \in Nat /\ all[k].size \in Nat
  <2>1. IsPick(all, symbols, free)
    BY <1>2, <1>3, PickedSeq
  <2> HIDE DEF all
  <2> QED
    BY <1>2, <1>3, <2>1 DEF IsPick
<1>5. /\ IsSeq(funs)
      /\ \A k \in 1..Len(funs) : funs[k].address \in Nat /\ funs[k].size \in Nat
  <2>1. IsPick(funs, symbols, F)
    BY <1>2, <1>3, PickedSeq
  <2> HIDE DEF funs
  <2> QED
    BY <1>2, <1>3, <2>1 DEF IsPick
<1>6. /\ IsSeq(datas)
      /\ \A k \in 1..Len(datas) : datas[k].address \in Nat /\ datas[k].size \in Nat
  <2>1. IsPick(datas, symbols, V)
    BY <1>2, <1>3, PickedSeq
  <2> HIDE DEF datas
  <2> QED
    BY <1>2, <1>3, <2>1 DEF IsPick
<1> HIDE DEF all, funs, datas
<1>7. spans \in Seq(NatRange)
  BY <1>4, ExtentsTyped
<1> HIDE DEF spans
<1>8. ranges \in Seq(NatRange)
  BY <1>7, SortedSpans
<1>9. /\ Len(funs) \in Nat /\ DOMAIN funs = 1..Len(funs)
      /\ Len(datas) \in Nat /\ DOMAIN datas = 1..Len(datas)
  BY <1>5, <1>6, SeqLen
<1>10. /\ IsSeq(fs) /\ Len(fs) = Len(funs)
       /\ \A k \in 1..Len(funs) : fs[k].ranges = <<Extent(funs[k])>>
  BY <1>9, FunctionIsSeq
<1>11. /\ IsSeq(vs) /\ Len(vs) = Len(datas)
       /\ \A k \in 1..Len(datas) : vs[k].address = datas[k].address /\ vs[k].size = datas[k].size
  BY <1>9, FunctionIsSeq
<1> HIDE DEF ranges, fs, vs
<1>12. \A k \in 1..Len(fs) : fs[k].ranges \in Seq(NatRange)
  <2> TAKE k \in 1..Len(fs)
  <2> DEFINE r == Extent(funs[k])
  <2>1. r \in NatRange /\ fs[k].ranges = <<r>>
    BY <1>5, <1>10, ExtentTyped
  <2> HIDE DEF r
  <2>2. <<r>> \in Seq(NatRange)
    BY <2>1
  <2> QED
    BY <2>1, <2>2
<1>13. \A k \in 1..Len(vs) : vs[k].address \in OptAddress /\ vs[k].size \in OptAddress
  BY <1>6, <1>11 DEF OptAddress
<1>14. /\ SymtabUnit.ranges = ranges /\ SymtabUnit.functions = fs /\ SymtabUnit.variables = vs
  BY <1>1
<1> QED
  BY <1>8, <1>10, <1>11, <1>12, <1>13, <1>14 DEF UnitShape

LEMMA FunctionRangesIs ==
  ASSUME NEW u, UnitShape(u)
  PROVE  FunctionRanges(u) \in Seq(NatRange)
<1> DEFINE fs == u.functions
           seqs == [k \in DOMAIN fs |-> fs[k].ranges]
<1>1. IsSeq(fs) /\ \A k \in 1..Len(fs) : fs[k].ranges \in Seq(NatRange)
  BY DEF UnitShape
<1>2. Len(fs) \in Nat /\ DOMAIN fs = 1..Len(fs)
  BY <1>1, SeqLen
<1>3. FunctionRanges(u) = Flattened(seqs)
  BY DEF FunctionRanges
<1> HIDE DEF fs
<1>4. /\ IsSeq(seqs) /\ Len(seqs) = Len(fs)
      /\ \A k \in 1..Len(fs) : seqs[k] = fs[k].ranges
  BY <1>2, FunctionIsSeq
<1> HIDE DEF seqs
<1>5. \A k \in 1..Len(seqs) : seqs[k] \in Seq(NatRange)
  BY <1>1, <1>4
<1> QED
  BY <1>3, <1>4, <1>5, FlattenedIs

LEMMA VariableRangesIs ==
  ASSUME NEW u, UnitShape(u)
  PROVE  VariableRanges(u) \in Seq(NatRange)
<1> DEFINE vs == u.variables
           I == {k \in DOMAIN vs : vs[k].address # Absent /\ vs[k].size \notin {Absent, 0}}
           ranged == Picked(vs, I)
           At(k) == Span(ranged[k].address, ranged[k].address + ranged[k].size)
           spans == [k \in DOMAIN ranged |-> At(k)]
<1>1. IsSeq(vs) /\ \A k \in 1..Len(vs) : vs[k].address \in OptAddress /\ vs[k].size \in OptAddress
  BY DEF UnitShape
<1>2. DOMAIN vs = 1..Len(vs)
  BY <1>1, SeqLen
<1>3. VariableRanges(u) = spans
  BY DEF VariableRanges
<1> HIDE DEF vs
<1>4. /\ I \subseteq 1..Len(vs)
      /\ \A k \in I : vs[k].address \in Nat /\ vs[k].size \in Nat
  BY <1>1, <1>2 DEF OptAddress
<1> HIDE DEF I
<1>5. IsPick(ranged, vs, I)
  BY <1>1, <1>4, PickedSeq
<1> HIDE DEF ranged
<1>6. /\ IsSeq(ranged)
      /\ \A k \in 1..Len(ranged) : ranged[k].address \in Nat /\ ranged[k].size \in Nat
  BY <1>4, <1>5 DEF IsPick
<1>7. Len(ranged) \in Nat /\ DOMAIN ranged = 1..Len(ranged)
  BY <1>6, SeqLen
<1>8. \A k \in 1..Len(ranged) : At(k) \in NatRange
  BY <1>6 DEF Span, NatRange
<1>9. spans \in [1..Len(ranged) -> NatRange]
  BY <1>7, <1>8
<1> HIDE DEF spans
<1> QED
  BY <1>3, <1>7, <1>9, ListOf

LEMMA SortedOrdered ==
  ASSUME NEW l \in Lists
  PROVE  SortRanges(l) \in Lists /\ Ordered(SortRanges(l))
<1>1. SortRanges(l) \in Lists /\ Disjoint(SortRanges(l))
  BY SortIs
<1> QED
  BY <1>1, ListsAreProper, DisjointOrdered

LEMMA ClaimedIs ==
  ASSUME NEW u, UnitShape(u)
  PROVE  Claimed(u) \in Lists /\ Ordered(Claimed(u)) /\ Unclaimed(u) \in Lists
<1>1. PushAll(<<>>, FunctionRanges(u)) \in Lists
  BY FunctionRangesIs, EmptyIsList, PushAllIs
<1>2. PushAll(PushAll(<<>>, FunctionRanges(u)), VariableRanges(u)) \in Lists
  BY <1>1, VariableRangesIs, PushAllIs
<1>3. Claimed(u) \in Lists /\ Ordered(Claimed(u))
  BY <1>2, SortedOrdered DEF Claimed
<1>4. SortRanges(PushAll(<<>>, u.ranges)) \in Lists
  BY SortedSpans DEF UnitShape
<1>5. Unclaimed(u) \in Lists
  BY <1>3, <1>4, SubtractIs DEF Unclaimed
<1> QED
  BY <1>3, <1>5

\* The loop of File::ranges.
PushUnit(list, u) == PushAll(PushAll(list, Claimed(u)), Unclaimed(u))
UnitTurn(E) == [p \in Lists \X E |-> PushUnit(p[1], p[2])]
Shaped(E) == \A u \in E : UnitShape(u)

LEMMA PushUnitTyped ==
  ASSUME NEW list \in Lists, NEW u, UnitShape(u)
  PROVE  PushUnit(list, u) \in Lists
<1>1. Claimed(u) \in Seq(NatRange) /\ Unclaimed(u) \in Seq(NatRange)
  BY ClaimedIs, ListTyped
<1>2. PushAll(list, Claimed(u)) \in Lists
  BY <1>1, PushAllIs
<1> QED
  BY <1>1, <1>2, PushAllIs DEF PushUnit

LEMMA UnitTurnIs ==
  ASSUME NEW E, Shaped(E)
  PROVE  /\ UnitTurn(E) \in [Lists \X E -> Lists]
         /\ \A list \in Lists, u \in E : UnitTurn(E)[<<list, u>>] = PushUnit(list, u)
<1>1. \A list \in Lists, u \in E : PushUnit(list, u) \in Lists
  BY PushUnitTyped DEF Shaped
<1>2. \A p \in Lists \X E : p[1] \in Lists /\ p[2] \in E
  OBVIOUS
<1>3. \A list \in Lists, u \in E :
        /\ <<list, u>> \in Lists \X E
        /\ <<list, u>>[1] = list /\ <<list, u>>[2] = u
  OBVIOUS
<1> QED
  BY <1>1, <1>2, <1>3 DEF UnitTurn

LEMMA FileRangesIs ==
  ASSUME NEW E, Shaped(E), NEW list \in Seq(E)
  PROVE  /\ IsLoop(E, Lists, list, <<>>, UnitTurn(E))
         /\ FileRanges(list) = SortRanges(Outcome(list, <<>>, UnitTurn(E)))
         /\ Outcome(list, <<>>, UnitTurn(E)) \in Lists
<1> DEFINE at == CHOOSE f : f = [n \in 0..Len(list) |->
                   IF n = 0 THEN <<>>
                   ELSE PushAll(PushAll(f[n - 1], Claimed(list[n])), Unclaimed(list[n]))]
           turn == UnitTurn(E)
<1>1. IsLoop(E, Lists, list, <<>>, turn)
  BY EmptyIsList, UnitTurnIs DEF IsLoop
<1>2. /\ Len(list) \in Nat /\ \A n \in 1..Len(list) : list[n] \in E
      /\ \A n \in 0..Len(list) : n = 0 \/ n \in 1..Len(list)
      /\ \A n \in 1..Len(list) : n \in 0..Len(list) /\ n # 0
      /\ 0 \in 0..Len(list)
  OBVIOUS
<1>3. \A l \in Lists, u \in E : turn[<<l, u>>] = PushUnit(l, u)
  BY UnitTurnIs
<1>4. PICK f : Turns(list, <<>>, turn, f)
  BY <1>1, TurnsExist
<1>5. /\ f \in [0..Len(list) -> Lists] /\ f[0] = <<>>
      /\ \A n \in 1..Len(list) : n - 1 \in 0..Len(list) /\ f[n] = turn[<<f[n - 1], list[n]>>]
  BY <1>1, <1>4, TurnsAre
<1>6. f = [n \in 0..Len(list) |-> IF n = 0 THEN <<>> ELSE PushUnit(f[n - 1], list[n])]
  <2>1. \A n \in 1..Len(list) : f[n] = PushUnit(f[n - 1], list[n])
    BY <1>2, <1>3, <1>5
  <2> QED
    BY <1>2, <1>5, <2>1
<1>7. at = [n \in 0..Len(list) |-> IF n = 0 THEN <<>> ELSE PushUnit(at[n - 1], list[n])]
  BY <1>6 DEF PushUnit
<1>8. FileRanges(list) = SortRanges(at[Len(list)])
  BY DEF FileRanges
<1> HIDE DEF at
<1>9. at[0] = <<>> /\ \A n \in 1..Len(list) : at[n] = PushUnit(at[n - 1], list[n])
  BY <1>2, <1>7
<1>10. \A n \in 1..Len(list) : at[n - 1] \in Lists => at[n] = turn[<<at[n - 1], list[n]>>]
  BY <1>2, <1>3, <1>9
<1>11. at[Len(list)] = Outcome(list, <<>>, turn) /\ at[Len(list)] \in Lists
  BY <1>1, <1>9, <1>10, OutcomeIs
<1> QED
  BY <1>1, <1>8, <1>11

\* Nothing is taken out of a list by no holes.
LEMMA WithoutNothing ==
  ASSUME NEW list \in Lists, NEW more \in Seq(NatRange)
  PROVE  WithoutAll(list, more, <<>>) = PushAll(list, more)
<1> DEFINE none == <<>>
           turn == WithoutTurn(none)
<1>1. none \in Seq(NatRange) /\ none = <<>>
  OBVIOUS
<1> HIDE DEF none
<1>2. ASSUME NEW l \in Lists, NEW r \in NatRange
      PROVE  Without(l, r, none) = Push(l, r)
  <2> DEFINE start == AtBegin(l, r)
  <2>1. IsLoop(NatRange, CutStates, none, start, CutTurn(r))
        /\ Without(l, r, none) = CutOff(Outcome(none, start, CutTurn(r)), r)
    BY <1>1, WithoutIs
  <2>2. Outcome(none, start, CutTurn(r)) = start
    BY <1>1, <2>1, OutcomeEmpty DEF IsLoop
  <2>3. start.from = r.begin /\ start.out = l
    BY DEF AtBegin
  <2>4. r.begin \in Nat /\ r.end \in Nat /\ Span(r.begin, r.end) = r
    BY DEF NatRange, Span
  <2> HIDE DEF start
  <2>5. CASE r.begin < r.end
    BY <2>1, <2>2, <2>3, <2>4, <2>5 DEF CutOff
  <2>6. CASE ~(r.begin < r.end)
    <3>1. Push(l, r) = l
      BY <2>4, <2>6, PushTyped
    <3> QED
      BY <2>1, <2>2, <2>3, <2>6, <3>1 DEF CutOff
  <2> QED
    BY <2>5, <2>6
<1>3. turn = PushTurn
  <2>1. \A p \in Lists \X NatRange : Without(p[1], p[2], none) = Push(p[1], p[2])
    BY <1>2
  <2> QED
    BY <2>1 DEF WithoutTurn, PushTurn
<1>4. WithoutAll(list, more, none) = Outcome(more, list, turn)
  BY <1>1, WithoutAllIs
<1>5. PushAll(list, more) = Outcome(more, list, PushTurn)
  BY PushAllIs
<1> QED
  BY <1>1, <1>3, <1>4, <1>5

LEMMA NothingStarts == Starts(<<>>) = {} /\ Covered(<<>>) = {}
<1>1. \A x : x \notin Starts(<<>>)
  BY StartsAre, SeqEmpty
<1> QED
  BY <1>1, EmptyFits

LEMMA SortNothing == SortRanges(<<>>) = <<>>
<1> DEFINE s == SortRanges(<<>>)
<1>1. s \in Lists /\ Starts(s) \subseteq {}
  BY EmptyIsList, NothingStarts, SortIs
<1> HIDE DEF s
<1>2. Len(s) = 0
  <2> SUFFICES ASSUME Len(s) # 0
               PROVE  FALSE
    OBVIOUS
  <2>1. 1 \in 1..Len(s)
    BY <1>1, ListRanges
  <2> QED
    BY <1>1, <2>1, StartsAre
<1>3. s = <<>>
  BY <1>1, <1>2, ListTyped, EmptySeq
<1> QED
  BY <1>3 DEF s

\* The unit `<unknown>': nothing of it is claimed, so its ranges are unclaimed.
LEMMA UnknownUnitIs ==
  ASSUME NEW U \in Lists,
         NEW unk, unk = [ranges |-> U, functions |-> <<>>, variables |-> <<>>]
  PROVE  /\ UnitShape(unk) /\ Claimed(unk) = <<>> /\ Unclaimed(unk) \in Lists
         /\ Covered(U) \subseteq Covered(Unclaimed(unk))
         /\ Starts(Unclaimed(unk)) \subseteq Starts(U)
<1>1. unk.ranges = U /\ unk.functions = <<>> /\ unk.variables = <<>>
  OBVIOUS
<1>2. IsSeq(<<>>) /\ Len(<<>>) = 0 /\ DOMAIN <<>> = 1..0
  BY SeqEmpty
<1>3. UnitShape(unk)
  BY <1>1, <1>2, ListTyped DEF UnitShape
<1>4. FunctionRanges(unk) = <<>>
  <2> DEFINE fs == unk.functions
             seqs == [k \in DOMAIN fs |-> fs[k].ranges]
             x == FunctionRanges(unk)
  <2>1. x = Flattened(seqs) /\ x \in Seq(NatRange)
    BY <1>3, FunctionRangesIs DEF FunctionRanges
  <2>2. IsSeq(seqs) /\ Len(seqs) = 0
    <3>1. DOMAIN seqs = 1..0 /\ seqs = [k \in DOMAIN seqs |-> seqs[k]]
      BY <1>1, <1>2
    <3> HIDE DEF seqs
    <3> QED
      BY <3>1, FunctionIsSeq
  <2> HIDE DEF seqs, x
  <2>3. \A k \in 1..Len(seqs) : IsSeq(seqs[k])
    BY <2>2
  <2>4. \A y : y \notin ElementsOf(x)
    BY <2>1, <2>2, <2>3, ElementsFlattened
  <2>5. Len(x) = 0
    <3> SUFFICES ASSUME Len(x) # 0
                 PROVE  FALSE
      OBVIOUS
    <3>1. 1 \in 1..Len(x)
      BY <2>1
    <3> QED
      BY <2>4, <3>1, ElementIs
  <2> QED
    BY <2>1, <2>5, EmptySeq DEF x
<1>5. VariableRanges(unk) = <<>>
  <2> DEFINE vs == unk.variables
             I == {k \in DOMAIN vs : vs[k].address # Absent /\ vs[k].size \notin {Absent, 0}}
             ranged == Picked(vs, I)
             x == VariableRanges(unk)
  <2>1. x \in Seq(NatRange)
    BY <1>3, VariableRangesIs
  <2>2. x = [k \in DOMAIN ranged |-> Span(ranged[k].address,
                                          ranged[k].address + ranged[k].size)]
    BY DEF VariableRanges
  <2>3. I = {} /\ vs \in Seq({})
    BY <1>1, <1>2
  <2> HIDE DEF I, vs
  <2>4. ranged = <<>>
    BY <2>3, PickedIs
  <2> HIDE DEF ranged
  <2>5. DOMAIN x = {}
    BY <2>2, <2>4
  <2> HIDE DEF x
  <2>6. Len(x) = 0
    BY <2>1, <2>5, LenProperties
  <2> QED
    BY <2>1, <2>6, EmptySeq DEF x
<1>6. Claimed(unk) = <<>>
  BY <1>4, <1>5, EmptyIsList, PushAllEmpty, SortNothing DEF Claimed
<1> DEFINE l == SortRanges(PushAll(<<>>, U))
           w == WithoutAll(<<>>, l, <<>>)
<1>7. /\ l \in Lists /\ Covered(U) \subseteq Covered(l) /\ Starts(l) \subseteq Starts(U)
  <2> DEFINE m == PushAll(<<>>, U)
  <2>1. m \in Lists /\ Starts(m) \subseteq Starts(U)
        /\ \A k \in 1..Len(U) : U[k].begin..(U[k].end - 1) \subseteq Covered(m)
    BY EmptyIsList, ListTyped, PushAllIs, PushAllCovers, NothingStarts
  <2>2. Covered(U) \subseteq Covered(m)
    BY <2>1, ListRanges
  <2> HIDE DEF m
  <2>3. /\ SortRanges(m) \in Lists /\ Covered(m) \subseteq Covered(SortRanges(m))
        /\ Starts(SortRanges(m)) \subseteq Starts(m)
    BY <2>1, SortIs
  <2> QED
    BY <2>1, <2>2, <2>3 DEF m
<1>8. Unclaimed(unk) = SortRanges(w)
  BY <1>1, <1>6 DEF Unclaimed, Subtract
<1> HIDE DEF l
<1>9. /\ w \in Lists /\ Covered(l) \subseteq Covered(w) /\ Starts(w) \subseteq Starts(l)
  <2>1. w = PushAll(<<>>, l)
    BY <1>7, EmptyIsList, ListTyped, WithoutNothing
  <2> HIDE DEF w
  <2>2. w \in Lists /\ Starts(w) \subseteq Starts(l)
        /\ \A k \in 1..Len(l) : l[k].begin..(l[k].end - 1) \subseteq Covered(w)
    BY <1>7, <2>1, EmptyIsList, ListTyped, PushAllIs, PushAllCovers, NothingStarts
  <2> QED
    BY <1>7, <2>2, ListRanges
<1> HIDE DEF w
<1>10. /\ SortRanges(w) \in Lists /\ Covered(w) \subseteq Covered(SortRanges(w))
       /\ Starts(SortRanges(w)) \subseteq Starts(w)
  BY <1>9, SortIs
<1> QED
  BY <1>3, <1>6, <1>7, <1>8, <1>9, <1>10

\* After the unit of what is unknown in S, all of S is known.
LEMMA UnknownIsKnown ==
  ASSUME NEW E, Shaped(E), NEW list \in Seq(E), NEW S \in Lists,
         NEW unk \in E, unk = [ranges |-> Subtract(S, FileRanges(list)),
                               functions |-> <<>>, variables |-> <<>>]
  PROVE  /\ Covered(S) \subseteq Covered(FileRanges(Append(list, unk)))
         /\ Subtract(S, FileRanges(Append(list, unk))) = <<>>
<1> DEFINE turn == UnitTurn(E)
           acc == Outcome(list, <<>>, turn)
           old == FileRanges(list)
           U == Subtract(S, old)
           W == Unclaimed(unk)
           m == PushAll(acc, W)
           new == FileRanges(Append(list, unk))
<1>1. IsLoop(E, Lists, list, <<>>, turn) /\ old = SortRanges(acc) /\ acc \in Lists
  BY FileRangesIs
<1>2. old \in Lists /\ Ordered(old)
  BY <1>1, SortedOrdered
<1>3. /\ U \in Lists /\ Covered(S) \ Covered(old) \subseteq Covered(U)
      /\ Starts(U) \subseteq Covered(S) \ Covered(old)
  BY <1>2, SubtractIs
<1>4. /\ Claimed(unk) = <<>> /\ W \in Lists
      /\ Covered(U) \subseteq Covered(W) /\ Starts(W) \subseteq Starts(U)
  BY <1>3, UnknownUnitIs
<1>5. Append(list, unk) \in Seq(E)
  OBVIOUS
<1>6. new = SortRanges(Outcome(Append(list, unk), <<>>, turn))
  BY <1>5, FileRangesIs
<1>7. Outcome(Append(list, unk), <<>>, turn) = turn[<<acc, unk>>]
  BY <1>1, OutcomeBack
<1> HIDE DEF acc
<1>8. turn[<<acc, unk>>] = PushUnit(acc, unk)
  BY <1>1, UnitTurnIs
<1>9. PushUnit(acc, unk) = m
  BY <1>1, <1>4, PushAllEmpty DEF PushUnit
<1> HIDE DEF turn, old, U, W, new
<1>10. m \in Lists /\ \A k \in 1..Len(W) : W[k].begin..(W[k].end - 1) \subseteq Covered(m)
  BY <1>1, <1>4, ListTyped, PushAllIs, PushAllCovers
<1>11. Covered(W) \subseteq Covered(m)
  BY <1>4, <1>10, ListRanges
<1>12. Starts(W) \intersect Covered(SortRanges(acc)) = {}
  BY <1>1, <1>3, <1>4
<1>13. Covered(SortRanges(acc)) \subseteq Covered(SortRanges(m))
  BY <1>1, <1>4, <1>12, SortGrows
<1> HIDE DEF m
<1>14. /\ new = SortRanges(m) /\ new \in Lists /\ Ordered(new)
       /\ Covered(m) \subseteq Covered(new)
  BY <1>6, <1>7, <1>8, <1>9, <1>10, SortIs, SortedOrdered
<1>15. Covered(S) \subseteq Covered(new)
  BY <1>1, <1>3, <1>4, <1>11, <1>13, <1>14
<1>16. Subtract(S, new) = <<>>
  BY <1>14, <1>15, SubtractIs
<1> QED
  BY <1>15, <1>16 DEF new

LEMMA LoadedIs ==
  ASSUME NEW table, TableOK(table)
  PROVE  Loaded(table) \in Seq(NatRange)
<1> DEFINE I == {k \in DOMAIN table : table[k].address # 0 /\ table[k].size # 0}
           at == Picked(table, I)
<1>1. IsSeq(table) /\ DOMAIN table = 1..Len(table)
  BY SeqLen DEF TableOK
<1>2. I \subseteq 1..Len(table)
  BY <1>1
<1>3. Loaded(table) = [k \in DOMAIN at |-> Extent(at[k])]
  BY DEF Loaded
<1> HIDE DEF I
<1>4. IsPick(at, table, I)
  BY <1>1, <1>2, PickedSeq
<1> HIDE DEF at
<1>5. IsSeq(at) /\ \A k \in 1..Len(at) : at[k].address \in Nat /\ at[k].size \in Nat
  BY <1>2, <1>4 DEF IsPick, TableOK
<1> QED
  BY <1>3, <1>5, ExtentsTyped

LEMMA UnknownStep ==
  ASSUME FileInv, AddUnknown
  PROVE  UnknownExhausted'
<1> DEFINE S == SortRanges(PushAll(<<>>, Loaded(opened.sections)))
           unk == [ranges |-> Unknowns(units), functions |-> <<>>, variables |-> <<>>]
           E == ElementsOf(units) \union {unk}
<1>1. opening = "symtab" /\ units' = Append(units, unk) /\ opened' = opened
  BY DEF AddUnknown
<1>2. /\ opened \in SymbolFiles /\ symbols = ByAddress(opened.symbols)
      /\ UnitsMatch /\ symtab = SymtabUnit
  BY <1>1 DEF FileInv, Matched, Named
<1>3. /\ TableOK(opened.symbols) /\ TableOK(opened.sections) /\ Len(opened.units) \in Nat
  BY <1>2, InputParts
<1>4. /\ IsSeq(units) /\ Len(units) = Len(opened.units) + 1
      /\ \A u \in Places : UnitLike(units[u], ParsedAt(u))
  BY <1>1, <1>2 DEF UnitsMatch
<1>5. /\ S \in Lists /\ Covered(Loaded(opened.sections)) \subseteq Covered(S)
  <2> DEFINE more == Loaded(opened.sections)
             m == PushAll(<<>>, more)
  <2>1. more \in Seq(NatRange)
    BY <1>3, LoadedIs
  <2> HIDE DEF more
  <2>2. m \in Lists /\ \A k \in 1..Len(more) : more[k].begin..(more[k].end - 1) \subseteq Covered(m)
    BY <2>1, EmptyIsList, PushAllIs, PushAllCovers
  <2>3. Covered(more) \subseteq Covered(m)
    <3>1. DOMAIN more = 1..Len(more)
      BY <2>1
    <3> QED
      BY <2>2, <3>1 DEF Covered
  <2> HIDE DEF m
  <2>4. SortRanges(m) \in Lists /\ Covered(m) \subseteq Covered(SortRanges(m))
    BY <2>2, SortIs
  <2> QED
    BY <2>3, <2>4 DEF m, more
<1>6. \A u \in 1..Len(units) : UnitShape(units[u])
  <2> TAKE u \in 1..Len(units)
  <2>1. CASE u \in Places
    BY <1>2, <1>4, <2>1, CallsAre, LikeShape
  <2>2. CASE u = Len(opened.units) + 1
    <3>1. units[u] = SymtabUnit
      BY <1>2, <2>2 DEF symtab
    <3> QED
      BY <1>2, <1>3, <3>1, ByAddressIs, SymtabShape
  <2> QED
    BY <1>3, <1>4, <2>1, <2>2 DEF Places
<1>7. units \in Seq(ElementsOf(units))
  <2>1. /\ Len(units) \in Nat /\ DOMAIN units = 1..Len(units)
    BY <1>4, SeqLen
  <2>2. PICK D : units \in Seq(D)
    BY <1>4 DEF IsSeq
  <2>3. units \in [1..Len(units) -> D]
    BY <2>2, LenProperties
  <2>4. \A u \in 1..Len(units) : units[u] \in ElementsOf(units)
    BY ElementIs
  <2>5. units \in [1..Len(units) -> ElementsOf(units)]
    BY <2>3, <2>4
  <2> QED
    BY <2>1, <2>5, ListOf
<1>8. units \in Seq(E)
  BY <1>7
<1>9. \A u \in ElementsOf(units) : UnitShape(u)
  BY <1>6, ElementIs
<1>10. Shaped(ElementsOf(units))
  BY <1>9 DEF Shaped
<1>11. FileRanges(units) \in Lists /\ Ordered(FileRanges(units))
  BY <1>7, <1>10, FileRangesIs, SortedOrdered
<1>12. Unknowns(units) = Subtract(S, FileRanges(units))
  BY DEF Unknowns
<1>13. Unknowns(units) \in Lists
  BY <1>5, <1>11, <1>12, SubtractIs
<1> HIDE DEF S
<1>14. UnitShape(unk)
  BY <1>13, UnknownUnitIs
<1> HIDE DEF unk
<1>15. Shaped(E) /\ unk \in E
  BY <1>9, <1>14 DEF Shaped
<1> HIDE DEF E
<1>16. /\ Covered(S) \subseteq Covered(FileRanges(Append(units, unk)))
       /\ Subtract(S, FileRanges(Append(units, unk))) = <<>>
  BY <1>5, <1>8, <1>12, <1>15, UnknownIsKnown DEF unk
<1>17. /\ Unknowns(units)' = Subtract(S, FileRanges(Append(units, unk)))
       /\ Covered(Loaded(opened.sections))' = Covered(Loaded(opened.sections))
       /\ FileRanges(units)' = FileRanges(Append(units, unk))
  BY <1>1 DEF Unknowns, S
<1> QED
  BY <1>5, <1>16, <1>17 DEF UnknownExhausted

\* "After creation of that unit this will return an empty range list" (file/mod.rs): however
\* many units, symbols and sections a file has, and whatever their ranges.
THEOREM SectionsAccountedFor == SymbolsSpec => []UnknownExhausted
<1>1. SymbolsInit => UnknownExhausted
  BY DEF SymbolsInit, UnknownExhausted
<1>2. FileInv /\ UnknownExhausted /\ [SymbolsNext]_symbolsVars => UnknownExhausted'
  <2> SUFFICES ASSUME FileInv, UnknownExhausted, [SymbolsNext]_symbolsVars
               PROVE  UnknownExhausted'
    OBVIOUS
  <2>1. CASE ParseFile \/ GetSymbol \/ AddSymtab
    BY <2>1 DEF ParseFile, GetSymbol, AddSymtab, UnknownExhausted
  <2>2. CASE AddUnknown
    BY <2>2, UnknownStep
  <2>3. CASE UNCHANGED symbolsVars
    BY <2>3 DEF symbolsVars, UnknownExhausted, Unknowns
  <2> QED
    BY <2>1, <2>2, <2>3 DEF SymbolsNext
<1> QED
  BY <1>1, <1>2, FileInvHolds, PTL DEF SymbolsSpec

-----------------------------------------------------------------------------
(***************************************************************************)
(* The names: the first symbol of an address in the sorted table is the    *)
(* first one of the file's, as the sort is stable.                         *)
(***************************************************************************)
LEMMA FirstOf ==
  ASSUME NEW T, T \subseteq Nat, T # {}
  PROVE  /\ (CHOOSE k \in T : \A j \in T : k <= j) \in T
         /\ \A j \in T : (CHOOSE k \in T : \A i \in T : k <= i) <= j
<1>1. \E k \in T : \A j \in T : k <= j
  BY NatMin
<1> QED
  BY <1>1

LEMMA FirstByTable ==
  ASSUME NEW x, TableOK(opened.symbols), symbols = ByAddress(opened.symbols)
  PROVE  NameDue(x) =
           LET table == opened.symbols
               there == {k \in Kept(table) : table[k].address = x.address}
               first == CHOOSE k \in there : \A j \in there : k <= j
           IN  IF there = {} \/ (\E k \in there : table[k].name = x.name)
               THEN Absent ELSE table[first].name
<1> DEFINE table == opened.symbols
           T == {k \in Kept(table) : table[k].address = x.address}
           S == SymbolsAt(x.address, x.name)
           c == Cardinality(Kept(table))
           firstT == CHOOSE k \in T : \A j \in T : k <= j
           firstS == CHOOSE k \in S : \A j \in S : k <= j
<1>1. PICK order : InOrder(table, order)
  BY ByAddressOrders
<1>2. /\ c \in Nat /\ Kept(table) \subseteq 1..Len(table) /\ order \in [1..c -> Kept(table)]
      /\ symbols = [n \in 1..c |-> table[order[n]]]
      /\ \A i, j \in 1..c :
           i < j => \/ table[order[i]].address < table[order[j]].address
                    \/ table[order[i]].address = table[order[j]].address /\ order[i] < order[j]
      /\ \A k \in Kept(table) : \E n \in 1..c : order[n] = k
  BY <1>1, ByAddressOrders DEF InOrder
<1>3. \A k \in 1..Len(table) : table[k].address \in Nat /\ k \in Nat
  BY SeqLen DEF TableOK
<1>4. NameDue(x) = IF S = {} \/ \E k \in S : symbols[k].name = x.name THEN Absent
                   ELSE symbols[firstS].name
  BY DEF NameDue
<1>5. \A n : n \in S <=> n \in 1..c /\ symbols[n].address = x.address
  BY <1>2 DEF SymbolsAt
<1>6. \A k : k \in T <=> k \in Kept(table) /\ table[k].address = x.address
  OBVIOUS
<1> SUFFICES NameDue(x) = IF T = {} \/ \E k \in T : table[k].name = x.name THEN Absent
                          ELSE table[firstT].name
  OBVIOUS
<1> HIDE DEF S, T, c, table
<1>7. \A n \in 1..c : /\ order[n] \in Kept(table) /\ symbols[n] = table[order[n]]
                      /\ order[n] \in Nat
  BY <1>2, <1>3
<1>8. \A n \in S : n \in 1..c /\ order[n] \in T /\ symbols[n].name = table[order[n]].name
  BY <1>5, <1>6, <1>7
<1>9. ASSUME NEW k \in T
      PROVE  \E n \in S : order[n] = k /\ symbols[n].name = table[k].name
  <2>1. k \in Kept(table) /\ table[k].address = x.address
    BY <1>6
  <2>2. PICK n \in 1..c : order[n] = k
    BY <1>2, <2>1
  <2> QED
    BY <1>5, <1>7, <2>1, <2>2
<1>10. S = {} <=> T = {}
  BY <1>8, <1>9
<1>11. (\E k \in S : symbols[k].name = x.name) <=> (\E k \in T : table[k].name = x.name)
  BY <1>8, <1>9
<1>12. ASSUME S # {}
       PROVE  symbols[firstS].name = table[firstT].name
  <2>1. S \subseteq Nat /\ T \subseteq Nat /\ T # {}
    <3>1. \A i \in S : i \in Nat
      <4>1. c \in Nat /\ \A i \in S : i \in 1..c
        BY <1>2, <1>8
      <4> QED
        BY <4>1
    <3>2. \A i \in T : i \in Nat
      BY <1>2, <1>3, <1>6
    <3> QED
      BY <3>1, <3>2, <1>10, <1>12
  <2>2. firstS \in S /\ \A j \in S : firstS <= j
    BY <1>12, <2>1, FirstOf
  <2>3. firstT \in T /\ \A j \in T : firstT <= j
    BY <2>1, FirstOf
  <2> HIDE DEF firstS, firstT
  <2>4. order[firstS] \in T /\ symbols[firstS].name = table[order[firstS]].name
    BY <1>8, <2>2
  <2>5. PICK n \in S : order[n] = firstT
    BY <1>9, <2>3
  <2>6. n \in 1..c /\ firstS \in 1..c /\ firstS <= n
    BY <1>8, <2>2
  <2>7. order[firstS] <= firstT
    <3>1. CASE firstS = n
      BY <2>1, <2>3, <2>5, <3>1
    <3>2. CASE firstS < n
      <4>1. \/ table[order[firstS]].address < table[order[n]].address
            \/ order[firstS] < order[n]
        BY <1>2, <2>6, <3>2
      <4>2. table[order[firstS]].address = x.address /\ table[order[n]].address = x.address
        BY <1>6, <2>3, <2>4, <2>5
      <4>3. table[order[n]].address \in Nat
        BY <1>2, <1>3, <2>6
      <4>4. order[firstS] < order[n]
        BY <4>1, <4>2, <4>3
      <4>5. order[firstS] \in Nat /\ firstT \in Nat
        BY <2>1, <2>3, <2>4
      <4>6. order[n] = firstT
        BY <2>5
      <4> QED
        BY <4>4, <4>5, <4>6
    <3> QED
      BY <1>2, <2>6, <3>1, <3>2
  <2>8. firstT <= order[firstS]
    BY <2>3, <2>4
  <2>9. firstT \in Nat /\ order[firstS] \in Nat
    BY <2>1, <2>3, <2>4
  <2>10. order[firstS] = firstT
    BY <2>7, <2>8, <2>9
  <2> QED
    BY <2>4, <2>10
<1> QED
  BY <1>4, <1>10, <1>11, <1>12

\* Whatever has an address is asked for; what has none has no symbol.
LEMMA NamesAreDue ==
  ASSUME FileInv, Named
  PROVE  \A u \in Places :
           /\ \A k \in 1..Len(ParsedAt(u).functions) :
                units[u].functions[k].symbol = NameDue(ParsedAt(u).functions[k])
           /\ \A k \in 1..Len(ParsedAt(u).variables) :
                units[u].variables[k].symbol = NameDue(ParsedAt(u).variables[k])
<1>1. /\ opened \in SymbolFiles /\ symbols = ByAddress(opened.symbols)
      /\ NamesMatch /\ lookups = <<>>
  BY DEF FileInv, Named, Matched
<1>2. Made = Len(Calls)
  <2>1. Len(lookups) = 0 /\ Len(Calls) \in Nat
    BY <1>1, SeqEmpty, CallsAre
  <2> QED
    BY <2>1 DEF Made
<1>3. \A u \in Places : AllCalled(ElementsOf(Calls), u, ParsedAt(u))
  BY <1>1, CallsAre
<1>4. ASSUME NEW u, NEW list, NEW k, NEW x, NEW c \in ElementsOf(Calls),
             CallFor(c, u, list, k, x)
      PROVE  Asked(u, list, k)
  <2>1. PICK i \in 1..Len(Calls) : c = Calls[i]
    BY ElementIs
  <2>2. Calls[i].unit = u /\ Calls[i].list = list /\ Calls[i].nth = k
    BY <1>4, <2>1 DEF CallFor
  <2> QED
    BY <1>2, <2>1, <2>2 DEF Asked
<1>5. ASSUME NEW x, x.address = Absent
      PROVE  NameDue(x) = Absent
  <2>1. TableOK(symbols)
    BY <1>1, InputParts, ByAddressIs
  <2>2. \A k \in DOMAIN symbols : symbols[k].address \in Nat
    BY <2>1, SeqLen DEF TableOK
  <2>3. SymbolsAt(x.address, x.name) = {}
    BY <1>5, <2>2, AbsentAssumption DEF SymbolsAt
  <2> QED
    BY <2>3 DEF NameDue
<1>6. ASSUME NEW u \in Places, NEW k \in 1..Len(ParsedAt(u).functions)
      PROVE  units[u].functions[k].symbol = NameDue(ParsedAt(u).functions[k])
  <2> DEFINE x == ParsedAt(u).functions[k]
  <2>1. units[u].functions[k].symbol = NameOf(Asked(u, "functions", k), x)
    BY <1>1 DEF NamesMatch
  <2>2. x.address # Absent => \E c \in ElementsOf(Calls) : CallFor(c, u, "functions", k, x)
    BY <1>3 DEF AllCalled
  <2> HIDE DEF x
  <2>3. CASE x.address = Absent
    <3>1. NameDue(x) = Absent
      BY <1>5, <2>3
    <3> QED
      BY <2>1, <3>1 DEF NameOf, x
  <2>4. CASE x.address # Absent
    <3>1. Asked(u, "functions", k)
      BY <1>4, <2>2, <2>4
    <3> QED
      BY <2>1, <3>1 DEF NameOf, x
  <2> QED
    BY <2>3, <2>4
<1>7. ASSUME NEW u \in Places, NEW k \in 1..Len(ParsedAt(u).variables)
      PROVE  units[u].variables[k].symbol = NameDue(ParsedAt(u).variables[k])
  <2> DEFINE x == ParsedAt(u).variables[k]
  <2>1. units[u].variables[k].symbol = NameOf(Asked(u, "variables", k), x)
    BY <1>1 DEF NamesMatch
  <2>2. x.address # Absent => \E c \in ElementsOf(Calls) : CallFor(c, u, "variables", k, x)
    BY <1>3 DEF AllCalled
  <2> HIDE DEF x
  <2>3. CASE x.address = Absent
    <3>1. NameDue(x) = Absent
      BY <1>5, <2>3
    <3> QED
      BY <2>1, <3>1 DEF NameOf, x
  <2>4. CASE x.address # Absent
    <3>1. Asked(u, "variables", k)
      BY <1>4, <2>2, <2>4
    <3> QED
      BY <2>1, <3>1 DEF NameOf, x
  <2> QED
    BY <2>3, <2>4
<1> QED
  BY <1>6, <1>7

LEMMA FileNames == FileInv => NamedByTable
<1> SUFFICES ASSUME FileInv, Named
             PROVE  \A u \in DebugUnits :
                      \A x \in ToSet(units[u].functions) \union ToSet(units[u].variables) :
                        LET table == opened.symbols
                            there == {k \in Kept(table) : table[k].address = x.address}
                            first == CHOOSE k \in there : \A j \in there : k <= j
                        IN  x.symbol = IF there = {} \/ (\E k \in there : table[k].name = x.name)
                                       THEN Absent ELSE table[first].name
  BY DEF NamedByTable
<1>1. /\ opened \in SymbolFiles /\ symbols = ByAddress(opened.symbols) /\ UnitsMatch
  BY DEF FileInv, Named, Matched
<1>2. TableOK(opened.symbols) /\ DebugUnits = Places
  BY <1>1, InputParts DEF DebugUnits, Places
<1> TAKE u \in DebugUnits
<1> TAKE x \in ToSet(units[u].functions) \union ToSet(units[u].variables)
<1> DEFINE p == ParsedAt(u)
<1>3. UnitLike(units[u], p)
  BY <1>1, <1>2 DEF UnitsMatch
<1>4. /\ DOMAIN units[u].functions = 1..Len(p.functions)
      /\ DOMAIN units[u].variables = 1..Len(p.variables)
  <2>1. /\ IsSeq(units[u].functions) /\ Len(units[u].functions) = Len(p.functions)
        /\ IsSeq(units[u].variables) /\ Len(units[u].variables) = Len(p.variables)
    BY <1>3 DEF UnitLike
  <2> QED
    BY <2>1, SeqLen
<1>5. \E y : x.name = y.name /\ x.address = y.address /\ x.symbol = NameDue(y)
  <2>1. CASE x \in ToSet(units[u].functions)
    <3>1. PICK k \in 1..Len(p.functions) : x = units[u].functions[k]
      BY <1>4, <2>1 DEF ToSet
    <3>2. FunctionLike(x, p.functions[k])
      BY <1>3, <3>1 DEF UnitLike
    <3>3. x.symbol = NameDue(p.functions[k])
      BY <1>2, <3>1, NamesAreDue
    <3> QED
      BY <3>2, <3>3, LikeParts
  <2>2. CASE x \in ToSet(units[u].variables)
    <3>1. PICK k \in 1..Len(p.variables) : x = units[u].variables[k]
      BY <1>4, <2>2 DEF ToSet
    <3>2. VariableLike(x, p.variables[k])
      BY <1>3, <3>1 DEF UnitLike
    <3>3. x.symbol = NameDue(p.variables[k])
      BY <1>2, <3>1, NamesAreDue
    <3> QED
      BY <3>2, <3>3, LikeParts
  <2> QED
    BY <2>1, <2>2
<1>6. PICK y : x.name = y.name /\ x.address = y.address /\ x.symbol = NameDue(y)
  BY <1>5
<1>7. NameDue(y) = NameDue(x)
  BY <1>6 DEF NameDue, SymbolsAt
<1> QED
  BY <1>1, <1>2, <1>6, <1>7, FirstByTable

\* "There may be multiple symbols for the same address. If none match the given name, then
\* return the first one" (file/mod.rs): get_symbol, which searches the sorted table, names
\* every function and variable by the first one of the file's table.
THEOREM NamesFromTable == SymbolsSpec => []NamedByTable
  BY FileInvHolds, FileNames, PTL

-----------------------------------------------------------------------------
(***************************************************************************)
(* How often a symbol is in a table, in the sorted symbols and in the unit *)
(* `<symtab>'.                                                             *)
(***************************************************************************)
\* An enumeration without repetitions finds as many places as there are elements.
Enumerates(o, c, I) ==
  /\ c \in Nat /\ o \in [1..c -> I]
  /\ \A i, j \in 1..c : i < j => o[i] # o[j]
  /\ \A k \in I : \E n \in 1..c : o[n] = k

LEMMA SameCount ==
  ASSUME NEW c, NEW I, NEW o, Enumerates(o, c, I), NEW M, M \subseteq I
  PROVE  Cardinality({n \in 1..c : o[n] \in M}) = Cardinality(M)
<1> USE DEF Enumerates
<1> DEFINE N == {n \in 1..c : o[n] \in M}
           f == [n \in N |-> o[n]]
<1>1. IsFiniteSet(N)
  <2>1. IsFiniteSet(1..c)
    BY FS_Interval
  <2> QED
    BY <2>1, FS_Subset
<1>2. \A n \in N : n \in 1..c /\ o[n] \in M
  OBVIOUS
<1>3. \A k \in M : \E n \in N : o[n] = k
  OBVIOUS
<1> HIDE DEF N
<1>4. f \in [N -> M] /\ \A n \in N : f[n] = o[n]
  BY <1>2
<1>5. \A i, j \in N : f[i] = f[j] => i = j
  <2> SUFFICES ASSUME NEW i \in N, NEW j \in N, o[i] = o[j], i # j
               PROVE  FALSE
    BY <1>4
  <2>1. i \in 1..c /\ j \in 1..c
    BY <1>2
  <2>2. i < j \/ j < i
    BY <2>1
  <2> QED
    BY <2>1, <2>2
<1>6. \A k \in M : \E n \in N : f[n] = k
  BY <1>3, <1>4
<1> HIDE DEF f
<1>7. DOMAIN f = N
  BY <1>4
<1>8. f \in Bijection(N, M)
  BY <1>4, <1>5, <1>6, <1>7 DEF Bijection, Injection, Surjection, IsInjective
<1>9. ExistsBijection(N, M)
  BY <1>8 DEF ExistsBijection
<1> QED
  BY <1>1, <1>9, FS_Bijection DEF N

\* Text or not, as the symbols of a kind go to the functions or to the variables.
SameSymbol(t, s) ==
  /\ t.address = s.address /\ t.name = s.name /\ t.size = s.size
  /\ t.kind = "Text" <=> s.kind = "Text"

Alike(table, s) == {k \in Kept(table) : SameSymbol(table[k], s)}
AlikeSorted(s) == {k \in 1..Len(symbols) : SameSymbol(symbols[k], s)}

LEMMA SortedCount ==
  ASSUME NEW s, TableOK(opened.symbols), symbols = ByAddress(opened.symbols)
  PROVE  Cardinality(AlikeSorted(s)) = Cardinality(Alike(opened.symbols, s))
<1> DEFINE table == opened.symbols
           c == Cardinality(Kept(table))
           M == Alike(table, s)
<1>1. PICK order : InOrder(table, order)
  BY ByAddressOrders
<1>2. /\ c \in Nat /\ Kept(table) \subseteq 1..Len(table) /\ order \in [1..c -> Kept(table)]
      /\ symbols = [n \in 1..c |-> table[order[n]]]
      /\ \A i, j \in 1..c :
           i < j => \/ table[order[i]].address < table[order[j]].address
                    \/ table[order[i]].address = table[order[j]].address /\ order[i] < order[j]
      /\ \A k \in Kept(table) : \E n \in 1..c : order[n] = k
  BY <1>1, ByAddressOrders DEF InOrder
<1>3. \A k \in Kept(table) : table[k].address \in Nat /\ k \in Nat
  BY <1>2, SeqLen DEF TableOK
<1>4. Len(symbols) = c
  BY ByAddressIs
<1>5. \A k : k \in M <=> k \in Kept(table) /\ SameSymbol(table[k], s)
  BY DEF Alike
<1> HIDE DEF M, c, table
<1>6. \A i, j \in 1..c : i < j => order[i] # order[j]
  <2> SUFFICES ASSUME NEW i \in 1..c, NEW j \in 1..c, i < j, order[i] = order[j]
               PROVE  FALSE
    OBVIOUS
  <2>1. order[i] \in Kept(table)
    BY <1>2
  <2>2. table[order[i]].address \in Nat /\ order[i] \in Nat
    BY <1>3, <2>1
  <2>3. table[order[i]].address < table[order[i]].address \/ order[i] < order[i]
    BY <1>2
  <2> QED
    BY <2>2, <2>3
<1>7. M \subseteq Kept(table)
  BY <1>5
<1>8. Cardinality({n \in 1..c : order[n] \in M}) = Cardinality(M)
  <2>1. Enumerates(order, c, Kept(table))
    BY <1>2, <1>6 DEF Enumerates
  <2> QED
    BY <1>7, <2>1, SameCount
<1>9. \A n \in 1..c : order[n] \in M <=> SameSymbol(symbols[n], s)
  BY <1>2, <1>5
<1>10. AlikeSorted(s) = {n \in 1..c : order[n] \in M}
  BY <1>4, <1>9 DEF AlikeSorted
<1> QED
  BY <1>8, <1>10 DEF M, table

LEMMA PlacesEnumerate ==
  ASSUME NEW s, IsSeq(s), NEW I, I \subseteq 1..Len(s), NEW order, InPlaces(s, I, order)
  PROVE  Enumerates(order, Cardinality(I), I)
<1> DEFINE c == Cardinality(I)
<1>1. c \in Nat
  BY PickedPlaces
<1>2. /\ order \in [1..c -> I]
      /\ \A i, j \in 1..c : i < j => order[i] < order[j]
      /\ \A k \in I : \E n \in 1..c : order[n] = k
  BY DEF InPlaces
<1> HIDE DEF c
<1>3. \A i \in I : i \in Nat
  BY SeqLen
<1>4. \A i, j \in 1..c : i < j => order[i] # order[j]
  <2> SUFFICES ASSUME NEW i \in 1..c, NEW j \in 1..c, i < j, order[i] = order[j]
               PROVE  FALSE
    OBVIOUS
  <2>1. order[i] \in Nat /\ order[i] < order[i]
    BY <1>2, <1>3
  <2> QED
    BY <2>1
<1>5. Enumerates(order, c, I)
  BY <1>1, <1>2, <1>4 DEF Enumerates
<1> QED
  BY <1>5 DEF c

\* What `<symtab>' has of the free symbols: its functions are those of the places F.
Unused == {k \in DOMAIN symbols : ~used[k]}
UnusedText == {k \in Unused : symbols[k].kind = "Text"}
UnusedData == {k \in Unused : symbols[k].kind # "Text"}

LEMMA SymtabLists ==
  ASSUME TableOK(symbols)
  PROVE  /\ UnusedText \subseteq 1..Len(symbols) /\ UnusedData \subseteq 1..Len(symbols)
         /\ \A order : InPlaces(symbols, UnusedText, order) =>
              /\ DOMAIN SymtabUnit.functions = 1..Cardinality(UnusedText)
              /\ \A n \in 1..Cardinality(UnusedText) :
                   /\ SymtabUnit.functions[n].name = symbols[order[n]].name
                   /\ SymtabUnit.functions[n].ranges = <<Extent(symbols[order[n]])>>
         /\ \A order : InPlaces(symbols, UnusedData, order) =>
              /\ DOMAIN SymtabUnit.variables = 1..Cardinality(UnusedData)
              /\ \A n \in 1..Cardinality(UnusedData) :
                   /\ SymtabUnit.variables[n].name = symbols[order[n]].name
                   /\ SymtabUnit.variables[n].address = symbols[order[n]].address
                   /\ SymtabUnit.variables[n].size = symbols[order[n]].size
<1> DEFINE funs == Picked(symbols, UnusedText)
           datas == Picked(symbols, UnusedData)
           fs == [k \in DOMAIN funs |->
                    [name |-> funs[k].name, address |-> funs[k].address, symbol |-> Absent,
                     ranges |-> <<Extent(funs[k])>>]]
           vs == [k \in DOMAIN datas |->
                    [name |-> datas[k].name, address |-> datas[k].address, symbol |-> Absent,
                     size |-> datas[k].size]]
<1>1. SymtabUnit.functions = fs /\ SymtabUnit.variables = vs
  BY DEF SymtabUnit, UnusedText, UnusedData, Unused
<1>2. UnusedText \subseteq 1..Len(symbols) /\ UnusedData \subseteq 1..Len(symbols)
  BY SeqLen DEF TableOK, UnusedText, UnusedData, Unused
<1>3. ASSUME NEW order, InPlaces(symbols, UnusedText, order)
      PROVE  /\ DOMAIN fs = 1..Cardinality(UnusedText)
             /\ \A n \in 1..Cardinality(UnusedText) :
                  /\ fs[n].name = symbols[order[n]].name
                  /\ fs[n].ranges = <<Extent(symbols[order[n]])>>
  <2>1. funs = [n \in 1..Cardinality(UnusedText) |-> symbols[order[n]]]
    BY <1>3 DEF InPlaces
  <2> HIDE DEF funs
  <2>2. /\ DOMAIN funs = 1..Cardinality(UnusedText)
        /\ \A n \in 1..Cardinality(UnusedText) : funs[n] = symbols[order[n]]
    BY <2>1
  <2>3. /\ DOMAIN fs = 1..Cardinality(UnusedText)
        /\ \A n \in 1..Cardinality(UnusedText) :
             fs[n].name = funs[n].name /\ fs[n].ranges = <<Extent(funs[n])>>
    BY <2>2
  <2> HIDE DEF fs
  <2> QED
    BY <2>2, <2>3
<1>4. ASSUME NEW order, InPlaces(symbols, UnusedData, order)
      PROVE  /\ DOMAIN vs = 1..Cardinality(UnusedData)
             /\ \A n \in 1..Cardinality(UnusedData) :
                  /\ vs[n].name = symbols[order[n]].name
                  /\ vs[n].address = symbols[order[n]].address
                  /\ vs[n].size = symbols[order[n]].size
  <2>1. datas = [n \in 1..Cardinality(UnusedData) |-> symbols[order[n]]]
    BY <1>4 DEF InPlaces
  <2> HIDE DEF datas
  <2>2. /\ DOMAIN datas = 1..Cardinality(UnusedData)
        /\ \A n \in 1..Cardinality(UnusedData) : datas[n] = symbols[order[n]]
    BY <2>1
  <2>3. /\ DOMAIN vs = 1..Cardinality(UnusedData)
        /\ \A n \in 1..Cardinality(UnusedData) :
             /\ vs[n].name = datas[n].name /\ vs[n].address = datas[n].address
             /\ vs[n].size = datas[n].size
    BY <2>2
  <2> HIDE DEF vs
  <2> QED
    BY <2>2, <2>3
<1> HIDE DEF fs, vs
<1> QED
  BY <1>1, <1>2, <1>3, <1>4

\* At the end a symbol is used if and only if something of the debug info begins there.
LEMMA CalledBegins ==
  ASSUME FileInv, Named, NEW a \in Nat
  PROVE  (\E i \in 1..Len(Calls) : Calls[i].address = a) <=> a \in Begins
<1>1. opened \in SymbolFiles /\ UnitsMatch
  BY DEF FileInv, Named, Matched
<1>2. DebugUnits = Places
  BY <1>1, InputParts DEF DebugUnits, Places
<1>3. \A u \in Places :
        /\ UnitLike(units[u], ParsedAt(u)) /\ UnitShape(ParsedAt(u)) /\ UnitShape(units[u])
        /\ AllCalled(ElementsOf(Calls), u, ParsedAt(u)) /\ UnitInputOK(opened.units[u])
  BY <1>1, CallsAre, LikeShape DEF UnitsMatch
<1>4. a # Absent
  BY AbsentAssumption
<1>5. ASSUME NEW u \in Places
      PROVE  /\ DOMAIN units[u].functions = 1..Len(ParsedAt(u).functions)
             /\ DOMAIN units[u].variables = 1..Len(ParsedAt(u).variables)
             /\ \A k \in 1..Len(ParsedAt(u).functions) :
                  /\ units[u].functions[k].address = ParsedAt(u).functions[k].address
                  /\ units[u].functions[k].ranges = ParsedAt(u).functions[k].ranges
             /\ \A k \in 1..Len(ParsedAt(u).variables) :
                  units[u].variables[k].address = ParsedAt(u).variables[k].address
  <2> DEFINE p == ParsedAt(u)
             w == units[u]
  <2>1. UnitLike(w, p)
    BY <1>3
  <2> HIDE DEF p, w
  <2>2. /\ IsSeq(w.functions) /\ Len(w.functions) = Len(p.functions)
        /\ IsSeq(w.variables) /\ Len(w.variables) = Len(p.variables)
        /\ \A k \in 1..Len(p.functions) : FunctionLike(w.functions[k], p.functions[k])
        /\ \A k \in 1..Len(p.variables) : VariableLike(w.variables[k], p.variables[k])
    BY <2>1 DEF UnitLike
  <2>3. DOMAIN w.functions = 1..Len(p.functions) /\ DOMAIN w.variables = 1..Len(p.variables)
    BY <2>2, SeqLen
  <2>4. \A k \in 1..Len(p.functions) : /\ w.functions[k].address = p.functions[k].address
                                       /\ w.functions[k].ranges = p.functions[k].ranges
    BY <2>2, LikeParts
  <2>5. \A k \in 1..Len(p.variables) : w.variables[k].address = p.variables[k].address
    BY <2>2, LikeParts
  <2> QED
    BY <2>3, <2>4, <2>5 DEF p, w
\* The ranges of a unit's functions, one behind the other.
<1>6. ASSUME NEW u \in Places, NEW r
      PROVE  r \in ToSet(FunctionRanges(units[u])) <=>
               \E k \in 1..Len(ParsedAt(u).functions) :
                 \E j \in 1..Len(ParsedAt(u).functions[k].ranges) :
                   r = ParsedAt(u).functions[k].ranges[j]
  <2> DEFINE fs == units[u].functions
             c == Len(ParsedAt(u).functions)
             seqs == [k \in DOMAIN fs |-> fs[k].ranges]
  <2>1. FunctionRanges(units[u]) = Flattened(seqs)
    BY DEF FunctionRanges
  <2>2. /\ DOMAIN fs = 1..c
        /\ \A k \in 1..c : fs[k].ranges = ParsedAt(u).functions[k].ranges
    BY <1>5
  <2>3. c \in Nat /\ \A k \in 1..c : ParsedAt(u).functions[k].ranges \in Seq(NatRange)
    BY <1>3, SeqLen DEF UnitShape
  <2> HIDE DEF fs, c
  <2>4. DOMAIN seqs = 1..c /\ \A k \in 1..c : seqs[k] = ParsedAt(u).functions[k].ranges
    BY <2>2
  <2>5. seqs = [k \in DOMAIN seqs |-> seqs[k]]
    OBVIOUS
  <2> HIDE DEF seqs
  <2>6. IsSeq(seqs) /\ Len(seqs) = c
    BY <2>3, <2>4, <2>5, FunctionIsSeq
  <2>7. \A k \in 1..c : IsSeq(seqs[k])
    BY <2>3, <2>4 DEF IsSeq
  <2>8. /\ IsSeq(Flattened(seqs))
        /\ r \in ElementsOf(Flattened(seqs)) <=> \E k \in 1..c : r \in ElementsOf(seqs[k])
    BY <2>6, <2>7, ElementsFlattened
  <2>9. ToSet(Flattened(seqs)) = ElementsOf(Flattened(seqs))
    BY <2>8, SeqLen DEF ToSet, ElementsOf
  <2>10. \A k \in 1..c : r \in ElementsOf(seqs[k]) <=>
           \E j \in 1..Len(ParsedAt(u).functions[k].ranges) :
             r = ParsedAt(u).functions[k].ranges[j]
    BY <2>4, ElementIs
  <2> QED
    BY <2>1, <2>8, <2>9, <2>10 DEF c
<1>7. a \in Begins <=>
        \E u \in Places :
          \/ \E k \in 1..Len(ParsedAt(u).functions) : a = ParsedAt(u).functions[k].address
          \/ \E k \in 1..Len(ParsedAt(u).functions) :
               \E j \in 1..Len(ParsedAt(u).functions[k].ranges) :
                 a = ParsedAt(u).functions[k].ranges[j].begin
          \/ \E k \in 1..Len(ParsedAt(u).variables) : a = ParsedAt(u).variables[k].address
  <2> DEFINE A(u) == {f.address : f \in ToSet(units[u].functions)}
             R(u) == {r.begin : r \in ToSet(FunctionRanges(units[u]))}
             V(u) == {v.address : v \in ToSet(units[u].variables)}
  <2>1. a \in Begins <=> \E u \in Places : a \in A(u) \/ a \in R(u) \/ a \in V(u)
    BY <1>2 DEF Begins
  <2>2. ASSUME NEW u \in Places
        PROVE  a \in A(u) <=> \E k \in 1..Len(ParsedAt(u).functions) :
                               a = ParsedAt(u).functions[k].address
    <3>1. /\ DOMAIN units[u].functions = 1..Len(ParsedAt(u).functions)
          /\ \A k \in 1..Len(ParsedAt(u).functions) :
               units[u].functions[k].address = ParsedAt(u).functions[k].address
      BY <1>5
    <3>2. a \in A(u) <=> \E k \in DOMAIN units[u].functions : a = units[u].functions[k].address
      BY DEF ToSet
    <3> HIDE DEF A
    <3> QED
      BY <3>1, <3>2
  <2>3. ASSUME NEW u \in Places
        PROVE  a \in R(u) <=> \E k \in 1..Len(ParsedAt(u).functions) :
                               \E j \in 1..Len(ParsedAt(u).functions[k].ranges) :
                                 a = ParsedAt(u).functions[k].ranges[j].begin
    <3>1. a \in R(u) <=> \E r \in ToSet(FunctionRanges(units[u])) : a = r.begin
      OBVIOUS
    <3> HIDE DEF R
    <3>2. \A r : r \in ToSet(FunctionRanges(units[u])) <=>
                  \E k \in 1..Len(ParsedAt(u).functions) :
                    \E j \in 1..Len(ParsedAt(u).functions[k].ranges) :
                      r = ParsedAt(u).functions[k].ranges[j]
      BY <1>6
    <3> QED
      BY <3>1, <3>2
  <2>4. ASSUME NEW u \in Places
        PROVE  a \in V(u) <=> \E k \in 1..Len(ParsedAt(u).variables) :
                               a = ParsedAt(u).variables[k].address
    <3>1. /\ DOMAIN units[u].variables = 1..Len(ParsedAt(u).variables)
          /\ \A k \in 1..Len(ParsedAt(u).variables) :
               units[u].variables[k].address = ParsedAt(u).variables[k].address
      BY <1>5
    <3>2. a \in V(u) <=> \E k \in DOMAIN units[u].variables : a = units[u].variables[k].address
      BY DEF ToSet
    <3> HIDE DEF V
    <3> QED
      BY <3>1, <3>2
  <2> HIDE DEF A, R, V
  <2> QED
    BY <2>1, <2>2, <2>3, <2>4
<1>8. ASSUME NEW i \in 1..Len(Calls), Calls[i].address = a
      PROVE  a \in Begins
  <2>1. Calls[i] \in ElementsOf(Calls)
    BY ElementIs
  <2>2. PICK u \in Places : CallOf(Calls[i], u, ParsedAt(u))
    BY <1>1, <2>1, CallsAre
  <2> DEFINE p == ParsedAt(u)
  <2>3. CASE \E k \in 1..Len(p.functions) :
               CallFor(Calls[i], u, "functions", k, p.functions[k])
    BY <1>7, <1>8, <2>3 DEF CallFor
  <2>4. CASE \E k \in 1..Len(p.functions) : CallLater(Calls[i], p.functions[k])
    <3>1. PICK k \in 1..Len(p.functions) :
            \E j \in 2..Len(p.functions[k].ranges) : a = p.functions[k].ranges[j].begin
      BY <1>8, <2>4 DEF CallLater
    <3>2. PICK j \in 2..Len(p.functions[k].ranges) : a = p.functions[k].ranges[j].begin
      BY <3>1
    <3>3. j \in 1..Len(p.functions[k].ranges)
      OBVIOUS
    <3> QED
      BY <1>7, <3>2, <3>3
  <2>5. CASE \E k \in 1..Len(p.variables) :
               CallFor(Calls[i], u, "variables", k, p.variables[k])
    BY <1>7, <1>8, <2>5 DEF CallFor
  <2> QED
    BY <2>2, <2>3, <2>4, <2>5 DEF CallOf
<1>9. ASSUME a \in Begins
      PROVE  \E c \in ElementsOf(Calls) : c.address = a
  <2>1. PICK u \in Places :
          \/ \E k \in 1..Len(ParsedAt(u).functions) : a = ParsedAt(u).functions[k].address
          \/ \E k \in 1..Len(ParsedAt(u).functions) :
               \E j \in 1..Len(ParsedAt(u).functions[k].ranges) :
                 a = ParsedAt(u).functions[k].ranges[j].begin
          \/ \E k \in 1..Len(ParsedAt(u).variables) : a = ParsedAt(u).variables[k].address
    BY <1>7, <1>9
  <2> DEFINE p == ParsedAt(u)
  <2>2. AllCalled(ElementsOf(Calls), u, p)
    BY <1>3
  <2>3. CASE \E k \in 1..Len(p.functions) : a = p.functions[k].address
    <3>1. PICK k \in 1..Len(p.functions) : a = p.functions[k].address
      BY <2>3
    <3> HIDE DEF p
    <3>2. \E c \in ElementsOf(Calls) : CallFor(c, u, "functions", k, p.functions[k])
      BY <1>4, <2>2, <3>1 DEF AllCalled
    <3> QED
      BY <3>1, <3>2 DEF CallFor
  <2>4. CASE \E k \in 1..Len(p.functions) :
               \E j \in 1..Len(p.functions[k].ranges) : a = p.functions[k].ranges[j].begin
    <3>1. PICK k \in 1..Len(p.functions) :
            \E j \in 1..Len(p.functions[k].ranges) : a = p.functions[k].ranges[j].begin
      BY <2>4
    <3>2. PICK j \in 1..Len(p.functions[k].ranges) : a = p.functions[k].ranges[j].begin
      BY <3>1
    <3> DEFINE f == p.functions[k]
    <3>3. f.ranges # <<>> => f.address = f.ranges[1].begin
      BY <1>3, ParsedUnitIs DEF ParsedAt
    <3>4. f.ranges \in Seq(NatRange)
      BY <1>3 DEF UnitShape
    <3>5. f.address # Absent =>
            /\ \E c \in ElementsOf(Calls) : CallFor(c, u, "functions", k, f)
            /\ \A i \in 2..Len(f.ranges) :
                 \E c \in ElementsOf(Calls) : c.address = f.ranges[i].begin
      BY <2>2 DEF AllCalled
    <3>6. j \in 1..Len(f.ranges) /\ a = f.ranges[j].begin
      BY <3>2
    <3> HIDE DEF f
    <3>7. f.ranges # <<>> /\ f.ranges[1] \in NatRange
      BY <3>4, <3>6
    <3>8. f.address = f.ranges[1].begin /\ f.address # Absent
      BY <3>3, <3>7, AbsentAssumption DEF NatRange
    <3>9. CASE j = 1
      BY <3>5, <3>6, <3>8, <3>9 DEF CallFor
    <3>10. CASE j # 1
      <4>1. j \in 2..Len(f.ranges)
        BY <3>6, <3>10
      <4> QED
        BY <3>5, <3>6, <3>8, <4>1
    <3> QED
      BY <3>9, <3>10
  <2>5. CASE \E k \in 1..Len(p.variables) : a = p.variables[k].address
    <3>1. PICK k \in 1..Len(p.variables) : a = p.variables[k].address
      BY <2>5
    <3> HIDE DEF p
    <3>2. \E c \in ElementsOf(Calls) : CallFor(c, u, "variables", k, p.variables[k])
      BY <1>4, <2>2, <3>1 DEF AllCalled
    <3> QED
      BY <3>1, <3>2 DEF CallFor
  <2> QED
    BY <2>1, <2>3, <2>4, <2>5
<1> QED
  BY <1>8, <1>9, ElementIs

FreeAlike(s) == {k \in Unused : SameSymbol(symbols[k], s)}

\* Of the symbols like s, all are free or none is.
LEMMA FreeCount ==
  ASSUME FileInv, Named, NEW s, s.address \in Nat
  PROVE  Cardinality(FreeAlike(s)) = IF s.address \in Begins THEN 0
                                     ELSE Cardinality(Alike(opened.symbols, s))
<1>1. /\ opened \in SymbolFiles /\ symbols = ByAddress(opened.symbols)
      /\ UsedMatch /\ lookups = <<>>
  BY DEF FileInv, Named, Matched
<1>2. TableOK(opened.symbols) /\ TableOK(symbols)
  BY <1>1, InputParts, ByAddressIs
<1>3. DOMAIN symbols = 1..Len(symbols)
  BY <1>2, SeqLen DEF TableOK
<1>4. Made = Len(Calls)
  <2>1. Len(lookups) = 0 /\ Len(Calls) \in Nat
    BY <1>1, SeqEmpty, CallsAre
  <2> QED
    BY <2>1 DEF Made
<1>5. \A k \in DOMAIN symbols : used[k] <=> symbols[k].address \in Begins
  <2> TAKE k \in DOMAIN symbols
  <2>1. symbols[k].address \in Nat
    BY <1>2, <1>3 DEF TableOK
  <2>2. used[k] <=> \E i \in 1..Len(Calls) : Calls[i].address = symbols[k].address
    BY <1>1, <1>4 DEF UsedMatch
  <2> QED
    BY <2>1, <2>2, CalledBegins
<1>6. CASE s.address \in Begins
  <2>1. FreeAlike(s) = {}
    BY <1>5, <1>6 DEF FreeAlike, Unused, SameSymbol
  <2> QED
    BY <1>6, <2>1, FS_EmptySet
<1>7. CASE s.address \notin Begins
  <2>1. FreeAlike(s) = AlikeSorted(s)
    BY <1>3, <1>5, <1>7 DEF FreeAlike, AlikeSorted, Unused, SameSymbol
  <2> QED
    BY <1>1, <1>2, <1>7, <2>1, SortedCount
<1> QED
  BY <1>6, <1>7

\* The two lists of `<symtab>'.
LEMMA SymtabCount ==
  ASSUME TableOK(symbols), NEW s, s.address \in Nat, s.size \in Nat
  PROVE  /\ s.kind = "Text" =>
              Cardinality({k \in DOMAIN SymtabUnit.functions :
                             /\ SymtabUnit.functions[k].name = s.name
                             /\ SymtabUnit.functions[k].ranges = <<Extent(s)>>})
                = Cardinality(FreeAlike(s))
         /\ s.kind # "Text" =>
              Cardinality({k \in DOMAIN SymtabUnit.variables :
                             /\ SymtabUnit.variables[k].name = s.name
                             /\ SymtabUnit.variables[k].address = s.address
                             /\ SymtabUnit.variables[k].size = s.size})
                = Cardinality(FreeAlike(s))
<1>1. /\ IsSeq(symbols)
      /\ \A k \in 1..Len(symbols) : symbols[k].address \in Nat /\ symbols[k].size \in Nat
  BY DEF TableOK
<1>2. ASSUME s.kind = "Text"
      PROVE  Cardinality({k \in DOMAIN SymtabUnit.functions :
                            /\ SymtabUnit.functions[k].name = s.name
                            /\ SymtabUnit.functions[k].ranges = <<Extent(s)>>})
               = Cardinality(FreeAlike(s))
  <2> DEFINE fs == SymtabUnit.functions
             c == Cardinality(UnusedText)
             M == FreeAlike(s)
             found == {k \in DOMAIN fs : fs[k].name = s.name /\ fs[k].ranges = <<Extent(s)>>}
  <2>1. UnusedText \subseteq 1..Len(symbols)
    BY SymtabLists
  <2>2. PICK order : InPlaces(symbols, UnusedText, order)
    BY <1>1, <2>1, PickedPlaces
  <2>3. /\ DOMAIN fs = 1..c
        /\ \A n \in 1..c : /\ fs[n].name = symbols[order[n]].name
                           /\ fs[n].ranges = <<Extent(symbols[order[n]])>>
    BY <2>2, SymtabLists
  <2>4. \A k : k \in M <=> k \in UnusedText /\ SameSymbol(symbols[k], s)
    BY <1>2 DEF FreeAlike, UnusedText, SameSymbol
  <2>5. \A n \in 1..c : order[n] \in UnusedText
    BY <2>2 DEF InPlaces
  <2>6. \A k \in UnusedText : symbols[k].kind = "Text"
    BY DEF UnusedText
  <2> HIDE DEF fs, M, c
  <2>7. ASSUME NEW n \in 1..c
        PROVE  n \in found <=> order[n] \in M
    <3> DEFINE t == symbols[order[n]]
    <3>1. /\ t.address \in Nat /\ t.size \in Nat /\ t.kind = "Text"
          /\ order[n] \in M <=> SameSymbol(t, s)
      BY <1>1, <2>1, <2>4, <2>5, <2>6
    <3>2. n \in found <=> t.name = s.name /\ <<Extent(t)>> = <<Extent(s)>>
      BY <2>3
    <3> HIDE DEF t
    <3>3. /\ Extent(t).begin = t.address /\ Extent(t).end = t.address + t.size
          /\ Extent(s).begin = s.address /\ Extent(s).end = s.address + s.size
      BY <3>1, ExtentTyped
    <3>4. <<Extent(t)>> = <<Extent(s)>> <=> t.address = s.address /\ t.size = s.size
      <4>1. <<Extent(t)>> = <<Extent(s)>> <=> Extent(t) = Extent(s)
        OBVIOUS
      <4>2. t.address = s.address /\ t.size = s.size => Extent(t) = Extent(s)
        BY DEF Extent
      <4>3. Extent(t) = Extent(s) => t.address = s.address /\ t.size = s.size
        BY <3>1, <3>3
      <4> QED
        BY <4>1, <4>2, <4>3
    <3> QED
      BY <1>2, <3>1, <3>2, <3>4 DEF SameSymbol
  <2>8. found = {n \in 1..c : order[n] \in M}
    BY <2>3, <2>7
  <2>9. M \subseteq UnusedText
    BY <2>4
  <2> HIDE DEF found
  <2>10. Cardinality({n \in 1..c : order[n] \in M}) = Cardinality(M)
    <3>1. Enumerates(order, c, UnusedText)
      BY <1>1, <2>1, <2>2, PlacesEnumerate DEF c
    <3> QED
      BY <2>9, <3>1, SameCount
  <2> QED
    BY <2>8, <2>10 DEF found, fs, M
<1>3. ASSUME s.kind # "Text"
      PROVE  Cardinality({k \in DOMAIN SymtabUnit.variables :
                            /\ SymtabUnit.variables[k].name = s.name
                            /\ SymtabUnit.variables[k].address = s.address
                            /\ SymtabUnit.variables[k].size = s.size})
               = Cardinality(FreeAlike(s))
  <2> DEFINE vs == SymtabUnit.variables
             c == Cardinality(UnusedData)
             M == FreeAlike(s)
             found == {k \in DOMAIN vs : /\ vs[k].name = s.name /\ vs[k].address = s.address
                                         /\ vs[k].size = s.size}
  <2>1. UnusedData \subseteq 1..Len(symbols)
    BY SymtabLists
  <2>2. PICK order : InPlaces(symbols, UnusedData, order)
    BY <1>1, <2>1, PickedPlaces
  <2>3. /\ DOMAIN vs = 1..c
        /\ \A n \in 1..c : /\ vs[n].name = symbols[order[n]].name
                           /\ vs[n].address = symbols[order[n]].address
                           /\ vs[n].size = symbols[order[n]].size
    BY <2>2, SymtabLists
  <2>4. \A k : k \in M <=> k \in UnusedData /\ SameSymbol(symbols[k], s)
    BY <1>3 DEF FreeAlike, UnusedData, SameSymbol
  <2>5. \A n \in 1..c : order[n] \in UnusedData
    BY <2>2 DEF InPlaces
  <2>6. \A k \in UnusedData : symbols[k].kind # "Text"
    BY DEF UnusedData
  <2> HIDE DEF vs, M, c
  <2>7. ASSUME NEW n \in 1..c
        PROVE  n \in found <=> order[n] \in M
    <3> DEFINE t == symbols[order[n]]
    <3>1. t.kind # "Text" /\ (order[n] \in M <=> SameSymbol(t, s))
      BY <2>4, <2>5, <2>6
    <3>2. n \in found <=> t.name = s.name /\ t.address = s.address /\ t.size = s.size
      BY <2>3
    <3> HIDE DEF t
    <3> QED
      BY <1>3, <3>1, <3>2 DEF SameSymbol
  <2>8. found = {n \in 1..c : order[n] \in M}
    BY <2>3, <2>7
  <2>9. M \subseteq UnusedData
    BY <2>4
  <2> HIDE DEF found
  <2>10. Cardinality({n \in 1..c : order[n] \in M}) = Cardinality(M)
    <3>1. Enumerates(order, c, UnusedData)
      BY <1>1, <2>1, <2>2, PlacesEnumerate DEF c
    <3> QED
      BY <2>9, <3>1, SameCount
  <2> QED
    BY <2>8, <2>10 DEF found, vs, M
<1> QED
  BY <1>2, <1>3

LEMMA FileAccounts == FileInv => SymbolsAccountedFor
<1> SUFFICES ASSUME FileInv, Named, NEW s \in ToSet(opened.symbols)
             PROVE  LET all == {k \in Kept(opened.symbols) :
                                  LET t == opened.symbols[k]
                                  IN  /\ t.address = s.address /\ t.name = s.name
                                      /\ t.size = s.size
                                      /\ t.kind = "Text" <=> s.kind = "Text"}
                        funs == {k \in DOMAIN symtab.functions :
                                   LET f == symtab.functions[k]
                                   IN  f.name = s.name /\ f.ranges = <<Extent(s)>>}
                        datas == {k \in DOMAIN symtab.variables :
                                   LET v == symtab.variables[k]
                                   IN  /\ v.name = s.name /\ v.address = s.address
                                       /\ v.size = s.size}
                        expected == IF s.address \in Begins THEN 0 ELSE Cardinality(all)
                    IN  Cardinality(IF s.kind = "Text" THEN funs ELSE datas) = expected
  BY DEF SymbolsAccountedFor
<1> DEFINE all == {k \in Kept(opened.symbols) :
                     LET t == opened.symbols[k]
                     IN  /\ t.address = s.address /\ t.name = s.name /\ t.size = s.size
                         /\ t.kind = "Text" <=> s.kind = "Text"}
<1>1. /\ opened \in SymbolFiles /\ symbols = ByAddress(opened.symbols)
      /\ symtab = SymtabUnit
  BY DEF FileInv, Named, Matched
<1>2. TableOK(opened.symbols) /\ TableOK(symbols)
  BY <1>1, InputParts, ByAddressIs
<1>3. s.address \in Nat /\ s.size \in Nat
  <2>1. PICK k \in DOMAIN opened.symbols : s = opened.symbols[k]
    BY DEF ToSet
  <2> QED
    BY <1>2, <2>1, SeqLen DEF TableOK
<1>4. all = Alike(opened.symbols, s)
  BY DEF Alike, SameSymbol
<1> HIDE DEF all
<1>5. Cardinality(FreeAlike(s)) = IF s.address \in Begins THEN 0 ELSE Cardinality(all)
  BY <1>3, <1>4, FreeCount
<1>6. CASE s.kind = "Text"
  <2>1. Cardinality({k \in DOMAIN symtab.functions : /\ symtab.functions[k].name = s.name
                                                     /\ symtab.functions[k].ranges = <<Extent(s)>>})
          = Cardinality(FreeAlike(s))
    BY <1>1, <1>2, <1>3, <1>6, SymtabCount
  <2> QED
    BY <1>5, <1>6, <2>1 DEF all
<1>7. CASE s.kind # "Text"
  <2>1. Cardinality({k \in DOMAIN symtab.variables : /\ symtab.variables[k].name = s.name
                                                     /\ symtab.variables[k].address = s.address
                                                     /\ symtab.variables[k].size = s.size})
          = Cardinality(FreeAlike(s))
    BY <1>1, <1>2, <1>3, <1>7, SymtabCount
  <2> QED
    BY <1>5, <1>7, <2>1 DEF all
<1> QED
  BY <1>6, <1>7

THEOREM SymbolsCounted == SymbolsSpec => []SymbolsAccountedFor
  BY FileInvHolds, FileAccounts, PTL
=============================================================================
