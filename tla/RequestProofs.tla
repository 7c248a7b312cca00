--------------------------- MODULE RequestProofs ---------------------------
(***************************************************************************)
(* What a client's requests get, for any file.                             *)
(*                                                                         *)
(* The lookup of frame descriptions, for sections with any descriptions in *)
(* any order and for any address.  A search that stops at the last entry   *)
(* that does not begin behind the address finds the description of the     *)
(* address because the table is sorted and its ranges do not overlap; with *)
(* overlaps it may miss one, but never takes a wrong one.                  *)
(*                                                                         *)
(* The conversion of a description, for any programs: what an assembler    *)
(* makes of the directives is what the standard makes of the instructions  *)
(* that have a directive, because it is so of the directives and the       *)
(* instructions so far; and that differs from what the standard makes of   *)
(* all of them only in the rules by an expression.                         *)
(*                                                                         *)
(* The call stack of get_function_details, for any tree: what is active    *)
(* was reached, through origins and what is inlined, from all that is      *)
(* active below it, so more calls than entries are a cycle.                *)
(*                                                                         *)
(* The details that the client gets, for any tree: what is inlined is all  *)
(* there, the origins are, and the lists have each entry once.             *)
(***************************************************************************)
EXTENDS Cfi, Answers, SeqLemmas

\* What Init allows in `section'.
InputOK(sec) ==
  /\ sec.asked.begin \in Nat
  /\ \A s \in Sections :
       /\ IsFiniteSet(DOMAIN sec[s])
       /\ \A k \in DOMAIN sec[s] :
            k \in Nat /\ sec[s][k].begin \in Nat /\ sec[s][k].len \in Nat

\* The table has the descriptions that can be parsed, all of them, by where they begin.
Sorts(sec, t, s) ==
  /\ \E n \in Nat : DOMAIN t = 1..n
  /\ \A j \in DOMAIN t :
       /\ t[j].fde \in DOMAIN sec[s] /\ sec[s][t[j].fde].parses
       /\ t[j].begin = sec[s][t[j].fde].begin
       /\ t[j].end = sec[s][t[j].fde].begin + sec[s][t[j].fde].len
  /\ \A i, j \in DOMAIN t : i < j => t[i].begin <= t[j].begin /\ t[i].fde # t[j].fde
  /\ \A k \in DOMAIN sec[s] : sec[s][k].parses => \E j \in DOMAIN t : t[j].fde = k

LEMMA TableSorts ==
  ASSUME InputOK(section), NEW s \in Sections
  PROVE  Sorts(section, Table(s), s)
<1> DEFINE parsed == {k \in DOMAIN section[s] : section[s][k].parses}
           range(k) == [begin |-> section[s][k].begin,
                        end |-> section[s][k].begin + section[s][k].len]
           before == {p \in parsed \X parsed :
                        \/ RangeBefore(range(p[1]), range(p[2]))
                        \/ range(p[1]) = range(p[2]) /\ p[1] < p[2]}
           order == Arrange(parsed, before)
           N == 1..Cardinality(parsed)
<1>1. IsFiniteSet(parsed) /\ Cardinality(parsed) \in Nat
  <2>1. IsFiniteSet(DOMAIN section[s]) /\ parsed \subseteq DOMAIN section[s]
    BY DEF InputOK
  <2> HIDE DEF parsed
  <2>2. IsFiniteSet(parsed)
    BY <2>1, FS_Subset
  <2> QED
    BY <2>2, FS_CardinalityType
<1>2. \A k \in parsed : /\ k \in Nat /\ range(k).begin \in Nat /\ range(k).end \in Nat
                        /\ k \in DOMAIN section[s] /\ section[s][k].parses
  BY DEF InputOK
<1>3. \A i, j \in parsed : <<i, j>> \in before <=>
        \/ range(i).begin < range(j).begin
        \/ range(i).begin = range(j).begin /\ range(i).end < range(j).end
        \/ range(i).begin = range(j).begin /\ range(i).end = range(j).end /\ i < j
  BY DEF RangeBefore
<1>4. Table(s) = [j \in DOMAIN order |-> [begin |-> range(order[j]).begin,
                                          end |-> range(order[j]).end, fde |-> order[j]]]
  BY DEF Table
<1>5. \A k : range(k).begin = section[s][k].begin
             /\ range(k).end = section[s][k].begin + section[s][k].len
  OBVIOUS
<1>6. \A k \in DOMAIN section[s] : section[s][k].parses => k \in parsed
  OBVIOUS
<1> HIDE DEF parsed, range, before, order
<1>7. Strict(parsed, before)
  <2>1. ASSUME NEW i \in parsed, NEW j \in parsed, NEW k \in parsed,
               <<i, j>> \in before, <<j, k>> \in before
        PROVE  <<i, k>> \in before
    <3> DEFINE bi == range(i).begin
               bj == range(j).begin
               bk == range(k).begin
               ei == range(i).end
               ej == range(j).end
               ek == range(k).end
    <3>1. /\ bi < bj \/ (bi = bj /\ ei < ej) \/ (bi = bj /\ ei = ej /\ i < j)
          /\ bj < bk \/ (bj = bk /\ ej < ek) \/ (bj = bk /\ ej = ek /\ j < k)
      BY <1>3, <2>1
    <3>2. /\ bi \in Nat /\ bj \in Nat /\ bk \in Nat /\ ei \in Nat /\ ej \in Nat /\ ek \in Nat
          /\ i \in Nat /\ j \in Nat /\ k \in Nat
      BY <1>2
    <3> HIDE DEF bi, bj, bk, ei, ej, ek
    <3>3. bi < bk \/ (bi = bk /\ ei < ek) \/ (bi = bk /\ ei = ek /\ i < k)
      BY <3>1, <3>2
    <3> QED
      BY <1>3, <3>3 DEF bi, bk, ei, ek
  <2>2. ASSUME NEW i \in parsed, NEW j \in parsed, i # j
        PROVE  <<i, j>> \in before \/ <<j, i>> \in before
    <3> DEFINE bi == range(i).begin
               bj == range(j).begin
               ei == range(i).end
               ej == range(j).end
    <3>1. /\ bi \in Nat /\ bj \in Nat /\ ei \in Nat /\ ej \in Nat /\ i \in Nat /\ j \in Nat
      BY <1>2
    <3> HIDE DEF bi, bj, ei, ej
    <3>2. \/ bi < bj \/ (bi = bj /\ ei < ej) \/ (bi = bj /\ ei = ej /\ i < j)
          \/ bj < bi \/ (bj = bi /\ ej < ei) \/ (bj = bi /\ ej = ei /\ j < i)
      BY <2>2, <3>1
    <3> QED
      BY <1>3, <3>2 DEF bi, bj, ei, ej
  <2>3. ASSUME NEW i \in parsed
        PROVE  <<i, i>> \notin before
    <3>1. /\ ~(range(i).begin < range(i).begin) /\ ~(range(i).end < range(i).end) /\ ~(i < i)
      BY <1>2
    <3> QED
      BY <1>3, <3>1
  <2> QED
    BY <2>1, <2>2, <2>3 DEF Strict
<1>8. /\ order \in [N -> parsed]
      /\ \A i, j \in N : i < j => <<order[i], order[j]>> \in before
      /\ \A k \in parsed : \E n \in N : order[n] = k
  BY <1>1, <1>7, ArrangeSorts DEF order
<1>9. DOMAIN order = N /\ \A j \in N : order[j] \in parsed
  BY <1>8
<1> DEFINE t == Table(s)
<1>10. /\ DOMAIN t = N
       /\ \A j \in N : /\ t[j].fde = order[j] /\ t[j].begin = section[s][order[j]].begin
                       /\ t[j].end = section[s][order[j]].begin + section[s][order[j]].len
  BY <1>4, <1>5, <1>9
<1> HIDE DEF t, N
<1>11. ASSUME NEW i \in N, NEW j \in N, i < j
       PROVE  t[i].begin <= t[j].begin /\ t[i].fde # t[j].fde
  <2>1. <<order[i], order[j]>> \in before
    BY <1>8, <1>11
  <2>2. range(order[i]).begin \in Nat /\ range(order[j]).begin \in Nat
    BY <1>2, <1>9
  <2>3. range(order[i]).begin < range(order[j]).begin
        \/ range(order[i]).begin = range(order[j]).begin
    BY <1>3, <1>9, <2>1
  <2>4. order[i] # order[j]
    BY <1>7, <1>9, <2>1 DEF Strict
  <2> QED
    BY <1>5, <1>10, <2>2, <2>3, <2>4
<1>12. ASSUME NEW k \in DOMAIN section[s], section[s][k].parses
       PROVE  \E j \in N : t[j].fde = k
  BY <1>6, <1>8, <1>10, <1>12
<1>13. \E n \in Nat : DOMAIN t = 1..n
  BY <1>1, <1>10 DEF N
<1> QED
  BY <1>2, <1>9, <1>10, <1>11, <1>12, <1>13 DEF Sorts, t

-----------------------------------------------------------------------------
asked == section.asked.begin

\* What an entry of the table gives is about the address.
LEMMA UsableDescribes ==
  ASSUME NEW s \in Sections, Sorts(section, tables[s], s), NEW k \in DOMAIN tables[s], Usable(s, k)
  PROVE  tables[s][k].fde \in DOMAIN section[s] /\ Describes(s, tables[s][k].fde)
  BY DEF Sorts, Usable, Describes, Covers

LEMMA HitsAreEntries ==
  ASSUME NEW t, NEW a
  PROVE  Hits(t, a) \subseteq DOMAIN t
  BY DEF Hits

\* Where no description hides another the search ends at the one that is about the
\* address, wherever binary_search_by_key may end.
LEMMA SearchEndsThere ==
  ASSUME InputOK(section), NEW s \in Sections, Sorts(section, tables[s], s), WellFormed(s),
         NEW d \in DOMAIN section[s], Describes(s, d)
  PROVE  /\ Hits(tables[s], asked) # {}
         /\ \A h \in Hits(tables[s], asked) : tables[s][h].fde = d /\ Usable(s, h)
<1> DEFINE t == tables[s]
           a == asked
           x(k) == section[s][k]
           b(k) == section[s][k].begin
           e(k) == section[s][k].begin + section[s][k].len
           at == {k \in DOMAIN t : t[k].begin = a}
           before == {k \in DOMAIN t : t[k].begin < a}
<1>1. /\ \E n \in Nat : DOMAIN t = 1..n
      /\ \A j \in DOMAIN t : /\ t[j].fde \in DOMAIN section[s] /\ x(t[j].fde).parses
                             /\ t[j].begin = b(t[j].fde) /\ t[j].end = e(t[j].fde)
      /\ \A i, j \in DOMAIN t : i < j => t[i].begin <= t[j].begin /\ t[i].fde # t[j].fde
      /\ \A k \in DOMAIN section[s] : x(k).parses => \E j \in DOMAIN t : t[j].fde = k
  BY DEF Sorts
<1>2. a \in Nat /\ \A k \in DOMAIN section[s] : b(k) \in Nat /\ e(k) \in Nat
  BY DEF InputOK, asked
<1>3. x(d).parses /\ x(d).usable /\ b(d) <= a /\ a < e(d)
  BY DEF Describes, Covers, asked
<1>4. ASSUME NEW k \in DOMAIN section[s], x(k).parses
      PROVE  b(k) < e(k) /\ (k # d => e(k) <= b(d) \/ e(d) <= b(k))
  <2>1. x(k).len > 0 /\ x(k).len \in Nat /\ b(k) \in Nat
    BY <1>4 DEF WellFormed, InputOK
  <2>2. k # d => b(k) + x(k).len <= b(d) \/ b(d) + x(d).len <= b(k)
    BY <1>3, <1>4 DEF WellFormed
  <2> QED
    BY <2>1, <2>2
<1>5. PICK j \in DOMAIN t : t[j].fde = d
  BY <1>1, <1>3
<1>6. Hits(t, a) = IF at # {} THEN at ELSE {k \in before : \A i \in before : i <= k}
  BY DEF Hits
<1>7. PICK n \in Nat : DOMAIN t = 1..n
  BY <1>1
<1> DEFINE bt(k) == t[k].begin
<1>8. \A h \in DOMAIN t : /\ t[h].fde \in DOMAIN section[s] /\ x(t[h].fde).parses
                          /\ bt(h) = b(t[h].fde) /\ bt(h) \in Nat
  BY <1>1, <1>2
<1>9. ASSUME NEW h \in at
      PROVE  t[h].fde = d
  <2> SUFFICES ASSUME t[h].fde # d
               PROVE  FALSE
    OBVIOUS
  <2> DEFINE k == t[h].fde
  <2>1. k \in DOMAIN section[s] /\ x(k).parses /\ b(k) = a
    BY <1>1, <1>9
  <2>2. b(k) < e(k) /\ (e(k) <= b(d) \/ e(d) <= b(k))
    BY <1>4, <2>1
  <2>3. b(k) \in Nat /\ e(k) \in Nat /\ b(d) \in Nat /\ e(d) \in Nat
    BY <1>2, <2>1
  <2> HIDE DEF k, b, e, a
  <2> QED
    BY <1>2, <1>3, <2>1, <2>2, <2>3
<1>10. ASSUME at = {}
       PROVE  /\ j \in before
              /\ \A h \in before : (\A i \in before : i <= h) => t[h].fde = d
  <2>1. t[j].begin = b(d) /\ t[j].begin # a
    BY <1>1, <1>5, <1>10
  <2>2. j \in before
    <3> HIDE DEF b, a
    <3>1. t[j].begin < a
      BY <1>2, <1>3, <2>1
    <3> QED
      BY <3>1
  <2>3. ASSUME NEW h \in before, \A i \in before : i <= h
        PROVE  t[h].fde = d
    <3> SUFFICES ASSUME t[h].fde # d
                 PROVE  FALSE
      OBVIOUS
    <3> DEFINE k == t[h].fde
    <3>1. k \in DOMAIN section[s] /\ x(k).parses /\ b(k) = t[h].begin /\ b(k) < a
          /\ h \in DOMAIN t
      BY <1>1, <2>3
    <3>2. j < h
      <4>1. j <= h /\ j # h
        BY <1>5, <2>2, <2>3
      <4>2. j \in Nat /\ h \in Nat
        BY <1>7, <3>1
      <4> QED
        BY <4>1, <4>2
    <3>3. b(d) <= b(k)
      BY <1>1, <2>1, <3>1, <3>2
    <3>4. b(k) < e(k) /\ (e(k) <= b(d) \/ e(d) <= b(k))
      BY <1>4, <3>1
    <3>5. b(k) \in Nat /\ e(k) \in Nat /\ b(d) \in Nat /\ e(d) \in Nat
      BY <1>2, <3>1
    <3> HIDE DEF k, b, e, a
    <3> QED
      BY <1>2, <1>3, <3>1, <3>3, <3>4, <3>5
  <2> QED
    BY <2>2, <2>3
<1>11. \A h \in Hits(t, a) : h \in DOMAIN t /\ t[h].fde = d
  BY <1>6, <1>9, <1>10
<1>12. Hits(t, a) # {}
  <2>1. CASE at # {}
    BY <1>6, <2>1
  <2>2. CASE at = {}
    <3>1. before # {} /\ before \subseteq 0..n
      BY <1>7, <1>10, <2>2
    <3> HIDE DEF before
    <3>2. PICK m \in before : \A i \in before : i <= m
      BY <3>1, NatMax
    <3> QED
      BY <1>6, <2>2, <3>2
  <2> QED
    BY <2>1, <2>2
<1>13. ASSUME NEW h \in Hits(t, a)
       PROVE  Usable(s, h)
  <2>1. h \in DOMAIN t /\ t[h].fde = d /\ t[h].begin = b(d) /\ t[h].end = e(d)
    BY <1>1, <1>11
  <2> QED
    BY <1>3, <2>1 DEF Usable, Covers, asked
<1> QED
  BY <1>11, <1>12, <1>13

-----------------------------------------------------------------------------
(* The invariant: what was found and what was not, section by section. *)
None(s) == \A k \in DOMAIN section[s] : ~(Describes(s, k) /\ WellFormed(s))

Found ==
  \E s \in Sections : \E d \in DOMAIN section[s] :
    /\ found = <<s, d>> /\ Describes(s, d)
    /\ \A k \in DOMAIN section[s] : Describes(s, k) /\ WellFormed(s) => k = d
    /\ s = "debug" => None("eh")

SearchOK ==
  \/ phase = "load" /\ found = NotFound
  \/ phase = "eh" /\ found = NotFound
  \/ phase = "debug" /\ found = NotFound /\ None("eh")
  \/ phase \in {"cie", "fde", "done"} /\ Found
  \/ phase = "done" /\ found = NotFound /\ None("eh") /\ None("debug")

TablesOK == phase # "load" => \A s \in Sections : Sorts(section, tables[s], s)

CfiInv == InputOK(section) /\ TablesOK /\ SearchOK

LEMMA CfiInitInv == CfiInit => CfiInv
<1> SUFFICES ASSUME CfiInit
             PROVE  CfiInv
  OBVIOUS
<1>1. InputOK(section)
  <2>1. section \in FrameInputs
    BY DEF CfiInit
  <2> QED
    BY <2>1, FrameInputsAssumption DEF InputOK
<1> QED
  BY <1>1 DEF CfiInit, CfiInv, TablesOK, SearchOK

\* What is said of the sections and the tables is so after a step that leaves them alone.
LEMMA SectionsKept ==
  ASSUME section' = section
  PROVE  /\ \A s, k : Describes(s, k)' <=> Describes(s, k)
         /\ \A s : WellFormed(s)' <=> WellFormed(s)
         /\ \A s : None(s)' <=> None(s)
<1>1. \A s, k : Describes(s, k)' <=> Describes(s, k)
  BY DEF Describes
<1>2. \A s : WellFormed(s)' <=> WellFormed(s)
  BY DEF WellFormed
<1>3. \A s : None(s)' <=> None(s)
  BY <1>1, <1>2 DEF None
<1> QED
  BY <1>1, <1>2, <1>3

LEMMA TablesKept ==
  ASSUME UNCHANGED <<section, tables>>, \A s \in Sections : Sorts(section, tables[s], s)
  PROVE  TablesOK'
BY DEF TablesOK

\* Once the search is over nothing changes that it depends on.
LEMMA LaterKeeps ==
  ASSUME CfiInv, UNCHANGED <<section, tables, found>>,
         \/ phase = "cie" /\ phase' \in {"cie", "fde"}
         \/ phase = "fde" /\ phase' \in {"fde", "done"}
  PROVE  CfiInv'
<1>1. InputOK(section') /\ TablesOK'
  <2>1. InputOK(section) /\ \A s \in Sections : Sorts(section, tables[s], s)
    BY DEF CfiInv, TablesOK
  <2> QED
    BY <2>1, TablesKept
<1>2. Found
  BY DEF CfiInv, SearchOK
<1>3. Found' <=> Found
  BY SectionsKept DEF Found
<1>4. SearchOK'
  BY <1>2, <1>3 DEF SearchOK
<1> QED
  BY <1>1, <1>4 DEF CfiInv

LEMMA LoadStep ==
  ASSUME CfiInv, Load
  PROVE  CfiInv'
<1>1. /\ InputOK(section) /\ found' = NotFound /\ phase' = "eh" /\ section' = section
      /\ tables' = [s \in Sections |-> Table(s)]
  BY DEF Load, CfiInv, SearchOK
<1>2. InputOK(section')
  BY <1>1 DEF InputOK
<1>3. ASSUME NEW s \in Sections
      PROVE  Sorts(section, tables[s], s)'
  <2>1. Sorts(section, tables'[s], s)
    BY <1>1, TableSorts
  <2> QED
    BY <1>1, <2>1 DEF Sorts
<1>4. SearchOK' /\ TablesOK'
  BY <1>1, <1>3 DEF SearchOK, TablesOK
<1> QED
  BY <1>2, <1>4 DEF CfiInv

LEMMA FindStep ==
  ASSUME CfiInv, NEW s \in Sections, Find(s)
  PROVE  CfiInv'
<1>1. PICK k \in Hits(tables[s], asked) :
        Usable(s, k) /\ found' = <<s, tables[s][k].fde>>
  BY DEF Find, asked
<1>2. /\ phase = s /\ phase' = "cie" /\ section' = section /\ tables' = tables
      /\ InputOK(section) /\ \A r \in Sections : Sorts(section, tables[r], r)
      /\ s = "debug" => None("eh")
  BY DEF Find, CfiInv, TablesOK, SearchOK, Sections
<1>3. PICK d : d = tables[s][k].fde
  OBVIOUS
<1>4. d \in DOMAIN section[s] /\ Describes(s, d)
  BY <1>1, <1>2, <1>3, HitsAreEntries, UsableDescribes
<1>5. ASSUME NEW c \in DOMAIN section[s], Describes(s, c), WellFormed(s)
      PROVE  c = d
  BY <1>1, <1>2, <1>3, <1>5, SearchEndsThere
<1>6. Found'
  <2>1. found' = <<s, d>>
    BY <1>1, <1>3
  <2>2. s = "debug" => None("eh")'
    BY <1>2, SectionsKept
  <2>3. d \in DOMAIN section'[s] /\ Describes(s, d)'
    BY <1>2, <1>4, SectionsKept
  <2>4. \A c \in DOMAIN section'[s] : Describes(s, c)' /\ WellFormed(s)' => c = d
    BY <1>2, <1>5, SectionsKept
  <2> QED
    BY <2>1, <2>2, <2>3, <2>4 DEF Found
<1>7. InputOK(section') /\ TablesOK'
  BY <1>2, TablesKept
<1>8. SearchOK'
  BY <1>2, <1>6 DEF SearchOK
<1> QED
  BY <1>7, <1>8 DEF CfiInv

LEMMA MissesStep ==
  ASSUME CfiInv, NEW s \in Sections, Misses(s)
  PROVE  CfiInv'
<1>1. /\ phase = s /\ phase' = (IF s = "eh" THEN "debug" ELSE "done")
      /\ UNCHANGED <<section, tables, found>>
      /\ InputOK(section) /\ \A r \in Sections : Sorts(section, tables[r], r)
      /\ found = NotFound /\ (s = "debug" => None("eh"))
  BY DEF Misses, CfiInv, TablesOK, SearchOK, Sections
<1>2. \/ Hits(tables[s], asked) = {}
      \/ \E k \in Hits(tables[s], asked) : ~Usable(s, k)
  BY DEF Misses, asked
<1>3. None(s)
  <2> SUFFICES ASSUME NEW k \in DOMAIN section[s], Describes(s, k), WellFormed(s)
               PROVE  FALSE
    BY DEF None
  <2> QED
    BY <1>1, <1>2, SearchEndsThere
<1>4. \A r \in Sections : None(r) => None(r)'
  BY <1>1, SectionsKept
<1>5. InputOK(section') /\ TablesOK'
  BY <1>1, TablesKept
<1>6. s = "eh" \/ s = "debug"
  BY DEF Sections
<1>7. SearchOK'
  <2>1. CASE s = "eh"
    BY <1>1, <1>3, <1>4, <2>1 DEF SearchOK
  <2>2. CASE s = "debug"
    <3>1. "eh" \in Sections /\ None("eh")
      BY <1>1, <2>2 DEF Sections
    <3> QED
      BY <1>1, <1>3, <1>4, <2>2, <3>1 DEF SearchOK
  <2> QED
    BY <1>6, <2>1, <2>2
<1> QED
  BY <1>5, <1>7 DEF CfiInv

LEMMA CfiStep == CfiInv /\ [CfiNext]_cfiVars => CfiInv'
<1> SUFFICES ASSUME CfiInv, [CfiNext]_cfiVars
             PROVE  CfiInv'
  OBVIOUS
<1>1. CASE Load
  BY <1>1, LoadStep
<1>2. ASSUME NEW s \in Sections, Find(s)
      PROVE  CfiInv'
  BY <1>2, FindStep
<1>3. ASSUME NEW s \in Sections, Misses(s)
      PROVE  CfiInv'
  BY <1>3, MissesStep
<1>4. CASE ConvertInitial
  BY <1>4, LaterKeeps DEF ConvertInitial, Convert
<1>5. CASE BeginProgram
  BY <1>5, LaterKeeps DEF BeginProgram
<1>6. CASE ConvertNext
  BY <1>6, LaterKeeps DEF ConvertNext, Convert
<1>7. CASE EndProc
  BY <1>7, LaterKeeps DEF EndProc
<1>8. CASE UNCHANGED cfiVars
  <2>1. UNCHANGED <<section, tables, phase, found>>
    BY <1>8 DEF cfiVars
  <2>2. InputOK(section') /\ TablesOK'
    BY <2>1 DEF CfiInv, TablesOK
  <2>3. \A s : None(s)' <=> None(s)
    BY <2>1, SectionsKept
  <2>4. Found' <=> Found
    BY <2>1, SectionsKept DEF Found
  <2>5. SearchOK'
    BY <2>1, <2>3, <2>4 DEF CfiInv, SearchOK
  <2> QED
    BY <2>2, <2>5 DEF CfiInv
<1> QED
  BY <1>1, <1>2, <1>3, <1>4, <1>5, <1>6, <1>7, <1>8 DEF CfiNext

\* File::cfi looks an address up in both tables: the description it converts is one about
\* the address, whatever the sections hold, and where the descriptions of a section do not
\* overlap it is never missed, that of .eh_frame before that of .debug_frame.
THEOREM LookupIsRight == CfiSpec => []FindsTheDescription
<1>1. CfiInv => FindsTheDescription
  <2> SUFFICES ASSUME CfiInv, phase \in {"cie", "fde", "done"}
               PROVE  /\ found # NotFound => Describes(found[1], found[2])
                      /\ \A s \in Sections : \A k \in DOMAIN section[s] :
                           Describes(s, k) /\ WellFormed(s) =>
                             found = <<s, k>> \/ (s = "debug" /\ found[1] = "eh")
    BY DEF FindsTheDescription
  <2>1. CASE Found
    <3>1. PICK s \in Sections : \E d \in DOMAIN section[s] :
            /\ found = <<s, d>> /\ Describes(s, d)
            /\ \A k \in DOMAIN section[s] : Describes(s, k) /\ WellFormed(s) => k = d
            /\ s = "debug" => None("eh")
      BY <2>1 DEF Found
    <3>2. PICK d \in DOMAIN section[s] :
            /\ found = <<s, d>> /\ Describes(s, d)
            /\ \A k \in DOMAIN section[s] : Describes(s, k) /\ WellFormed(s) => k = d
      BY <3>1
    <3>3. found # NotFound => Describes(found[1], found[2])
      BY <3>2
    <3>4. ASSUME NEW r \in Sections, NEW k \in DOMAIN section[r],
                 Describes(r, k), WellFormed(r)
          PROVE  found = <<r, k>> \/ (r = "debug" /\ found[1] = "eh")
      <4>1. CASE r = s
        BY <3>2, <3>4, <4>1
      <4>2. CASE r # s
        <5>1. ~(r = "eh" /\ s = "debug")
          BY <3>1, <3>4 DEF None
        <5>2. r = "debug" /\ s = "eh"
          BY <4>2, <5>1 DEF Sections
        <5> QED
          BY <3>2, <5>2
      <4> QED
        BY <4>1, <4>2
    <3> QED
      BY <3>3, <3>4
  <2>2. CASE found = NotFound /\ None("eh") /\ None("debug")
    BY <2>2 DEF None, Sections
  <2> QED
    BY <2>1, <2>2 DEF CfiInv, SearchOK
<1> QED
  BY <1>1, CfiInitInv, CfiStep, PTL DEF CfiSpec

-----------------------------------------------------------------------------
(* Runs of an assembler over its directives, step by step. *)
Runs(m, steps, when, n, f) ==
  /\ f[0] = m
  /\ \A k \in 1..n : f[k] = Turn(f[k - 1], steps[k], when)

\* What Run's recursive definition chooses.
IsRun(m, steps, when, n, f) ==
  f = [k \in 0..n |-> IF k = 0 THEN m ELSE Turn(f[k - 1], steps[k], when)]

LEMMA RunsExist ==
  ASSUME NEW m, NEW steps, NEW when, NEW N \in Nat
  PROVE  \E f : IsRun(m, steps, when, N, f)
<1> DEFINE S == {n \in 0..N : \E f : Runs(m, steps, when, n, f)}
<1>1. 0 \in S
  <2>1. Runs(m, steps, when, 0, [k \in 0..0 |-> m])
    BY DEF Runs
  <2> QED
    BY <2>1
<1>2. ASSUME NEW n \in 1..N, n - 1 \in S
      PROVE  n \in S
  <2>1. PICK f : Runs(m, steps, when, n - 1, f)
    BY <1>2
  <2> DEFINE g == [k \in 0..n |-> IF k = n THEN Turn(f[n - 1], steps[n], when) ELSE f[k]]
  <2>2. n \in Nat /\ n \in 0..n /\ n \in 0..N /\ 0 \in 0..n /\ 0 # n
    OBVIOUS
  <2>3. g[n] = Turn(f[n - 1], steps[n], when) /\ \A k \in 0..n : k # n => g[k] = f[k]
    BY <2>2
  <2> HIDE DEF g
  <2>4. g[0] = m
    BY <2>1, <2>2, <2>3 DEF Runs
  <2>5. ASSUME NEW k \in 1..n
        PROVE  g[k] = Turn(g[k - 1], steps[k], when)
    <3>1. k - 1 \in 0..n /\ k - 1 # n /\ k \in 0..n
      BY <2>2
    <3>2. g[k - 1] = f[k - 1]
      BY <2>3, <3>1
    <3>3. CASE k = n
      BY <2>3, <3>2, <3>3
    <3>4. CASE k # n
      <4>1. k \in 1..(n - 1)
        BY <2>2, <3>4
      <4>2. f[k] = Turn(f[k - 1], steps[k], when)
        BY <2>1, <4>1 DEF Runs
      <4> QED
        BY <2>3, <3>1, <3>2, <3>4, <4>2
    <3> QED
      BY <3>3, <3>4
  <2>6. Runs(m, steps, when, n, g)
    BY <2>4, <2>5 DEF Runs
  <2> QED
    BY <2>2, <2>6
<1> HIDE DEF S
<1>3. N \in S
  BY <1>1, <1>2, UpTo
<1>4. PICK f : Runs(m, steps, when, N, f)
  BY <1>3 DEF S
<1> DEFINE g == [k \in 0..N |-> f[k]]
<1>5. \A k \in 0..N : g[k] = IF k = 0 THEN m ELSE Turn(g[k - 1], steps[k], when)
  <2> SUFFICES ASSUME NEW k \in 0..N
               PROVE  g[k] = IF k = 0 THEN m ELSE Turn(g[k - 1], steps[k], when)
    OBVIOUS
  <2>1. g[k] = f[k]
    OBVIOUS
  <2>2. CASE k = 0
    BY <1>4, <2>1, <2>2 DEF Runs
  <2>3. CASE k # 0
    <3>1. k \in 1..N /\ k - 1 \in 0..N
      BY <2>3
    <3>2. g[k - 1] = f[k - 1]
      BY <3>1
    <3> QED
      BY <1>4, <2>1, <2>3, <3>1, <3>2 DEF Runs
  <2> QED
    BY <2>2, <2>3
<1>6. IsRun(m, steps, when, N, g)
  BY <1>5 DEF IsRun
<1> QED
  BY <1>6

LEMMA RunIs ==
  ASSUME NEW m, NEW steps, NEW when, Len(steps) \in Nat
  PROVE  \E f : Runs(m, steps, when, Len(steps), f) /\ Run(m, steps, when) = f[Len(steps)]
<1> DEFINE N == Len(steps)
<1>1. PICK f : IsRun(m, steps, when, N, f) /\ Run(m, steps, when) = f[N]
  <2>1. \E f : IsRun(m, steps, when, N, f)
    BY RunsExist
  <2>2. Run(m, steps, when) = (CHOOSE f : IsRun(m, steps, when, N, f))[N]
    BY DEF Run, IsRun
  <2> HIDE DEF N
  <2> QED
    BY <2>1, <2>2
<1> HIDE DEF N
<1>2. Runs(m, steps, when, N, f)
  BY <1>1 DEF Runs, IsRun, N
<1> QED
  BY <1>1, <1>2 DEF N

\* Runs that do the same so far are the same so far.
LEMMA RunsAgree ==
  ASSUME NEW m, NEW s, NEW t, NEW when, NEW N \in Nat, NEW f, NEW g,
         Runs(m, s, when, N, f), Runs(m, t, when, N, g),
         \A k \in 1..N : \A x : Turn(x, s[k], when) = Turn(x, t[k], when)
  PROVE  f[N] = g[N]
<1> DEFINE S == {n \in 0..N : f[n] = g[n]}
<1>1. 0 \in S
  BY DEF Runs
<1>2. ASSUME NEW n \in 1..N, n - 1 \in S
      PROVE  n \in S
  BY <1>2 DEF Runs
<1> HIDE DEF S
<1>3. N \in S
  BY <1>1, <1>2, UpTo
<1> QED
  BY <1>3 DEF S

LEMMA RunsShorter ==
  ASSUME NEW m, NEW s, NEW when, NEW N \in Nat, NEW M \in 0..N, NEW f, Runs(m, s, when, N, f)
  PROVE  Runs(m, s, when, M, f)
<1>1. \A k \in 1..M : k \in 1..N
  OBVIOUS
<1> QED
  BY <1>1 DEF Runs

\* Steps that do nothing may be left out at the end.
LEMMA RunCut ==
  ASSUME NEW m, NEW s, NEW t, NEW when, Len(s) \in Nat, Len(t) \in 0..Len(s),
         \A k \in 1..Len(t) : s[k] = t[k],
         \A k \in 1..Len(s) : k > Len(t) => \A x : Turn(x, s[k], when) = x
  PROVE  Run(m, s, when) = Run(m, t, when)
<1> DEFINE N == Len(s)
           M == Len(t)
<1>1. N \in Nat /\ M \in Nat /\ M \in 0..N
  OBVIOUS
<1>2. PICK f : Runs(m, s, when, N, f) /\ Run(m, s, when) = f[N]
  BY RunIs
<1>3. PICK g : Runs(m, t, when, M, g) /\ Run(m, t, when) = g[M]
  BY <1>1, RunIs
<1>4. \A k \in 1..M : s[k] = t[k]
  OBVIOUS
<1>5. \A k \in 1..N : k > M => \A x : Turn(x, s[k], when) = x
  OBVIOUS
<1> HIDE DEF N, M
<1>6. f[M] = g[M]
  <2>1. Runs(m, s, when, M, f)
    BY <1>1, <1>2, RunsShorter
  <2> QED
    BY <1>1, <1>3, <1>4, <2>1, RunsAgree
<1> DEFINE S == {n \in 0..N : n >= M => f[n] = f[M]}
<1>7. 0 \in S
  BY <1>1
<1>8. ASSUME NEW n \in 1..N, n - 1 \in S
      PROVE  n \in S
  <2>1. f[n] = Turn(f[n - 1], s[n], when)
    BY <1>2 DEF Runs
  <2>2. n - 1 >= M => f[n - 1] = f[M]
    BY <1>8
  <2>3. n \in 0..N /\ (n = M \/ ~(n >= M) \/ (n - 1 >= M /\ n > M))
    BY <1>1
  <2>4. n >= M => f[n] = f[M]
    BY <1>5, <2>1, <2>2, <2>3
  <2> QED
    BY <2>3, <2>4
<1> HIDE DEF S
<1>9. N \in S
  <2>1. N \in Nat /\ N \in 0..N
    BY <1>1
  <2> QED
    BY <1>7, <1>8, <2>1, UpTo
<1>10. f[N] = f[M]
  BY <1>1, <1>9 DEF S
<1> QED
  BY <1>2, <1>3, <1>6, <1>10

\* One step more.
LEMMA RunMore ==
  ASSUME NEW m, NEW s, NEW t, NEW when, Len(s) \in Nat, Len(t) = Len(s) + 1,
         \A k \in 1..Len(s) : t[k] = s[k]
  PROVE  Run(m, t, when) = Turn(Run(m, s, when), t[Len(t)], when)
<1> DEFINE N == Len(s)
<1>1. N \in Nat /\ N + 1 \in Nat /\ N \in 0..(N + 1) /\ N + 1 \in 1..(N + 1)
      /\ Len(t) = N + 1 /\ (N + 1) - 1 = N
  OBVIOUS
<1>2. PICK f : Runs(m, s, when, N, f) /\ Run(m, s, when) = f[N]
  BY RunIs
<1>3. PICK g : Runs(m, t, when, N + 1, g) /\ Run(m, t, when) = g[N + 1]
  BY <1>1, RunIs
<1>4. \A k \in 1..N : t[k] = s[k]
  OBVIOUS
<1> HIDE DEF N
<1>5. g[N] = f[N]
  <2>1. Runs(m, t, when, N, g)
    BY <1>1, <1>3, RunsShorter
  <2> QED
    BY <1>1, <1>2, <1>4, <2>1, RunsAgree
<1>6. g[N + 1] = Turn(g[N], t[N + 1], when)
  BY <1>1, <1>3 DEF Runs
<1> QED
  BY <1>1, <1>2, <1>3, <1>5, <1>6

-----------------------------------------------------------------------------
(* The steps that a description says, and what they do to the rules. *)
FrameOK(f) ==
  /\ f.begin \in Nat /\ f.cie.code \in Nat
  /\ f.program \in Seq(Instruction) /\ f.cie.program \in Seq(Instruction)

\* The steps of the first p instructions of the CIE, and of the first q of the FDE.
InitialSteps(f, p) == [k \in 1..p |-> Step(f, f.cie.program[k], NoAddress)]
LaterSteps(f, q) == [k \in 1..q |-> Step(f, f.program[k], Locations(f)[k])]

\* What of them has a directive.
Said(f, i, at) == IF i.name \in Unsupported THEN [at |-> at, name |-> "other"] ELSE Step(f, i, at)
InitialSaid(f, p) == [k \in 1..p |-> Said(f, f.cie.program[k], NoAddress)]
LaterSaid(f, q) == [k \in 1..q |-> Said(f, f.program[k], Locations(f)[k])]

Neutral == {"nop", "advance_loc", "set_loc"}

LEMMA NeutralTurn ==
  ASSUME NEW f, NEW i, i.name \in Neutral, NEW at, NEW when, NEW m
  PROVE  Turn(m, Said(f, i, at), when) = m
<1> DEFINE d == Said(f, i, at)
<1>1. d.name = "nop" \/ d.name = "advance_loc" \/ d.name = "set_loc"
  BY DEF Said, Step, Neutral, Unsupported
<1> HIDE DEF d
<1>2. Apply(m, d, d.n) = m
  BY <1>1 DEF Apply
<1> QED
  BY <1>2 DEF Turn, d

\* startproc, Other and the like leave the rules alone.
LEMMA WholeTurn ==
  ASSUME NEW at, NEW name, NEW when, NEW m
  PROVE  Turn(m, [at |-> at, name |-> name], when) = m
<1>1. "n" \notin DOMAIN [at |-> at, name |-> name]
  OBVIOUS
<1> QED
  BY <1>1 DEF Turn

\* A step at another location does nothing.
LEMMA ElsewhereTurn ==
  ASSUME NEW f, NEW i, NEW at, NEW when, NEW m, at \notin when
  PROVE  Turn(m, Said(f, i, at), when) = m /\ Turn(m, Step(f, i, at), when) = m
<1>1. Step(f, i, at).at = at /\ [at |-> at, name |-> "other"].at = at
  BY DEF Step
<1>2. Said(f, i, at).at = at
  BY <1>1 DEF Said
<1> QED
  BY <1>1, <1>2 DEF Turn

LEMMA SeqByPlace ==
  ASSUME NEW p \in Nat, NEW s, s = [k \in 1..p |-> s[k]]
  PROVE  IsSeq(s) /\ Len(s) = p
<1> DEFINE S == {s[k] : k \in 1..p}
<1>1. s \in [1..p -> S]
  OBVIOUS
<1> HIDE DEF S
<1>2. s \in Seq(S)
  BY <1>1
<1> QED
  BY <1>1, <1>2 DEF IsSeq

LEMMA StepsSeq ==
  ASSUME NEW f, NEW p \in Nat
  PROVE  /\ IsSeq(InitialSteps(f, p)) /\ Len(InitialSteps(f, p)) = p
         /\ \A k \in 1..p : InitialSteps(f, p)[k] = Step(f, f.cie.program[k], NoAddress)
         /\ IsSeq(LaterSteps(f, p)) /\ Len(LaterSteps(f, p)) = p
         /\ \A k \in 1..p : LaterSteps(f, p)[k] = Step(f, f.program[k], Locations(f)[k])
<1>1. /\ InitialSteps(f, p) = [k \in 1..p |-> InitialSteps(f, p)[k]]
      /\ LaterSteps(f, p) = [k \in 1..p |-> LaterSteps(f, p)[k]]
  BY DEF InitialSteps, LaterSteps
<1>2. \A k \in 1..p : /\ InitialSteps(f, p)[k] = Step(f, f.cie.program[k], NoAddress)
                      /\ LaterSteps(f, p)[k] = Step(f, f.program[k], Locations(f)[k])
  BY DEF InitialSteps, LaterSteps
<1> QED
  BY <1>1, <1>2, SeqByPlace

LEMMA SaidSeq ==
  ASSUME NEW f, NEW p \in Nat
  PROVE  /\ IsSeq(InitialSaid(f, p)) /\ Len(InitialSaid(f, p)) = p
         /\ \A k \in 1..p : InitialSaid(f, p)[k] = Said(f, f.cie.program[k], NoAddress)
         /\ IsSeq(LaterSaid(f, p)) /\ Len(LaterSaid(f, p)) = p
         /\ \A k \in 1..p : LaterSaid(f, p)[k] = Said(f, f.program[k], Locations(f)[k])
<1>1. /\ InitialSaid(f, p) = [k \in 1..p |-> InitialSaid(f, p)[k]]
      /\ LaterSaid(f, p) = [k \in 1..p |-> LaterSaid(f, p)[k]]
  BY DEF InitialSaid, LaterSaid
<1>2. \A k \in 1..p : /\ InitialSaid(f, p)[k] = Said(f, f.cie.program[k], NoAddress)
                      /\ LaterSaid(f, p)[k] = Said(f, f.program[k], Locations(f)[k])
  BY DEF InitialSaid, LaterSaid
<1> QED
  BY <1>1, <1>2, SeqByPlace

LEMMA InitialMore ==
  ASSUME NEW f, NEW p \in Nat, NEW m, NEW when
  PROVE  Run(m, InitialSaid(f, p + 1), when)
         = Turn(Run(m, InitialSaid(f, p), when), Said(f, f.cie.program[p + 1], NoAddress), when)
<1> DEFINE s == InitialSaid(f, p)
           t == InitialSaid(f, p + 1)
<1>1. p + 1 \in Nat /\ p + 1 \in 1..(p + 1) /\ \A k \in 1..p : k \in 1..(p + 1)
  OBVIOUS
<1>2. Len(s) = p /\ \A k \in 1..p : s[k] = Said(f, f.cie.program[k], NoAddress)
  BY SaidSeq
<1>3. Len(t) = p + 1 /\ \A k \in 1..(p + 1) : t[k] = Said(f, f.cie.program[k], NoAddress)
  BY <1>1, SaidSeq
<1> HIDE DEF s, t
<1>4. Len(s) \in Nat /\ Len(t) = Len(s) + 1 /\ \A k \in 1..Len(s) : t[k] = s[k]
  BY <1>1, <1>2, <1>3
<1>5. Run(m, t, when) = Turn(Run(m, s, when), t[Len(t)], when)
  BY <1>4, RunMore
<1> QED
  BY <1>1, <1>3, <1>5 DEF s, t

LEMMA LaterMore ==
  ASSUME NEW f, NEW q \in Nat, NEW m, NEW when
  PROVE  Run(m, LaterSaid(f, q + 1), when)
         = Turn(Run(m, LaterSaid(f, q), when),
                Said(f, f.program[q + 1], Locations(f)[q + 1]), when)
<1> DEFINE s == LaterSaid(f, q)
           t == LaterSaid(f, q + 1)
<1>1. q + 1 \in Nat /\ q + 1 \in 1..(q + 1) /\ \A k \in 1..q : k \in 1..(q + 1)
  OBVIOUS
<1>2. Len(s) = q /\ \A k \in 1..q : s[k] = Said(f, f.program[k], Locations(f)[k])
  BY SaidSeq
<1>3. Len(t) = q + 1 /\ \A k \in 1..(q + 1) : t[k] = Said(f, f.program[k], Locations(f)[k])
  BY <1>1, SaidSeq
<1> HIDE DEF s, t
<1>4. Len(s) \in Nat /\ Len(t) = Len(s) + 1 /\ \A k \in 1..Len(s) : t[k] = s[k]
  BY <1>1, <1>2, <1>3
<1>5. Run(m, t, when) = Turn(Run(m, s, when), t[Len(t)], when)
  BY <1>4, RunMore
<1> QED
  BY <1>1, <1>3, <1>5 DEF s, t

LEMMA MovedTyped ==
  ASSUME NEW f, f.cie.code \in Nat, NEW i \in Instruction, NEW at \in Nat
  PROVE  Moved(f, i, at) \in Nat
<1>1. i.name = "advance_loc" \/ i.name = "set_loc" => i.n \in Nat
  BY DEF Instruction
<1>2. CASE i.name = "advance_loc"
  <2>1. i.n * f.cie.code \in Nat
    BY <1>1, <1>2
  <2>2. Moved(f, i, at) = at + i.n * f.cie.code
    BY <1>2 DEF Moved
  <2> QED
    BY <2>1, <2>2
<1>3. CASE i.name = "set_loc"
  BY <1>1, <1>3 DEF Moved
<1>4. CASE i.name # "advance_loc" /\ i.name # "set_loc"
  BY <1>4 DEF Moved
<1> QED
  BY <1>2, <1>3, <1>4

\* The location moves from one instruction to the next and never below zero.
LEMMA LocationsAre ==
  ASSUME NEW f, FrameOK(f)
  PROVE  /\ Locations(f)[0] = f.begin
         /\ \A k \in 1..Len(f.program) :
              Locations(f)[k] = Moved(f, f.program[k], Locations(f)[k - 1])
         /\ \A k \in 0..Len(f.program) : Locations(f)[k] \in Nat
<1> DEFINE s == f.program
           at == Locations(f)
           turn == [x \in Nat \X Instruction |-> Moved(f, x[2], x[1])]
<1>1. s \in Seq(Instruction) /\ f.begin \in Nat /\ f.cie.code \in Nat
  BY DEF FrameOK
<1>2. turn \in [Nat \X Instruction -> Nat]
  BY <1>1, MovedTyped
<1>3. \A x \in Nat : \A i \in Instruction : turn[<<x, i>>] = Moved(f, i, x)
  OBVIOUS
<1> HIDE DEF turn
<1>4. IsLoop(Instruction, Nat, s, f.begin, turn)
  BY <1>1, <1>2 DEF IsLoop
<1>5. /\ Len(s) \in Nat /\ \A n \in 1..Len(s) : s[n] \in Instruction
      /\ \A n \in 0..Len(s) : n = 0 \/ n \in 1..Len(s)
      /\ \A n \in 1..Len(s) : n \in 0..Len(s) /\ n # 0
      /\ 0 \in 0..Len(s)
  BY <1>1
<1>6. PICK g : Turns(s, f.begin, turn, g)
  BY <1>4, TurnsExist
<1>7. /\ g \in [0..Len(s) -> Nat] /\ g[0] = f.begin
      /\ \A n \in 1..Len(s) : n - 1 \in 0..Len(s) /\ g[n] = turn[<<g[n - 1], s[n]>>]
  BY <1>4, <1>6, TurnsAre
<1>8. g = [n \in 0..Len(s) |-> IF n = 0 THEN f.begin ELSE Moved(f, s[n], g[n - 1])]
  <2>1. \A n \in 1..Len(s) : g[n] = Moved(f, s[n], g[n - 1])
    BY <1>3, <1>5, <1>7
  <2> QED
    BY <1>5, <1>7, <2>1
<1>9. at = [n \in 0..Len(s) |-> IF n = 0 THEN f.begin ELSE Moved(f, s[n], at[n - 1])]
  BY <1>8 DEF Locations
<1> HIDE DEF at
<1>10. at[0] = f.begin /\ \A n \in 1..Len(s) : at[n] = Moved(f, s[n], at[n - 1])
  BY <1>5, <1>9
<1>11. \A n \in 0..Len(s) : at[n] \in Nat
  <2> DEFINE S == {n \in 0..Len(s) : at[n] \in Nat}
  <2>1. 0 \in S
    BY <1>1, <1>5, <1>10
  <2>2. ASSUME NEW n \in 1..Len(s), n - 1 \in S
        PROVE  n \in S
    <3>1. at[n - 1] \in Nat /\ s[n] \in Instruction /\ n \in 0..Len(s)
      BY <1>5, <2>2
    <3>2. Moved(f, s[n], at[n - 1]) \in Nat
      BY <1>1, <3>1, MovedTyped
    <3> QED
      BY <1>10, <3>1, <3>2
  <2> HIDE DEF S
  <2>3. \A n \in 0..Len(s) : n \in S
    BY <1>5, <2>1, <2>2, UpTo
  <2> QED
    BY <2>3 DEF S
<1> QED
  BY <1>10, <1>11 DEF at

(* The invariant: so far the directives say what the instructions up to here do, but for *)
(* those without a directive, and those have left an Other. *)
HasOther(directives) == \E k \in 1..Len(directives) : directives[k].name = "other"
Says(directives, f, p, q) ==
  /\ IsSeq(directives) /\ Len(directives) \in Nat \ {0} /\ directives[1].name = "startproc"
  /\ \A m : Run(m, directives, {NoAddress}) = Run(m, InitialSaid(f, p), {NoAddress})
  /\ \A m, a : Run(m, directives, 0..a) = Run(m, LaterSaid(f, q), 0..a)
  /\ \A k \in 1..p : f.cie.program[k].name \in Unsupported => HasOther(directives)
  /\ \A k \in 1..q : f.program[k].name \in Unsupported => HasOther(directives)

\* What is left of a program after p instructions.
Left(left, program, p) ==
  /\ IsSeq(left) /\ Len(left) \in Nat /\ Len(program) = p + Len(left)
  /\ \A k \in 1..Len(left) : left[k] = program[p + k]
  /\ \A k \in 1..p : program[k].name # "unreadable"

RulesInv ==
  /\ \A s \in Sections : \A k \in DOMAIN section[s] : FrameOK(section[s][k])
  /\ phase = "cie" => \E p \in Nat : Left(rest, fde.cie.program, p) /\ Says(cfi, fde, p, 0)
  /\ phase = "fde" =>
       \E p, q \in Nat : /\ Legible(fde.cie.program) = 1..p
                         /\ Left(rest, fde.program, q) /\ loc = Locations(fde)[q]
                         /\ Says(cfi, fde, p, q)
  /\ phase = "done" /\ found # NotFound =>
       /\ cfi[Len(cfi)] = [at |-> fde.begin + fde.len, name |-> "endproc"]
       /\ \E p, q \in Nat : /\ Legible(fde.cie.program) = 1..p /\ Legible(fde.program) = 1..q
                            /\ Says(cfi, fde, p, q)

\* The next instruction.
LEMMA LeftNext ==
  ASSUME NEW program, NEW p \in Nat, Left(rest, program, p), rest # <<>>
  PROVE  /\ p + 1 \in 1..Len(program) /\ next = program[p + 1]
         /\ IsSeq(Tail(rest)) /\ Len(Tail(rest)) \in Nat
         /\ Len(program) = (p + 1) + Len(Tail(rest))
         /\ \A k \in 1..Len(Tail(rest)) : Tail(rest)[k] = program[(p + 1) + k]
<1> DEFINE n == Len(rest)
           t == Tail(rest)
<1>1. /\ IsSeq(t) /\ Len(t) = n - 1 /\ n \in Nat \ {0} /\ next = rest[1]
      /\ \A k \in 1..(n - 1) : k + 1 \in 1..n /\ t[k] = rest[k + 1]
  BY SeqTail DEF Left, next
<1>2. Len(program) = p + n /\ \A k \in 1..n : rest[k] = program[p + k]
  BY DEF Left
<1> HIDE DEF n, t
<1>3. Len(t) \in Nat /\ 1 \in 1..n /\ p + n = (p + 1) + Len(t) /\ p + 1 \in 1..(p + n)
  BY <1>1
<1>4. next = program[p + 1]
  BY <1>1, <1>2, <1>3
<1>5. ASSUME NEW k \in 1..Len(t)
      PROVE  t[k] = program[(p + 1) + k]
  <2>1. k \in 1..(n - 1) /\ k + 1 \in 1..n /\ p + (k + 1) = (p + 1) + k
    BY <1>1
  <2> QED
    BY <1>1, <1>2, <2>1
<1> QED
  BY <1>1, <1>2, <1>3, <1>4, <1>5 DEF t

LEMMA LegibleEnds ==
  ASSUME NEW program, IsSeq(program), NEW p \in Nat, Left(rest, program, p), Ends
  PROVE  Legible(program) = 1..p
<1> DEFINE n == Len(program)
<1>1. n \in Nat /\ DOMAIN program = 1..n
  BY SeqLen
<1>2. Len(rest) \in Nat /\ n = p + Len(rest) /\ \A k \in 1..p : program[k].name # "unreadable"
  BY DEF Left
<1>3. n = p \/ program[p + 1].name = "unreadable"
  <2>1. CASE rest = <<>>
    BY <1>1, <1>2, <2>1, SeqEmpty
  <2>2. CASE rest # <<>>
    BY <2>2, LeftNext DEF Ends
  <2> QED
    BY <2>1, <2>2
<1> HIDE DEF n
<1>4. ASSUME NEW k \in 1..p
      PROVE  k \in Legible(program)
  <2>1. k \in 1..n /\ \A j \in 1..k : j \in 1..p
    BY <1>1, <1>2
  <2> QED
    BY <1>1, <1>2, <2>1 DEF Legible
<1>5. ASSUME NEW k \in Legible(program)
      PROVE  k \in 1..p
  <2>1. k \in 1..n /\ \A j \in 1..k : program[j].name # "unreadable"
    BY <1>1 DEF Legible
  <2>2. k \in Nat /\ (k \in 1..p \/ (n # p /\ p + 1 \in 1..k))
    BY <1>1, <1>2, <2>1
  <2> QED
    BY <1>3, <2>1, <2>2
<1> QED
  BY <1>4, <1>5

\* The description found is one of the section's.
LEMMA FoundFrame ==
  ASSUME CfiInv, RulesInv,
         phase = "cie" \/ phase = "fde" \/ (phase = "done" /\ found # NotFound)
  PROVE  FrameOK(fde) /\ IsSeq(fde.program) /\ IsSeq(fde.cie.program)
<1>1. Found
  BY DEF CfiInv, SearchOK
<1>2. PICK s \in Sections : \E d \in DOMAIN section[s] : found = <<s, d>>
  BY <1>1 DEF Found
<1>3. PICK d \in DOMAIN section[s] : found = <<s, d>>
  BY <1>2
<1>4. fde = section[s][d]
  BY <1>3 DEF fde
<1>5. FrameOK(fde)
  BY <1>4 DEF RulesInv
<1> QED
  BY <1>5 DEF FrameOK, IsSeq

\* A step of either program, whatever the directives were: the new ones do what the old
\* ones and then the instruction do.
LEMMA ConvertSays ==
  ASSUME NEW program, NEW p \in Nat, Left(rest, program, p), ~Ends,
         NEW at, NEW to, Convert(at, to),
         IsSeq(cfi), Len(cfi) \in Nat \ {0}, cfi[1].name = "startproc"
  PROVE  /\ p + 1 \in 1..Len(program) /\ Left(rest', program, p + 1)
         /\ IsSeq(cfi') /\ Len(cfi') \in Nat \ {0} /\ cfi'[1].name = "startproc"
         /\ \A m, when : Run(m, cfi', when)
                         = Turn(Run(m, cfi, when), Said(fde, program[p + 1], at), when)
         /\ HasOther(cfi) \/ program[p + 1].name \in Unsupported => HasOther(cfi')
         /\ loc' = Moved(fde, program[p + 1], loc)
         /\ phase' = to
<1>1. rest # <<>> /\ next.name # "unreadable"
  BY DEF Ends
<1>2. /\ p + 1 \in 1..Len(program) /\ next = program[p + 1]
      /\ IsSeq(Tail(rest)) /\ Len(Tail(rest)) \in Nat
      /\ Len(program) = (p + 1) + Len(Tail(rest))
      /\ \A k \in 1..Len(Tail(rest)) : Tail(rest)[k] = program[(p + 1) + k]
  BY <1>1, LeftNext
<1>3. rest' = Tail(rest) /\ phase' = to
  BY DEF Convert
<1>4. Left(rest', program, p + 1)
  <2>1. ASSUME NEW k \in 1..(p + 1)
        PROVE  program[k].name # "unreadable"
    <3>1. k \in 1..p \/ k = p + 1
      OBVIOUS
    <3> QED
      BY <1>1, <1>2, <3>1 DEF Left
  <2> QED
    BY <1>2, <1>3, <2>1 DEF Left
<1>5. CASE next.name \in Neutral
  <2>1. cfi' = cfi
    BY <1>5 DEF Convert, Neutral
  <2>2. \A m, when : Turn(Run(m, cfi, when), Said(fde, next, at), when) = Run(m, cfi, when)
    BY <1>5, NeutralTurn
  <2>3. loc' = Moved(fde, next, loc) /\ next.name \notin Unsupported
    BY <1>5 DEF Convert, Neutral, Moved, Unsupported
  <2> QED
    BY <1>2, <1>3, <1>4, <2>1, <2>2, <2>3
<1>6. CASE next.name \notin Neutral
  <2>1. cfi' = Append(cfi, Directive(next, at)) /\ loc' = loc
    BY <1>6 DEF Convert, Neutral
  <2>2. Directive(next, at) = Said(fde, next, at)
    BY DEF Directive, Said, Step
  <2>3. /\ IsSeq(cfi') /\ Len(cfi') = Len(cfi) + 1
        /\ \A k \in 1..Len(cfi) : cfi'[k] = cfi[k]
        /\ cfi'[Len(cfi) + 1] = Said(fde, next, at)
    BY <2>1, <2>2, SeqAppend
  <2>4. Len(cfi) \in Nat /\ Len(cfi') \in Nat \ {0} /\ 1 \in 1..Len(cfi)
    BY <2>3
  <2>5. ASSUME NEW m, NEW when
        PROVE  Run(m, cfi', when) = Turn(Run(m, cfi, when), Said(fde, next, at), when)
    BY <2>3, <2>4, RunMore
  <2>6. loc' = Moved(fde, next, loc)
    BY <1>6, <2>1 DEF Neutral, Moved
  <2>7. cfi'[1].name = "startproc"
    BY <2>3, <2>4
  <2>8. /\ Len(cfi) + 1 \in 1..Len(cfi') /\ \A k \in 1..Len(cfi) : k \in 1..Len(cfi')
        /\ next.name \in Unsupported => Said(fde, next, at).name = "other"
    BY <2>3, <2>4 DEF Said
  <2>9. HasOther(cfi) \/ next.name \in Unsupported => HasOther(cfi')
    BY <2>3, <2>8 DEF HasOther
  <2> QED
    BY <1>2, <1>3, <1>4, <2>3, <2>4, <2>5, <2>6, <2>7, <2>9
<1> QED
  BY <1>5, <1>6

LEMMA FindSays ==
  ASSUME CfiInv, RulesInv, NEW s \in Sections, Find(s), CfiInv'
  PROVE  RulesInv'
<1>1. PICK k \in Hits(tables[s], section.asked.begin) :
        LET f == section[s][tables[s][k].fde]
            flag(name) == IF name \in f.has THEN <<[at |-> NoAddress, name |-> name]>> ELSE <<>>
        IN  /\ found' = <<s, tables[s][k].fde>>
            /\ rest' = f.cie.program
            /\ cfi' = <<[at |-> NoAddress, name |-> "startproc"]>>
                        \o flag("personality") \o flag("lsda") \o flag("signal")
  BY DEF Find
<1>2. section' = section /\ phase' = "cie"
  BY DEF Find
<1> DEFINE Whole(t) == IsSeq(t) /\ \A j \in 1..Len(t) :
                         \E name : t[j] = [at |-> NoAddress, name |-> name]
           f == section[s][tables[s][k].fde]
           flag(name) == IF name \in f.has THEN <<[at |-> NoAddress, name |-> name]>> ELSE <<>>
           start == <<[at |-> NoAddress, name |-> "startproc"]>>
<1>3. \A name : Whole(<<[at |-> NoAddress, name |-> name]>>)
  <2> TAKE name
  <2> DEFINE x == [at |-> NoAddress, name |-> name]
  <2>1. IsSeq(<<x>>) /\ Len(<<x>>) = 1 /\ <<x>>[1] = x
    BY SeqOne
  <2>2. \A j \in 1..1 : j = 1
    OBVIOUS
  <2> QED
    BY <2>1, <2>2
<1>4. Whole(<<>>)
  BY SeqEmpty
<1>5. \A name : Whole(flag(name))
  <2> HIDE DEF Whole
  <2> QED
    BY <1>3, <1>4
<1>6. ASSUME NEW t, NEW u, Whole(t), Whole(u), Len(t) \in Nat \ {0}, t[1] = start[1]
      PROVE  Whole(t \o u) /\ Len(t \o u) \in Nat \ {0} /\ (t \o u)[1] = start[1]
  <2>1. /\ IsSeq(t \o u) /\ Len(t \o u) = Len(t) + Len(u)
        /\ \A i \in 1..Len(t \o u) : \/ i \in 1..Len(t) /\ (t \o u)[i] = t[i]
                                     \/ i - Len(t) \in 1..Len(u) /\ (t \o u)[i] = u[i - Len(t)]
    BY <1>6, SeqConcat
  <2>2. Len(u) \in Nat
    BY <1>6, SeqLen
  <2>3. Len(t \o u) \in Nat \ {0} /\ 1 \in 1..Len(t \o u) /\ ~(1 - Len(t) \in 1..Len(u))
    BY <1>6, <2>1, <2>2
  <2>4. (t \o u)[1] = start[1]
    BY <1>6, <2>1, <2>3
  <2>5. ASSUME NEW i \in 1..Len(t \o u)
        PROVE  \E name : (t \o u)[i] = [at |-> NoAddress, name |-> name]
    <3>1. CASE i \in 1..Len(t) /\ (t \o u)[i] = t[i]
      BY <1>6, <3>1
    <3>2. CASE i - Len(t) \in 1..Len(u) /\ (t \o u)[i] = u[i - Len(t)]
      BY <1>6, <3>2
    <3> QED
      BY <2>1, <3>1, <3>2
  <2> QED
    BY <2>1, <2>3, <2>4, <2>5
<1>7. Whole(start) /\ Len(start) \in Nat \ {0}
  BY <1>3, SeqOne
<1> HIDE DEF Whole, flag, start
<1>8. Whole(cfi') /\ Len(cfi') \in Nat \ {0} /\ cfi'[1] = start[1]
  <2> DEFINE a == start \o flag("personality")
             b == a \o flag("lsda")
  <2>1. Whole(a) /\ Len(a) \in Nat \ {0} /\ a[1] = start[1]
    BY <1>5, <1>6, <1>7
  <2> HIDE DEF a
  <2>2. Whole(b) /\ Len(b) \in Nat \ {0} /\ b[1] = start[1]
    BY <1>5, <1>6, <2>1
  <2> HIDE DEF b
  <2>3. cfi' = b \o flag("signal")
    BY <1>1 DEF a, b, start, flag
  <2> QED
    BY <1>5, <1>6, <2>2, <2>3
<1>9. cfi'[1].name = "startproc"
  <2>1. start[1].name = "startproc"
    BY SeqOne DEF start
  <2> QED
    BY <1>8, <2>1
<1>10. ASSUME NEW m, NEW when, NEW t, Len(t) = 0
       PROVE  Run(m, cfi', when) = Run(m, t, when)
  <2>1. ASSUME NEW j \in 1..Len(cfi'), NEW x
        PROVE  Turn(x, cfi'[j], when) = x
    <3>1. PICK name : cfi'[j] = [at |-> NoAddress, name |-> name]
      BY <1>8 DEF Whole
    <3> QED
      BY <3>1, WholeTurn
  <2>2. Len(cfi') \in Nat /\ Len(t) \in 0..Len(cfi') /\ \A j \in 1..Len(t) : cfi'[j] = t[j]
    BY <1>8, <1>10
  <2> QED
    BY <2>1, <2>2, RunCut
<1>11. Says(cfi', fde', 0, 0)
  <2>1. Len(InitialSaid(fde', 0)) = 0 /\ Len(LaterSaid(fde', 0)) = 0
    BY SaidSeq
  <2>2. \A m : Run(m, cfi', {NoAddress}) = Run(m, InitialSaid(fde', 0), {NoAddress})
    BY <1>10, <2>1
  <2>3. \A m, a : Run(m, cfi', 0..a) = Run(m, LaterSaid(fde', 0), 0..a)
    BY <1>10, <2>1
  <2>4. IsSeq(cfi')
    BY <1>8 DEF Whole
  <2>5. \A j \in 1..0 : FALSE
    OBVIOUS
  <2> QED
    BY <1>8, <1>9, <2>2, <2>3, <2>4, <2>5 DEF Says
<1>12. \A r \in Sections : \A j \in DOMAIN section'[r] : FrameOK(section'[r][j])
  BY <1>2 DEF RulesInv
<1>13. rest' = fde'.cie.program /\ IsSeq(rest')
  <2>1. fde' = section[s][tables[s][k].fde]
    BY <1>1, <1>2 DEF fde
  <2>2. rest' = fde'.cie.program
    BY <1>1, <2>1
  <2>3. tables[s][k].fde \in DOMAIN section[s]
    <3>1. phase = s
      BY DEF Find
    <3>2. Sorts(section, tables[s], s)
      BY <3>1 DEF CfiInv, TablesOK, Sections
    <3>3. k \in DOMAIN tables[s]
      BY <1>1, HitsAreEntries DEF asked
    <3> QED
      BY <3>2, <3>3 DEF Sorts
  <2>4. FrameOK(fde')
    BY <2>1, <2>3 DEF RulesInv
  <2> QED
    BY <2>2, <2>4 DEF FrameOK, IsSeq
<1>14. Left(rest', fde'.cie.program, 0)
  <2>1. Len(rest') \in Nat
    BY <1>13, SeqLen
  <2> QED
    BY <1>13, <2>1 DEF Left
<1>15. 0 \in Nat
  OBVIOUS
<1>16. RulesInv'
  BY <1>2, <1>11, <1>12, <1>14, <1>15 DEF RulesInv
<1> QED
  BY <1>16

LEMMA ConvertInitialSays ==
  ASSUME CfiInv, RulesInv, ConvertInitial
  PROVE  RulesInv'
<1>1. /\ phase = "cie" /\ ~Ends /\ Convert(NoAddress, "cie")
      /\ UNCHANGED <<section, tables, found>>
  BY DEF ConvertInitial, Ends
<1>2. PICK p \in Nat : Left(rest, fde.cie.program, p) /\ Says(cfi, fde, p, 0)
  BY <1>1 DEF RulesInv
<1>3. fde' = fde
  BY <1>1 DEF fde
<1> DEFINE i == fde.cie.program[p + 1]
<1>4. /\ Left(rest', fde.cie.program, p + 1)
      /\ IsSeq(cfi') /\ Len(cfi') \in Nat \ {0} /\ cfi'[1].name = "startproc"
      /\ \A m, when : Run(m, cfi', when) = Turn(Run(m, cfi, when), Said(fde, i, NoAddress), when)
      /\ HasOther(cfi) \/ i.name \in Unsupported => HasOther(cfi')
      /\ phase' = "cie"
  BY <1>1, <1>2, ConvertSays DEF Says
<1>5. /\ \A m : Run(m, cfi, {NoAddress}) = Run(m, InitialSaid(fde, p), {NoAddress})
      /\ \A m, a : Run(m, cfi, 0..a) = Run(m, LaterSaid(fde, 0), 0..a)
  BY <1>2 DEF Says
<1>6. ASSUME NEW m
      PROVE  Run(m, cfi', {NoAddress}) = Run(m, InitialSaid(fde, p + 1), {NoAddress})
  <2>1. Run(m, InitialSaid(fde, p + 1), {NoAddress})
        = Turn(Run(m, InitialSaid(fde, p), {NoAddress}), Said(fde, i, NoAddress), {NoAddress})
    BY InitialMore
  <2> HIDE DEF i
  <2> QED
    BY <1>4, <1>5, <2>1
<1>7. ASSUME NEW m, NEW a
      PROVE  Run(m, cfi', 0..a) = Run(m, LaterSaid(fde, 0), 0..a)
  <2>1. NoAddress \notin 0..a
    BY DEF NoAddress
  <2> HIDE DEF i
  <2>2. ASSUME NEW x
        PROVE  Turn(x, Said(fde, i, NoAddress), 0..a) = x
    BY <2>1, ElsewhereTurn, ZenonT(40)
  <2> QED
    BY <1>4, <1>5, <2>2
<1>8. Says(cfi', fde, p + 1, 0)
  <2>1. \A k \in 1..(p + 1) : k \in 1..p \/ k = p + 1
    OBVIOUS
  <2>2. \A k \in 1..(p + 1) : fde.cie.program[k].name \in Unsupported => HasOther(cfi')
    BY <1>2, <1>4, <2>1 DEF Says
  <2>3. \A k \in 1..0 : FALSE
    OBVIOUS
  <2> QED
    BY <1>4, <1>6, <1>7, <2>2, <2>3 DEF Says
<1>9. p + 1 \in Nat
  OBVIOUS
<1> QED
  BY <1>1, <1>3, <1>4, <1>8, <1>9 DEF RulesInv

LEMMA BeginProgramSays ==
  ASSUME CfiInv, RulesInv, BeginProgram
  PROVE  RulesInv'
<1>1. /\ phase = "cie" /\ Ends /\ phase' = "fde" /\ rest' = fde.program /\ loc' = fde.begin
      /\ UNCHANGED <<section, tables, found, cfi>>
  BY DEF BeginProgram
<1>2. PICK p \in Nat : Left(rest, fde.cie.program, p) /\ Says(cfi, fde, p, 0)
  BY <1>1 DEF RulesInv
<1>3. fde' = fde
  BY <1>1 DEF fde
<1>4. FrameOK(fde) /\ IsSeq(fde.program) /\ IsSeq(fde.cie.program)
  BY <1>1, FoundFrame
<1>5. Legible(fde.cie.program) = 1..p
  BY <1>1, <1>2, <1>4, LegibleEnds
<1>6. Left(rest', fde.program, 0)
  <2>1. Len(fde.program) \in Nat
    BY <1>4, SeqLen
  <2> QED
    BY <1>1, <1>4, <2>1 DEF Left
<1>7. loc' = Locations(fde)[0]
  BY <1>1, <1>4, LocationsAre
<1>8. 0 \in Nat
  OBVIOUS
<1> QED
  BY <1>1, <1>2, <1>3, <1>5, <1>6, <1>7, <1>8 DEF RulesInv

LEMMA ConvertNextSays ==
  ASSUME CfiInv, RulesInv, ConvertNext
  PROVE  RulesInv'
<1>1. /\ phase = "fde" /\ ~Ends /\ Convert(loc, "fde")
      /\ UNCHANGED <<section, tables, found>>
  BY DEF ConvertNext
<1>2. PICK p \in Nat : \E q \in Nat :
        /\ Legible(fde.cie.program) = 1..p
        /\ Left(rest, fde.program, q) /\ loc = Locations(fde)[q] /\ Says(cfi, fde, p, q)
  BY <1>1 DEF RulesInv
<1>3. PICK q \in Nat :
        Left(rest, fde.program, q) /\ loc = Locations(fde)[q] /\ Says(cfi, fde, p, q)
  BY <1>2
<1>4. fde' = fde
  BY <1>1 DEF fde
<1> DEFINE i == fde.program[q + 1]
           to == Locations(fde)[q + 1]
<1>5. /\ q + 1 \in 1..Len(fde.program) /\ Left(rest', fde.program, q + 1)
      /\ IsSeq(cfi') /\ Len(cfi') \in Nat \ {0} /\ cfi'[1].name = "startproc"
      /\ \A m, when : Run(m, cfi', when) = Turn(Run(m, cfi, when), Said(fde, i, loc), when)
      /\ HasOther(cfi) \/ i.name \in Unsupported => HasOther(cfi')
      /\ loc' = Moved(fde, i, loc) /\ phase' = "fde"
  BY <1>1, <1>3, ConvertSays DEF Says
<1>6. loc \in Nat /\ to \in Nat /\ to = Moved(fde, i, loc)
  <2>1. FrameOK(fde) /\ Len(fde.program) \in Nat
    BY <1>1, FoundFrame, SeqLen
  <2>2. q \in 0..Len(fde.program) /\ q + 1 \in 0..Len(fde.program) /\ (q + 1) - 1 = q
    BY <1>5, <2>1
  <2> QED
    BY <1>3, <1>5, <2>1, <2>2, LocationsAre
<1>7. \A m, when : Turn(m, Said(fde, i, loc), when) = Turn(m, Said(fde, i, to), when)
  <2>1. CASE i.name \in Neutral
    BY <2>1, NeutralTurn
  <2>2. CASE i.name \notin Neutral
    BY <1>6, <2>2 DEF Neutral, Moved
  <2> QED
    BY <2>1, <2>2
<1> HIDE DEF i, to
<1>8. /\ \A m : Run(m, cfi, {NoAddress}) = Run(m, InitialSaid(fde, p), {NoAddress})
      /\ \A m, a : Run(m, cfi, 0..a) = Run(m, LaterSaid(fde, q), 0..a)
  BY <1>3 DEF Says
<1>9. ASSUME NEW m
      PROVE  Run(m, cfi', {NoAddress}) = Run(m, InitialSaid(fde, p), {NoAddress})
  <2>1. loc \notin {NoAddress}
    BY <1>6 DEF NoAddress
  <2>2. ASSUME NEW x
        PROVE  Turn(x, Said(fde, i, loc), {NoAddress}) = x
    BY <2>1, ElsewhereTurn
  <2> QED
    BY <1>5, <1>8, <2>2
<1>10. ASSUME NEW m, NEW a
       PROVE  Run(m, cfi', 0..a) = Run(m, LaterSaid(fde, q + 1), 0..a)
  <2>1. Run(m, LaterSaid(fde, q + 1), 0..a)
        = Turn(Run(m, LaterSaid(fde, q), 0..a), Said(fde, i, to), 0..a)
    BY LaterMore DEF i, to
  <2> QED
    BY <1>5, <1>7, <1>8, <2>1
<1>11. Says(cfi', fde, p, q + 1)
  <2>1. \A k \in 1..(q + 1) : k \in 1..q \/ k = q + 1
    OBVIOUS
  <2>2. \A k \in 1..p : fde.cie.program[k].name \in Unsupported => HasOther(cfi')
    BY <1>3, <1>5 DEF Says
  <2>3. \A k \in 1..(q + 1) : fde.program[k].name \in Unsupported => HasOther(cfi')
    BY <1>3, <1>5, <2>1 DEF Says, i
  <2> QED
    BY <1>5, <1>9, <1>10, <2>2, <2>3 DEF Says
<1>12. q + 1 \in Nat /\ loc' = Locations(fde)[q + 1]
  BY <1>5, <1>6 DEF to
<1> QED
  BY <1>1, <1>2, <1>4, <1>5, <1>11, <1>12 DEF RulesInv

LEMMA EndProcSays ==
  ASSUME CfiInv, RulesInv, EndProc
  PROVE  RulesInv'
<1>1. /\ phase = "fde" /\ Ends /\ phase' = "done"
      /\ cfi' = Append(cfi, [at |-> fde.begin + fde.len, name |-> "endproc"])
      /\ UNCHANGED <<section, tables, found>>
  BY DEF EndProc
<1>2. PICK p \in Nat : \E q \in Nat :
        /\ Legible(fde.cie.program) = 1..p
        /\ Left(rest, fde.program, q) /\ loc = Locations(fde)[q] /\ Says(cfi, fde, p, q)
  BY <1>1 DEF RulesInv
<1>3. PICK q \in Nat : Left(rest, fde.program, q) /\ Says(cfi, fde, p, q)
  BY <1>2
<1>4. fde' = fde
  BY <1>1 DEF fde
<1> DEFINE e == [at |-> fde.begin + fde.len, name |-> "endproc"]
<1>5. Legible(fde.program) = 1..q
  <2>1. IsSeq(fde.program)
    BY <1>1, FoundFrame
  <2> QED
    BY <1>1, <1>3, <2>1, LegibleEnds
<1>6. \A m, when : Turn(m, e, when) = m
  BY WholeTurn
<1> HIDE DEF e
<1>7. /\ IsSeq(cfi') /\ Len(cfi') = Len(cfi) + 1
      /\ \A k \in 1..Len(cfi) : cfi'[k] = cfi[k]
      /\ cfi'[Len(cfi) + 1] = e
  <2>1. cfi' = Append(cfi, e)
    BY <1>1 DEF e
  <2> QED
    BY <1>3, <2>1, SeqAppend DEF Says
<1>8. /\ Len(cfi) \in Nat \ {0} /\ cfi[1].name = "startproc"
      /\ \A m : Run(m, cfi, {NoAddress}) = Run(m, InitialSaid(fde, p), {NoAddress})
      /\ \A m, a : Run(m, cfi, 0..a) = Run(m, LaterSaid(fde, q), 0..a)
  BY <1>3 DEF Says
<1>9. /\ Len(cfi') \in Nat \ {0} /\ 1 \in 1..Len(cfi) /\ Len(cfi) \in Nat
  BY <1>7, <1>8
<1>10. ASSUME NEW m, NEW when
       PROVE  Run(m, cfi', when) = Run(m, cfi, when)
  <2>1. Run(m, cfi', when) = Turn(Run(m, cfi, when), e, when)
    BY <1>7, <1>9, RunMore
  <2> QED
    BY <1>6, <2>1
<1>11. Says(cfi', fde, p, q)
  <2>1. \A k \in 1..Len(cfi) : k \in 1..Len(cfi')
    BY <1>7, <1>9
  <2>2. HasOther(cfi) => HasOther(cfi')
    BY <1>7, <2>1 DEF HasOther
  <2> QED
    BY <1>3, <1>7, <1>8, <1>9, <1>10, <2>2 DEF Says
<1>12. cfi'[Len(cfi')] = e
  BY <1>7
<1> QED
  BY <1>1, <1>2, <1>4, <1>5, <1>11, <1>12 DEF RulesInv, e

LEMMA RulesInit == CfiInit => RulesInv
<1> SUFFICES ASSUME CfiInit
             PROVE  RulesInv
  OBVIOUS
<1>1. section \in FrameInputs /\ phase = "load"
  BY DEF CfiInit
<1>2. ASSUME NEW s \in Sections, NEW k \in DOMAIN section[s]
      PROVE  FrameOK(section[s][k])
  BY <1>1, FrameInputsAssumption DEF FrameOK
<1> QED
  BY <1>1, <1>2 DEF RulesInv

LEMMA RulesStep == CfiInv /\ RulesInv /\ CfiInv' /\ [CfiNext]_cfiVars => RulesInv'
<1> SUFFICES ASSUME CfiInv, RulesInv, CfiInv', [CfiNext]_cfiVars
             PROVE  RulesInv'
  OBVIOUS
<1>1. CASE Load
  BY <1>1 DEF Load, RulesInv
<1>2. ASSUME NEW s \in Sections, Find(s)
      PROVE  RulesInv'
  BY <1>2, FindSays
<1>3. ASSUME NEW s \in Sections, Misses(s)
      PROVE  RulesInv'
  <2>1. /\ phase = s /\ phase' \in {"debug", "done"} /\ section' = section /\ found' = found
    BY <1>3 DEF Misses
  <2>2. found = NotFound
    BY <2>1 DEF CfiInv, SearchOK, Sections
  <2> QED
    BY <2>1, <2>2 DEF RulesInv
<1>4. CASE ConvertInitial
  BY <1>4, ConvertInitialSays
<1>5. CASE BeginProgram
  BY <1>5, BeginProgramSays
<1>6. CASE ConvertNext
  BY <1>6, ConvertNextSays
<1>7. CASE EndProc
  BY <1>7, EndProcSays
<1>8. CASE UNCHANGED cfiVars
  <2>1. UNCHANGED <<section, phase, found, rest, loc, cfi>> /\ fde' = fde
    BY <1>8 DEF cfiVars, fde
  <2> QED
    BY <2>1 DEF RulesInv
<1> QED
  BY <1>1, <1>2, <1>3, <1>4, <1>5, <1>6, <1>7, <1>8 DEF CfiNext

\* Where the location never goes back, what it has passed the address by is the end of the
\* program.
LEMMA RowIsPrefix ==
  ASSUME NEW f, FrameOK(f), NeverBack(f), NEW q \in Nat, Legible(f.program) = 1..q, NEW a \in Nat
  PROVE  LET row == {k \in 1..q : \A j \in 1..k : Locations(f)[j] <= a}
         IN  \E r \in 0..q : row = 1..r /\ \A k \in 1..q : k > r => ~(Locations(f)[k] <= a)
<1> DEFINE at == Locations(f)
           n == Len(f.program)
           row == {k \in 1..q : \A j \in 1..k : at[j] <= a}
           past == {k \in 1..q : ~(at[k] <= a)}
<1>1. n \in Nat /\ DOMAIN f.program = 1..n
  BY SeqLen DEF FrameOK, IsSeq
<1>2. \A k \in 1..q : k \in 1..n
  BY <1>1 DEF Legible
<1>3. \A j, k \in 1..q : j < k => at[j] <= at[k]
  BY <1>1, <1>2 DEF NeverBack
<1>4. \A k \in 1..q : at[k] \in Nat
  <2>1. \A k \in 1..q : k \in 0..n
    BY <1>1, <1>2
  <2> QED
    BY <2>1, LocationsAre
<1> HIDE DEF at, n
<1>5. CASE past = {}
  <2>1. \A k \in 1..q : at[k] <= a
    BY <1>5
  <2>2. \A k \in 1..q : \A j \in 1..k : j \in 1..q
    OBVIOUS
  <2>3. row = 1..q
    BY <2>1, <2>2
  <2>4. q \in 0..q /\ \A k \in 1..q : ~(k > q)
    OBVIOUS
  <2> QED
    BY <2>3, <2>4 DEF at
<1>6. CASE past # {}
  <2>1. past \subseteq Nat
    OBVIOUS
  <2>2. PICK m \in past : \A k \in past : m <= k
    BY <1>6, <2>1, NatMin
  <2>3. m \in 1..q /\ ~(at[m] <= a) /\ m - 1 \in 0..q
    BY <2>2
  <2>4. \A k \in 1..q : k < m => at[k] <= a
    <3> SUFFICES ASSUME NEW k \in 1..q, k < m, ~(at[k] <= a)
                 PROVE  FALSE
      OBVIOUS
    <3>1. k \in past
      OBVIOUS
    <3> QED
      BY <2>2, <2>3, <3>1
  <2> HIDE DEF past
  <2>5. \A k \in 1..q : k > m - 1 => ~(at[k] <= a)
    <3> SUFFICES ASSUME NEW k \in 1..q, k > m - 1
                 PROVE  ~(at[k] <= a)
      OBVIOUS
    <3>1. k = m \/ m < k
      BY <2>3
    <3> QED
      BY <1>3, <1>4, <2>3, <3>1
  <2>6. ASSUME NEW k \in row
        PROVE  k \in 1..(m - 1)
    <3>1. k \in 1..q /\ k \in 1..k /\ at[k] <= a
      OBVIOUS
    <3> QED
      BY <2>3, <2>5, <3>1
  <2>7. ASSUME NEW k \in 1..(m - 1)
        PROVE  k \in row
    <3>1. k \in 1..q /\ \A j \in 1..k : j \in 1..q /\ j < m
      BY <2>3
    <3> QED
      BY <2>4, <3>1
  <2>8. row = 1..(m - 1)
    BY <2>6, <2>7
  <2> QED
    BY <2>3, <2>5, <2>8 DEF at
<1> QED
  BY <1>5, <1>6

\* The row of an address, from the steps up to where the location passes it.
LEMMA RowIs ==
  ASSUME NEW f, FrameOK(f), NeverBack(f), NEW a \in Nat,
         NEW p \in Nat, Legible(f.cie.program) = 1..p, NEW q \in Nat, Legible(f.program) = 1..q
  PROVE  RulesOf(f, a) = Rules(InitialSteps(f, p), LaterSteps(f, q), a)
<1> DEFINE at == Locations(f)
           row == {k \in 1..q : \A j \in 1..k : at[j] <= a}
<1>1. PICK r \in 0..q : row = 1..r /\ \A k \in 1..q : k > r => ~(at[k] <= a)
  BY RowIsPrefix
<1>2. RulesOf(f, a) = Rules(InitialSteps(f, p), LaterSteps(f, r), a)
  BY <1>1 DEF RulesOf, InitialSteps, LaterSteps
<1>3. ASSUME NEW m
      PROVE  Run(m, LaterSteps(f, q), 0..a) = Run(m, LaterSteps(f, r), 0..a)
  <2> DEFINE s == LaterSteps(f, q)
             t == LaterSteps(f, r)
  <2>1. r \in Nat /\ \A k \in 1..r : k \in 1..q
    OBVIOUS
  <2>2. Len(s) = q /\ \A k \in 1..q : s[k] = Step(f, f.program[k], at[k])
    BY StepsSeq
  <2>3. Len(t) = r /\ \A k \in 1..r : t[k] = Step(f, f.program[k], at[k])
    BY <2>1, StepsSeq
  <2>4. ASSUME NEW k \in 1..q, k > r, NEW x
        PROVE  Turn(x, s[k], 0..a) = x
    <3>1. at[k] \notin 0..a
      BY <1>1, <2>4
    <3>2. s[k] = Step(f, f.program[k], at[k])
      BY <2>2
    <3>3. Turn(x, Step(f, f.program[k], at[k]), 0..a) = x
      BY <3>1, ElsewhereTurn
    <3> QED
      BY <3>2, <3>3
  <2> HIDE DEF s, t, at
  <2>5. /\ Len(s) \in Nat /\ Len(t) \in 0..Len(s) /\ \A k \in 1..Len(t) : s[k] = t[k]
        /\ \A k \in 1..Len(s) : k > Len(t) => \A x : Turn(x, s[k], 0..a) = x
    BY <2>1, <2>2, <2>3, <2>4
  <2>6. Run(m, s, 0..a) = Run(m, t, 0..a)
    BY <2>5, RunCut
  <2> QED
    BY <2>6 DEF s, t
<1> QED
  BY <1>2, <1>3 DEF Rules

-----------------------------------------------------------------------------
(* What is lost with the instructions that have no directive. *)
ByExpressions(f) == RegistersOf(f, {"expression", "val_expression"})

SameRegs(x, y, f) ==
  \A r \in (DOMAIN x \union DOMAIN y) \ ByExpressions(f) :
    r \in DOMAIN x \intersect DOMAIN y /\ x[r] = y[r]

Row == {"cfa", "regs"}
Machine == {"row", "initial", "saved"}

AlikeRows(x, y, f) == DOMAIN x = Row /\ DOMAIN y = Row /\ SameRules(x, y, f)

\* The rules of two runs differ at most in what the description says by an expression.
Alike(m, n, f) ==
  /\ DOMAIN m = Machine /\ DOMAIN n = Machine
  /\ AlikeRows(m.row, n.row, f) /\ AlikeRows(m.initial, n.initial, f)
  /\ IsSeq(m.saved) /\ IsSeq(n.saved) /\ Len(m.saved) = Len(n.saved)
  /\ \A k \in 1..Len(m.saved) : AlikeRows(m.saved[k], n.saved[k], f)

\* The instruction is one of the description.
IsOf(i, f) ==
  /\ i.name = "def_cfa_expression" => RegistersOf(f, {"def_cfa_expression"}) # {}
  /\ i.name \in {"expression", "val_expression"} => i.reg \in ByExpressions(f)

LEMMA AlikeRowsAre ==
  ASSUME NEW x, NEW y, NEW f
  PROVE  AlikeRows(x, y, f) <=> /\ DOMAIN x = Row /\ DOMAIN y = Row
                                /\ RegistersOf(f, {"def_cfa_expression"}) = {} => x.cfa = y.cfa
                                /\ SameRegs(x.regs, y.regs, f)
  BY DEF AlikeRows, SameRules, SameRegs, ByExpressions

LEMMA WithSame ==
  ASSUME NEW x, NEW y, NEW f, NEW r, NEW v, SameRegs(x, y, f)
  PROVE  SameRegs(With(x, r, v), With(y, r, v), f)
<1> DEFINE a == With(x, r, v)
           b == With(y, r, v)
<1>1. DOMAIN a = DOMAIN x \union {r} /\ a[r] = v /\ \A s \in DOMAIN x : s # r => a[s] = x[s]
  BY DEF With
<1>2. DOMAIN b = DOMAIN y \union {r} /\ b[r] = v /\ \A s \in DOMAIN y : s # r => b[s] = y[s]
  BY DEF With
<1> HIDE DEF a, b
<1>3. SameRegs(a, b, f)
  BY <1>1, <1>2 DEF SameRegs
<1> QED
  BY <1>3 DEF a, b

LEMMA WithLost ==
  ASSUME NEW x, NEW y, NEW f, NEW r \in ByExpressions(f), NEW v, SameRegs(x, y, f)
  PROVE  SameRegs(x, With(y, r, v), f)
<1> DEFINE b == With(y, r, v)
<1>1. DOMAIN b = DOMAIN y \union {r} /\ b[r] = v /\ \A s \in DOMAIN y : s # r => b[s] = y[s]
  BY DEF With
<1> HIDE DEF b
<1>2. SameRegs(x, b, f)
  BY <1>1 DEF SameRegs
<1> QED
  BY <1>2 DEF b

\* What restore does to the rules.
Restored(regs, initial, r) ==
  IF r \in DOMAIN initial THEN With(regs, r, initial[r])
  ELSE [x \in DOMAIN regs \ {r} |-> regs[x]]

LEMMA RestoredIs ==
  ASSUME NEW x, NEW u, NEW r
  PROVE  LET a == Restored(x, u, r)
         IN  /\ r \notin DOMAIN u => r \notin DOMAIN a
             /\ r \in DOMAIN u => r \in DOMAIN a /\ a[r] = u[r]
             /\ \A s : s # r => /\ s \in DOMAIN a <=> s \in DOMAIN x
                                /\ s \in DOMAIN x => a[s] = x[s]
<1>1. CASE r \in DOMAIN u
  BY <1>1 DEF Restored, With
<1>2. CASE r \notin DOMAIN u
  BY <1>2 DEF Restored
<1> QED
  BY <1>1, <1>2

LEMMA RestoredSame ==
  ASSUME NEW x, NEW y, NEW u, NEW v, NEW f, NEW r,
         SameRegs(x, y, f), SameRegs(u, v, f)
  PROVE  SameRegs(Restored(x, u, r), Restored(y, v, r), f)
<1> DEFINE a == Restored(x, u, r)
           b == Restored(y, v, r)
<1>1. /\ r \notin DOMAIN u => r \notin DOMAIN a
      /\ r \in DOMAIN u => r \in DOMAIN a /\ a[r] = u[r]
      /\ \A s : s # r => /\ s \in DOMAIN a <=> s \in DOMAIN x
                         /\ s \in DOMAIN x => a[s] = x[s]
  BY RestoredIs
<1>2. /\ r \notin DOMAIN v => r \notin DOMAIN b
      /\ r \in DOMAIN v => r \in DOMAIN b /\ b[r] = v[r]
      /\ \A s : s # r => /\ s \in DOMAIN b <=> s \in DOMAIN y
                         /\ s \in DOMAIN y => b[s] = y[s]
  BY RestoredIs
<1> HIDE DEF a, b
<1>3. ASSUME NEW s \in (DOMAIN a \union DOMAIN b) \ ByExpressions(f)
      PROVE  s \in DOMAIN a \intersect DOMAIN b /\ a[s] = b[s]
  <2>1. CASE s = r
    <3>1. r \in (DOMAIN u \union DOMAIN v) \ ByExpressions(f)
      BY <1>1, <1>2, <2>1
    <3>2. r \in DOMAIN u /\ r \in DOMAIN v /\ u[r] = v[r]
      BY <3>1 DEF SameRegs
    <3> QED
      BY <1>1, <1>2, <2>1, <3>2
  <2>2. CASE s # r
    <3>1. s \in (DOMAIN x \union DOMAIN y) \ ByExpressions(f)
      BY <1>1, <1>2, <2>2
    <3>2. s \in DOMAIN x /\ s \in DOMAIN y /\ x[s] = y[s]
      BY <3>1 DEF SameRegs
    <3> QED
      BY <1>1, <1>2, <2>2, <3>2
  <2> QED
    BY <2>1, <2>2
<1>4. SameRegs(a, b, f)
  BY <1>3 DEF SameRegs
<1> QED
  BY <1>4 DEF a, b

\* Two runs with other rows are alike if the rows are.
LEMMA AlikeWith ==
  ASSUME NEW m, NEW n, NEW f, Alike(m, n, f), NEW m2, NEW n2,
         DOMAIN m2 = Machine, DOMAIN n2 = Machine, AlikeRows(m2.row, n2.row, f),
         m2.initial = m.initial, m2.saved = m.saved,
         n2.initial = n.initial, n2.saved = n.saved
  PROVE  Alike(m2, n2, f)
  BY DEF Alike

LEMMA CfaAlike ==
  ASSUME NEW m, NEW n, NEW f, NEW v, NEW w, Alike(m, n, f),
         RegistersOf(f, {"def_cfa_expression"}) = {} => v = w
  PROVE  Alike([m EXCEPT !.row.cfa = v], [n EXCEPT !.row.cfa = w], f)
<1> DEFINE a == [m EXCEPT !.row.cfa = v]
           b == [n EXCEPT !.row.cfa = w]
<1>1. AlikeRows(m.row, n.row, f) /\ DOMAIN m = Machine /\ DOMAIN m.row = Row
  BY AlikeRowsAre DEF Alike
<1>2. DOMAIN n = Machine /\ DOMAIN n.row = Row
  BY AlikeRowsAre DEF Alike
<1>3. /\ DOMAIN a = Machine /\ DOMAIN a.row = Row /\ a.row.cfa = v /\ a.row.regs = m.row.regs
      /\ a.initial = m.initial /\ a.saved = m.saved
  BY <1>1 DEF Machine, Row
<1>4. /\ DOMAIN b = Machine /\ DOMAIN b.row = Row /\ b.row.cfa = w /\ b.row.regs = n.row.regs
      /\ b.initial = n.initial /\ b.saved = n.saved
  BY <1>2 DEF Machine, Row
<1> HIDE DEF a, b
<1>5. AlikeRows(a.row, b.row, f)
  BY <1>1, <1>3, <1>4, AlikeRowsAre
<1>6. Alike(a, b, f)
  BY <1>3, <1>4, <1>5, AlikeWith
<1> QED
  BY <1>6 DEF a, b

\* A rule that only one of them has.
LEMMA CfaLost ==
  ASSUME NEW m, NEW n, NEW f, NEW w, Alike(m, n, f),
         RegistersOf(f, {"def_cfa_expression"}) # {}
  PROVE  Alike(m, [n EXCEPT !.row.cfa = w], f)
<1> DEFINE b == [n EXCEPT !.row.cfa = w]
<1>1. AlikeRows(m.row, n.row, f) /\ DOMAIN m = Machine
  BY DEF Alike
<1>2. DOMAIN n = Machine /\ DOMAIN n.row = Row
  BY AlikeRowsAre DEF Alike
<1>3. /\ DOMAIN b = Machine /\ DOMAIN b.row = Row /\ b.row.cfa = w /\ b.row.regs = n.row.regs
      /\ b.initial = n.initial /\ b.saved = n.saved
  BY <1>2 DEF Machine, Row
<1> HIDE DEF b
<1>4. AlikeRows(m.row, b.row, f)
  BY <1>1, <1>3, AlikeRowsAre
<1>5. Alike(m, b, f)
  BY <1>1, <1>3, <1>4, AlikeWith
<1> QED
  BY <1>5 DEF b

LEMMA RegsAlike ==
  ASSUME NEW m, NEW n, NEW f, NEW v, NEW w, Alike(m, n, f),
         SameRegs(v, w, f)
  PROVE  Alike([m EXCEPT !.row.regs = v], [n EXCEPT !.row.regs = w], f)
<1> DEFINE a == [m EXCEPT !.row.regs = v]
           b == [n EXCEPT !.row.regs = w]
<1>1. AlikeRows(m.row, n.row, f) /\ DOMAIN m = Machine /\ DOMAIN m.row = Row
  BY AlikeRowsAre DEF Alike
<1>2. DOMAIN n = Machine /\ DOMAIN n.row = Row
  BY AlikeRowsAre DEF Alike
<1>3. /\ DOMAIN a = Machine /\ DOMAIN a.row = Row /\ a.row.regs = v /\ a.row.cfa = m.row.cfa
      /\ a.initial = m.initial /\ a.saved = m.saved
  BY <1>1 DEF Machine, Row
<1>4. /\ DOMAIN b = Machine /\ DOMAIN b.row = Row /\ b.row.regs = w /\ b.row.cfa = n.row.cfa
      /\ b.initial = n.initial /\ b.saved = n.saved
  BY <1>2 DEF Machine, Row
<1> HIDE DEF a, b
<1>5. AlikeRows(a.row, b.row, f)
  BY <1>1, <1>3, <1>4, AlikeRowsAre
<1>6. Alike(a, b, f)
  BY <1>3, <1>4, <1>5, AlikeWith
<1> QED
  BY <1>6 DEF a, b

LEMMA RegsLost ==
  ASSUME NEW m, NEW n, NEW f, NEW w, Alike(m, n, f),
         SameRegs(m.row.regs, w, f)
  PROVE  Alike(m, [n EXCEPT !.row.regs = w], f)
<1> DEFINE b == [n EXCEPT !.row.regs = w]
<1>1. AlikeRows(m.row, n.row, f) /\ DOMAIN m = Machine
  BY DEF Alike
<1>2. DOMAIN n = Machine /\ DOMAIN n.row = Row
  BY AlikeRowsAre DEF Alike
<1>3. /\ DOMAIN b = Machine /\ DOMAIN b.row = Row /\ b.row.regs = w /\ b.row.cfa = n.row.cfa
      /\ b.initial = n.initial /\ b.saved = n.saved
  BY <1>2 DEF Machine, Row
<1> HIDE DEF b
<1>4. AlikeRows(m.row, b.row, f)
  BY <1>1, <1>3, AlikeRowsAre
<1>5. Alike(m, b, f)
  BY <1>1, <1>3, <1>4, AlikeWith
<1> QED
  BY <1>5 DEF b

LEMMA RememberAlike ==
  ASSUME NEW m, NEW n, NEW f, Alike(m, n, f)
  PROVE  Alike([m EXCEPT !.saved = Append(@, m.row)], [n EXCEPT !.saved = Append(@, n.row)], f)
<1> DEFINE a == [m EXCEPT !.saved = Append(@, m.row)]
           b == [n EXCEPT !.saved = Append(@, n.row)]
           s == Append(m.saved, m.row)
           t == Append(n.saved, n.row)
<1>1. /\ DOMAIN m = Machine /\ DOMAIN n = Machine /\ AlikeRows(m.row, n.row, f)
      /\ AlikeRows(m.initial, n.initial, f)
      /\ IsSeq(m.saved) /\ IsSeq(n.saved) /\ Len(m.saved) = Len(n.saved) /\ Len(m.saved) \in Nat
      /\ \A k \in 1..Len(m.saved) : AlikeRows(m.saved[k], n.saved[k], f)
  BY SeqLen DEF Alike
<1>2. DOMAIN a = Machine /\ a.row = m.row /\ a.initial = m.initial /\ a.saved = s
  BY <1>1 DEF Machine
<1>3. DOMAIN b = Machine /\ b.row = n.row /\ b.initial = n.initial /\ b.saved = t
  BY <1>1 DEF Machine
<1>4. /\ IsSeq(s) /\ Len(s) = Len(m.saved) + 1 /\ s[Len(m.saved) + 1] = m.row
      /\ \A k \in 1..Len(m.saved) : s[k] = m.saved[k]
  BY <1>1, SeqAppend
<1>5. /\ IsSeq(t) /\ Len(t) = Len(n.saved) + 1 /\ t[Len(n.saved) + 1] = n.row
      /\ \A k \in 1..Len(n.saved) : t[k] = n.saved[k]
  BY <1>1, SeqAppend
<1> HIDE DEF a, b, s, t
<1>6. \A k \in 1..Len(s) : AlikeRows(s[k], t[k], f)
  <2>1. \A k \in 1..Len(s) : k \in 1..Len(m.saved) \/ k = Len(m.saved) + 1
    BY <1>1, <1>4
  <2> QED
    BY <1>1, <1>4, <1>5, <2>1
<1>7. Alike(a, b, f)
  BY <1>1, <1>2, <1>3, <1>4, <1>5, <1>6 DEF Alike
<1> QED
  BY <1>7 DEF a, b

LEMMA SeqFront ==
  ASSUME NEW s, IsSeq(s), s # <<>>
  PROVE  /\ Len(s) \in 1..Len(s) /\ IsSeq(Front(s)) /\ Len(Front(s)) = Len(s) - 1
         /\ \A k \in 1..Len(Front(s)) : k \in 1..Len(s) /\ Front(s)[k] = s[k]
<1>1. Len(s) \in Nat /\ Len(s) \in 1..Len(s)
  BY SeqLen
<1>2. Len(s) - 1 \in 0..Len(s) /\ \A k \in 1..(Len(s) - 1) : k \in 1..Len(s)
  BY <1>1
<1>3. Front(s) = SubSeq(s, 1, Len(s) - 1)
  BY DEF Front
<1> QED
  BY <1>1, <1>2, <1>3, SeqPrefix

LEMMA RecallAlike ==
  ASSUME NEW m, NEW n, NEW f, Alike(m, n, f), m.saved # <<>>
  PROVE  /\ n.saved # <<>>
         /\ Alike([m EXCEPT !.row = m.saved[Len(m.saved)], !.saved = Front(@)],
                  [n EXCEPT !.row = n.saved[Len(n.saved)], !.saved = Front(@)], f)
<1> DEFINE a == [m EXCEPT !.row = m.saved[Len(m.saved)], !.saved = Front(@)]
           b == [n EXCEPT !.row = n.saved[Len(n.saved)], !.saved = Front(@)]
           s == Front(m.saved)
           t == Front(n.saved)
<1>1. /\ DOMAIN m = Machine /\ DOMAIN n = Machine /\ AlikeRows(m.initial, n.initial, f)
      /\ IsSeq(m.saved) /\ IsSeq(n.saved) /\ Len(m.saved) = Len(n.saved) /\ Len(m.saved) \in Nat
      /\ \A k \in 1..Len(m.saved) : AlikeRows(m.saved[k], n.saved[k], f)
  BY SeqLen DEF Alike
<1>2. n.saved # <<>>
  <2>1. Len(m.saved) \in 1..Len(m.saved)
    BY <1>1, SeqLen
  <2> QED
    BY <1>1, <2>1, SeqEmpty
<1>3. /\ DOMAIN a = Machine /\ a.row = m.saved[Len(m.saved)]
      /\ a.initial = m.initial /\ a.saved = s
  BY <1>1 DEF Machine
<1>4. /\ DOMAIN b = Machine /\ b.row = n.saved[Len(n.saved)]
      /\ b.initial = n.initial /\ b.saved = t
  BY <1>1 DEF Machine
<1>5. /\ Len(m.saved) \in 1..Len(m.saved) /\ IsSeq(s) /\ Len(s) = Len(m.saved) - 1
      /\ \A k \in 1..Len(s) : k \in 1..Len(m.saved) /\ s[k] = m.saved[k]
  BY <1>1, SeqFront
<1>6. /\ IsSeq(t) /\ Len(t) = Len(n.saved) - 1
      /\ \A k \in 1..Len(t) : t[k] = n.saved[k]
  BY <1>1, <1>2, SeqFront
<1> HIDE DEF a, b, s, t
<1>7. AlikeRows(a.row, b.row, f) /\ \A k \in 1..Len(s) : AlikeRows(s[k], t[k], f)
  BY <1>1, <1>3, <1>4, <1>5, <1>6
<1>8. Alike(a, b, f)
  BY <1>1, <1>3, <1>4, <1>5, <1>6, <1>7 DEF Alike
<1> QED
  BY <1>2, <1>8 DEF a, b

\* An instruction that has a directive does the same to both.
LEMMA ApplyAlike ==
  ASSUME NEW m, NEW n, NEW f, NEW i, NEW d, Alike(m, n, f), i.name \notin Unsupported
  PROVE  Alike(Apply(m, i, d), Apply(n, i, d), f)
<1>1. SameRegs(m.row.regs, n.row.regs, f) /\ SameRegs(m.initial.regs, n.initial.regs, f)
  BY AlikeRowsAre DEF Alike
<1>2. RegistersOf(f, {"def_cfa_expression"}) = {} => m.row.cfa = n.row.cfa
  BY AlikeRowsAre DEF Alike
<1>3. ASSUME NEW v
      PROVE  Alike([m EXCEPT !.row.regs = With(@, i.reg, v)],
                   [n EXCEPT !.row.regs = With(@, i.reg, v)], f)
  <2>1. SameRegs(With(m.row.regs, i.reg, v), With(n.row.regs, i.reg, v), f)
    BY <1>1, WithSame
  <2>2. Alike([m EXCEPT !.row.regs = With(m.row.regs, i.reg, v)],
              [n EXCEPT !.row.regs = With(n.row.regs, i.reg, v)], f)
    BY <2>1, RegsAlike
  <2> QED
    BY <2>2
<1>4. CASE i.name = "def_cfa"
  <2>1. Alike([m EXCEPT !.row.cfa = <<i.reg, d>>], [n EXCEPT !.row.cfa = <<i.reg, d>>], f)
    BY CfaAlike
  <2> QED
    BY <1>4, <2>1 DEF Apply
<1>5. CASE i.name = "def_cfa_offset"
  <2>1. Alike([m EXCEPT !.row.cfa = <<m.row.cfa[1], d>>],
              [n EXCEPT !.row.cfa = <<n.row.cfa[1], d>>], f)
    BY <1>2, CfaAlike
  <2> QED
    BY <1>5, <2>1 DEF Apply
<1>6. CASE i.name = "def_cfa_register"
  <2>1. Alike([m EXCEPT !.row.cfa = <<i.reg, m.row.cfa[2]>>],
              [n EXCEPT !.row.cfa = <<i.reg, n.row.cfa[2]>>], f)
    BY <1>2, CfaAlike
  <2> QED
    BY <1>6, <2>1 DEF Apply
<1>7. CASE i.name \in {"offset", "val_offset", "register"}
  BY <1>3, <1>7 DEF Apply
<1>8. CASE i.name \in {"undefined", "same_value"}
  BY <1>3, <1>8 DEF Apply
<1>9. CASE i.name = "restore"
  <2> DEFINE v == Restored(m.row.regs, m.initial.regs, i.reg)
             w == Restored(n.row.regs, n.initial.regs, i.reg)
  <2>1. SameRegs(v, w, f)
    BY <1>1, RestoredSame
  <2>2. Apply(m, i, d) = [m EXCEPT !.row.regs = v] /\ Apply(n, i, d) = [n EXCEPT !.row.regs = w]
    BY <1>9 DEF Apply, Restored
  <2> HIDE DEF v, w
  <2> QED
    BY <2>1, <2>2, RegsAlike
<1>10. CASE i.name = "remember_state"
  BY <1>10, RememberAlike DEF Apply
<1>11. CASE i.name = "restore_state"
  <2>1. m.saved # <<>> <=> n.saved # <<>>
    <3>1. /\ IsSeq(m.saved) /\ IsSeq(n.saved) /\ Len(m.saved) = Len(n.saved)
          /\ Len(m.saved) \in Nat
      BY SeqLen DEF Alike
    <3>2. \A s : IsSeq(s) => (s # <<>> <=> Len(s) # 0)
      <4>1. \A s : IsSeq(s) /\ s # <<>> => Len(s) \in Nat /\ Len(s) \in 1..Len(s)
        BY SeqLen
      <4> QED
        BY <4>1, SeqEmpty
    <3> QED
      BY <3>1, <3>2
  <2>2. CASE m.saved # <<>>
    BY <1>11, <2>1, <2>2, RecallAlike DEF Apply
  <2>3. CASE m.saved = <<>>
    BY <1>11, <2>1, <2>3 DEF Apply
  <2> QED
    BY <2>2, <2>3
<1>12. CASE i.name \notin {"def_cfa", "def_cfa_offset", "def_cfa_register", "offset", "val_offset",
                          "register", "undefined", "same_value", "restore", "remember_state",
                          "restore_state"}
  BY <1>12 DEF Apply, Unsupported
<1> QED
  BY <1>4, <1>5, <1>6, <1>7, <1>8, <1>9, <1>10, <1>11, <1>12

\* One without a directive changes what an expression is given for, or nothing.
LEMMA LoseAlike ==
  ASSUME NEW m, NEW n, NEW f, NEW i, NEW j, NEW d, Alike(m, n, f), IsOf(i, f),
         i.name \in Unsupported, j.name = i.name, j.reg = i.reg
  PROVE  Alike(m, Apply(n, j, d), f)
<1>1. SameRegs(m.row.regs, n.row.regs, f)
  BY AlikeRowsAre DEF Alike
<1>2. CASE j.name = "def_cfa_expression"
  <2>1. Alike(m, [n EXCEPT !.row.cfa = ByExpression], f)
    BY <1>2, CfaLost DEF IsOf
  <2> QED
    BY <1>2, <2>1 DEF Apply
<1>3. CASE j.name \in {"expression", "val_expression"}
  <2> DEFINE v == <<j.name, 0>>
  <2>1. j.reg \in ByExpressions(f)
    BY <1>3 DEF IsOf
  <2>2. Apply(n, j, d) = [n EXCEPT !.row.regs = With(n.row.regs, j.reg, v)]
    BY <1>3 DEF Apply
  <2> HIDE DEF v
  <2>3. SameRegs(m.row.regs, With(n.row.regs, j.reg, v), f)
    BY <1>1, <2>1, WithLost
  <2> QED
    BY <2>2, <2>3, RegsLost
<1>4. CASE j.name = "args_size"
  BY <1>4 DEF Apply
<1> QED
  BY <1>2, <1>3, <1>4 DEF Unsupported

LEMMA TurnAlike ==
  ASSUME NEW m, NEW n, NEW f, NEW i, NEW at, NEW when, Alike(m, n, f), IsOf(i, f)
  PROVE  Alike(Turn(m, Said(f, i, at), when), Turn(n, Step(f, i, at), when), f)
<1> DEFINE d == Step(f, i, at)
<1>1. d.name = i.name /\ d.reg = i.reg
  BY DEF Step
<1>2. CASE i.name \in Unsupported
  <2>1. Turn(m, Said(f, i, at), when) = m
    BY <1>2, WholeTurn DEF Said
  <2>2. Turn(n, d, when) = n \/ Turn(n, d, when) = Apply(n, d, d.n)
    BY DEF Turn
  <2> HIDE DEF d
  <2>3. Alike(m, Apply(n, d, d.n), f)
    BY <1>1, <1>2, LoseAlike
  <2> QED
    BY <2>1, <2>2, <2>3 DEF d
<1>3. CASE i.name \notin Unsupported
  <2>1. Said(f, i, at) = d
    BY <1>3 DEF Said
  <2> HIDE DEF d
  <2>2. Alike(Apply(m, d, d.n), Apply(n, d, d.n), f)
    BY <1>1, <1>3, ApplyAlike
  <2>3. Alike(Turn(m, d, when), Turn(n, d, when), f)
    BY <2>2 DEF Turn
  <2> QED
    BY <2>1, <2>3 DEF d
<1> QED
  BY <1>2, <1>3

\* Instructions of the description, with and without those that have no directive.
Matching(f, N, prog, at, s, t) ==
  /\ Len(s) = N /\ Len(t) = N
  /\ \A k \in 1..N : /\ IsOf(prog[k], f)
                     /\ s[k] = Said(f, prog[k], at[k]) /\ t[k] = Step(f, prog[k], at[k])

LEMMA RunAlike ==
  ASSUME NEW f, NEW N \in Nat, NEW prog, NEW at, NEW when, NEW s, NEW t, NEW m, NEW n,
         Matching(f, N, prog, at, s, t), Alike(m, n, f)
  PROVE  Alike(Run(m, s, when), Run(n, t, when), f)
<1>1. PICK g : Runs(m, s, when, N, g) /\ Run(m, s, when) = g[N]
  BY RunIs DEF Matching
<1>2. PICK h : Runs(n, t, when, N, h) /\ Run(n, t, when) = h[N]
  BY RunIs DEF Matching
<1> DEFINE S == {k \in 0..N : Alike(g[k], h[k], f)}
<1>3. 0 \in S
  BY <1>1, <1>2 DEF Runs
<1>4. ASSUME NEW k \in 1..N, k - 1 \in S
      PROVE  k \in S
  <2>1. Alike(g[k - 1], h[k - 1], f) /\ k \in 0..N
    BY <1>4
  <2>2. g[k] = Turn(g[k - 1], s[k], when) /\ h[k] = Turn(h[k - 1], t[k], when)
    BY <1>1, <1>2 DEF Runs
  <2>3. Alike(Turn(g[k - 1], s[k], when), Turn(h[k - 1], t[k], when), f)
    BY <2>1, TurnAlike DEF Matching
  <2> QED
    BY <2>1, <2>2, <2>3
<1> HIDE DEF S
<1>5. N \in S
  BY <1>3, <1>4, UpTo
<1> QED
  BY <1>1, <1>2, <1>5 DEF S

LEMMA FreshAlike ==
  ASSUME NEW x, NEW y, NEW f, AlikeRows(x, y, f)
  PROVE  Alike(Fresh(x), Fresh(y), f)
<1>1. DOMAIN Fresh(x) = Machine /\ Fresh(x).row = x /\ Fresh(x).initial = x /\ Fresh(x).saved = <<>>
  BY DEF Fresh, Machine
<1>2. DOMAIN Fresh(y) = Machine /\ Fresh(y).row = y /\ Fresh(y).initial = y /\ Fresh(y).saved = <<>>
  BY DEF Fresh, Machine
<1>3. \A k \in 1..Len(<<>>) : FALSE
  BY SeqEmpty
<1> QED
  BY <1>1, <1>2, <1>3, SeqEmpty DEF Alike

LEMMA RulesAlike ==
  ASSUME NEW f, FrameOK(f), NEW p \in Nat, Legible(f.cie.program) = 1..p,
         NEW q \in Nat, Legible(f.program) = 1..q, NEW a
  PROVE  SameRules(Rules(InitialSaid(f, p), LaterSaid(f, q), a),
                   Rules(InitialSteps(f, p), LaterSteps(f, q), a), f)
<1>1. \A k \in 1..p : IsOf(f.cie.program[k], f)
  BY DEF IsOf, RegistersOf, ByExpressions
<1>2. \A k \in 1..q : IsOf(f.program[k], f)
  BY DEF IsOf, RegistersOf, ByExpressions
<1> DEFINE here == [k \in 1..p |-> NoAddress]
           x == Run(Fresh(NoRules), InitialSaid(f, p), {NoAddress}).row
           y == Run(Fresh(NoRules), InitialSteps(f, p), {NoAddress}).row
<1>3. AlikeRows(NoRules, NoRules, f)
  <2>1. DOMAIN NoRules = Row /\ NoRules.regs = <<>> /\ DOMAIN <<>> = {}
    BY DEF NoRules, Row
  <2>2. SameRegs(NoRules.regs, NoRules.regs, f)
    BY <2>1 DEF SameRegs
  <2> QED
    BY <2>1, <2>2, AlikeRowsAre
<1>4. Alike(Fresh(NoRules), Fresh(NoRules), f)
  BY <1>3, FreshAlike
<1>5. Alike(Run(Fresh(NoRules), InitialSaid(f, p), {NoAddress}),
            Run(Fresh(NoRules), InitialSteps(f, p), {NoAddress}), f)
  <2>1. \A k \in 1..p : here[k] = NoAddress
    OBVIOUS
  <2> HIDE DEF here
  <2>2. Matching(f, p, f.cie.program, here, InitialSaid(f, p), InitialSteps(f, p))
    BY <1>1, <2>1, SaidSeq, StepsSeq DEF Matching
  <2> QED
    BY <1>4, <2>2, RunAlike
<1>6. AlikeRows(x, y, f)
  BY <1>5 DEF Alike
<1> HIDE DEF x, y
<1>7. Alike(Fresh(x), Fresh(y), f)
  BY <1>6, FreshAlike
<1>8. Alike(Run(Fresh(x), LaterSaid(f, q), 0..a), Run(Fresh(y), LaterSteps(f, q), 0..a), f)
  <2> DEFINE when == 0..a
  <2>1. Matching(f, q, f.program, Locations(f), LaterSaid(f, q), LaterSteps(f, q))
    BY <1>2, SaidSeq, StepsSeq DEF Matching
  <2> HIDE DEF when
  <2>2. Alike(Run(Fresh(x), LaterSaid(f, q), when), Run(Fresh(y), LaterSteps(f, q), when), f)
    BY <1>7, <2>1, RunAlike
  <2> QED
    BY <2>2 DEF when
<1>9. AlikeRows(Run(Fresh(x), LaterSaid(f, q), 0..a).row,
                Run(Fresh(y), LaterSteps(f, q), 0..a).row, f)
  BY <1>8 DEF Alike
<1> QED
  BY <1>9 DEF AlikeRows, Rules, x, y

-----------------------------------------------------------------------------
\* File::cfi converts the instructions of the description: at every address of the function
\* the directives it returns give the rules that the standard gives of the description's two
\* programs, whatever their instructions, up to the first that cannot be read; but for what
\* an expression says, which has no directive, and an Other shows that.
THEOREM RulesConverted == CfiSpec => []RulesKept
<1>1. CfiInv /\ RulesInv => RulesKept
  <2> SUFFICES ASSUME CfiInv, RulesInv, phase = "done", found # NotFound
               PROVE  /\ cfi[1].name = "startproc"
                      /\ cfi[Len(cfi)] = [at |-> fde.begin + fde.len, name |-> "endproc"]
                      /\ RegistersOf(fde, Unsupported) # {} =>
                           \E k \in DOMAIN cfi : cfi[k].name = "other"
                      /\ NeverBack(fde) =>
                           \A a \in fde.begin..(fde.begin + fde.len - 1) :
                             SameRules(RulesFrom(cfi, a), RulesOf(fde, a), fde)
    BY DEF RulesKept
  <2>1. PICK p \in Nat : \E q \in Nat :
          /\ Legible(fde.cie.program) = 1..p /\ Legible(fde.program) = 1..q
          /\ Says(cfi, fde, p, q)
    BY DEF RulesInv
  <2>2. PICK q \in Nat : Legible(fde.program) = 1..q /\ Says(cfi, fde, p, q)
    BY <2>1
  <2>3. FrameOK(fde)
    BY FoundFrame
  <2>4. ASSUME NeverBack(fde), NEW a \in fde.begin..(fde.begin + fde.len - 1)
        PROVE  SameRules(RulesFrom(cfi, a), RulesOf(fde, a), fde)
    <3>1. a \in Nat
      BY <2>3 DEF FrameOK
    <3>2. RulesOf(fde, a) = Rules(InitialSteps(fde, p), LaterSteps(fde, q), a)
      BY <2>1, <2>2, <2>3, <2>4, <3>1, RowIs
    <3>3. RulesFrom(cfi, a) = Rules(InitialSaid(fde, p), LaterSaid(fde, q), a)
      BY <2>2 DEF RulesFrom, Rules, Says
    <3>4. SameRules(Rules(InitialSaid(fde, p), LaterSaid(fde, q), a),
                    Rules(InitialSteps(fde, p), LaterSteps(fde, q), a), fde)
      BY <2>1, <2>2, <2>3, RulesAlike
    <3> QED
      BY <3>2, <3>3, <3>4
  <2>5. cfi[1].name = "startproc"
    BY <2>2 DEF Says
  <2>6. ASSUME RegistersOf(fde, Unsupported) # {}
        PROVE  \E k \in DOMAIN cfi : cfi[k].name = "other"
    <3>1. \/ \E k \in 1..p : fde.cie.program[k].name \in Unsupported
          \/ \E k \in 1..q : fde.program[k].name \in Unsupported
      BY <2>1, <2>2, <2>6 DEF RegistersOf
    <3>2. HasOther(cfi)
      BY <2>2, <3>1 DEF Says
    <3>3. DOMAIN cfi = 1..Len(cfi)
      BY <2>2, SeqLen DEF Says
    <3> QED
      BY <3>2, <3>3 DEF HasOther
  <2> QED
    BY <2>4, <2>5, <2>6 DEF RulesInv
<1>2. CfiInit => CfiInv /\ RulesInv
  BY CfiInitInv, RulesInit
<1>3. CfiInv /\ RulesInv /\ [CfiNext]_cfiVars => (CfiInv /\ RulesInv)'
  BY CfiStep, RulesStep
<1> QED
  BY <1>1, <1>2, <1>3, PTL DEF CfiSpec

-----------------------------------------------------------------------------
(* The calls of get_function_details.                                      *)

\* What Init allows in `die'.
TreeOK ==
  /\ \E t \in Trees : die = t.die
  /\ \A d \in DOMAIN die : die[d].kids \in Seq(DOMAIN die)
  /\ \A d \in FunctionDies : \A o \in OriginOf(d) : die[o].tag = "subprogram"

Near(d) == Kids(d) \union UNION {Kids(b) : b \in BlocksOf(d)}

CallOK(c) ==
  /\ DOMAIN c = {"at", "phase", "todo", "details"} /\ c.at \in FunctionDies
  /\ IsSeq(c.todo) /\ \A k \in 1..Len(c.todo) : c.todo[k].at \in Near(c.at)

GoodCalls(cs) ==
  /\ IsSeq(cs)
  /\ \A i \in 1..Len(cs) : CallOK(cs[i])
  /\ \A i, j \in 1..Len(cs) : i < j => cs[j].at \in Reached[cs[i].at]
  /\ cs # <<>> => die[cs[1].at].tag = "subprogram"
  /\ \A i \in 1..(Len(cs) - 1) : die[cs[i + 1].at].tag = "inlined" => cs[i].todo # <<>>

\* The stack has room for a call per entry.
Roomy ==
  \A t \in Trees : IsFiniteSet(DOMAIN t.die) /\ Cardinality(DOMAIN t.die) <= MaxCalls

DetailsInv ==
  TreeOK /\ GoodCalls(calls) /\ (Roomy /\ outcome = "overflow" => Cyclic)

-----------------------------------------------------------------------------
\* What is near a function is below it.
LEMMA NearIsBelow ==
  ASSUME NEW d, NEW e \in Near(d)
  PROVE  \E x \in Below(d) : x.at = e
<1>1. ASSUME e \in Kids(d)
      PROVE  \E x \in Below(d) : x.at = e
  <2>1. [at |-> e, block |-> FALSE] \in Below(d)
    BY <1>1 DEF Below
  <2> QED
    BY <2>1
<1>2. ASSUME e \in UNION {Kids(b) : b \in BlocksOf(d)}
      PROVE  \E x \in Below(d) : x.at = e
  <2>1. [at |-> e, block |-> TRUE] \in Below(d)
    BY <1>2 DEF Below
  <2> QED
    BY <2>1
<1> QED
  BY <1>1, <1>2 DEF Near

\* What can be left to do in a call lies below its function.
LEMMA NearBelow ==
  ASSUME TreeOK, NEW d \in FunctionDies
  PROVE  /\ Near(d) \subseteq DOMAIN die
         /\ \A b \in Near(d) :
              die[b].tag = "block" => b \in BlocksOf(d) /\ Kids(b) \subseteq Near(d)
         /\ \A e \in Near(d) : die[e].tag = "inlined" => e \in Needs[d]
<1> DEFINE blocks == {b \in DOMAIN die : die[b].tag = "block"}
           nested == [x \in blocks \union {d} |-> Kids(x) \intersect blocks]
<1>1. \A x \in DOMAIN die : Kids(x) \subseteq DOMAIN die
  <2> TAKE x \in DOMAIN die
  <2>1. die[x].kids \in Seq(DOMAIN die)
    BY DEF TreeOK
  <2> QED
    BY <2>1 DEF Kids, ToSet
<1>2. d \in DOMAIN die
  BY DEF FunctionDies
<1>3. BlocksOf(d) = {b \in blocks : \A S \in SUBSET blocks :
                       (\A x \in S \union {d} : nested[x] \subseteq S) => b \in S}
  BY DEF BlocksOf
<1>4. \A x \in blocks \union {d} : nested[x] = Kids(x) \intersect blocks
  OBVIOUS
<1>5. blocks \subseteq DOMAIN die
  OBVIOUS
<1>6. \A b \in DOMAIN die : die[b].tag = "block" => b \in blocks
  OBVIOUS
<1> HIDE DEF blocks, nested
<1>7. Near(d) \subseteq DOMAIN die
  BY <1>1, <1>2, <1>3, <1>5 DEF Near
<1>8. ASSUME NEW b \in Near(d), die[b].tag = "block"
      PROVE  b \in BlocksOf(d) /\ Kids(b) \subseteq Near(d)
  <2>1. b \in blocks
    BY <1>6, <1>7, <1>8
  <2>2. ASSUME NEW S \in SUBSET blocks, \A x \in S \union {d} : nested[x] \subseteq S
        PROVE  b \in S
    <3>1. CASE b \in Kids(d)
      BY <1>4, <2>1, <2>2, <3>1
    <3>2. ASSUME NEW c \in BlocksOf(d), b \in Kids(c)
          PROVE  b \in S
      <4>1. c \in S /\ c \in blocks
        BY <1>3, <2>2
      <4> QED
        BY <1>4, <2>1, <2>2, <3>2, <4>1
    <3> QED
      BY <1>8, <3>1, <3>2 DEF Near
  <2>3. b \in BlocksOf(d)
    BY <1>3, <2>1, <2>2
  <2> QED
    BY <2>3 DEF Near
<1>9. ASSUME NEW e \in Near(d), die[e].tag = "inlined"
      PROVE  e \in Needs[d]
  <2>1. \E y \in Below(d) : y.at = e
    BY NearIsBelow
  <2>2. e \in Own(d, "inlined")
    BY <1>9, <2>1 DEF Own
  <2> QED
    BY <2>2 DEF Needs
<1> QED
  BY <1>7, <1>8, <1>9

LEMMA NeedsFunctions ==
  ASSUME TreeOK, NEW d \in FunctionDies
  PROVE  Needs[d] \subseteq FunctionDies
<1>1. OriginOf(d) \subseteq FunctionDies
  BY DEF TreeOK, OriginOf, FunctionDies
<1>2. ASSUME NEW e \in Own(d, "inlined")
      PROVE  e \in FunctionDies
  <2>1. PICK y \in Below(d) : y.at = e /\ die[y.at].tag = "inlined"
    BY DEF Own
  <2>2. y.at \in Near(d)
    BY DEF Below, Near
  <2> QED
    BY <2>1, <2>2, NearBelow DEF FunctionDies
<1> QED
  BY <1>1, <1>2 DEF Needs

\* One call more is reached from all below it.
LEMMA ReachedClosed ==
  ASSUME TreeOK, NEW d \in FunctionDies
  PROVE  /\ Reached[d] \subseteq FunctionDies
         /\ Needs[d] \subseteq Reached[d]
         /\ \A e \in Reached[d] : Needs[e] \subseteq Reached[d]
<1>1. Reached[d] = {e \in FunctionDies : \A S \in SUBSET FunctionDies :
                      (\A x \in S \union {d} : Needs[x] \subseteq S) => e \in S}
  BY DEF Reached
<1>2. Needs[d] \subseteq FunctionDies /\ \A e \in FunctionDies : Needs[e] \subseteq FunctionDies
  BY NeedsFunctions
<1> QED
  BY <1>1, <1>2

-----------------------------------------------------------------------------
\* The calls up to the n-th, the n-th changed but still of the same function.
LEMMA GoodChanged ==
  ASSUME NEW cs, GoodCalls(cs), NEW n \in 1..Len(cs), NEW p, IsSeq(p), Len(p) = n,
         \A i \in 1..(n - 1) : p[i] = cs[i], CallOK(p[n]), p[n].at = cs[n].at
  PROVE  GoodCalls(p)
<1>1. /\ Len(cs) \in Nat /\ n \in Nat /\ 1..n \subseteq 1..Len(cs) /\ 1 \in 1..n
      /\ cs # <<>>
  <2>1. Len(cs) \in Nat
    BY SeqLen DEF GoodCalls
  <2>2. Len(<<>>) = 0
    BY SeqEmpty
  <2> QED
    BY <2>1, <2>2
<1>2. \A i \in 1..n : p[i].at = cs[i].at /\ CallOK(p[i])
  <2> TAKE i \in 1..n
  <2>1. CASE i = n
    BY <2>1
  <2>2. CASE i # n
    <3>1. i \in 1..(n - 1)
      BY <1>1, <2>2
    <3> QED
      BY <1>1, <3>1 DEF GoodCalls
  <2> QED
    BY <2>1, <2>2
<1>3. \A i, j \in 1..n : i < j => p[j].at \in Reached[p[i].at]
  BY <1>1, <1>2 DEF GoodCalls
<1>4. die[p[1].at].tag = "subprogram"
  BY <1>1, <1>2 DEF GoodCalls
<1>5. ASSUME NEW i \in 1..(n - 1), die[p[i + 1].at].tag = "inlined"
      PROVE  p[i].todo # <<>>
  <2>1. i + 1 \in 1..n /\ i \in 1..(Len(cs) - 1)
    BY <1>1
  <2>2. p[i + 1].at = cs[i + 1].at /\ p[i] = cs[i]
    BY <1>2, <2>1
  <2> QED
    BY <1>5, <2>1, <2>2 DEF GoodCalls
<1> QED
  BY <1>2, <1>3, <1>4, <1>5 DEF GoodCalls

LEMMA GoodPrefix ==
  ASSUME NEW cs, GoodCalls(cs), NEW n \in 0..Len(cs)
  PROVE  GoodCalls(SubSeq(cs, 1, n)) /\ IsSeq(SubSeq(cs, 1, n)) /\ Len(SubSeq(cs, 1, n)) = n
         /\ \A i \in 1..n : SubSeq(cs, 1, n)[i] = cs[i]
<1> DEFINE p == SubSeq(cs, 1, n)
<1>1. IsSeq(p) /\ Len(p) = n /\ \A i \in 1..n : p[i] = cs[i]
  BY SeqPrefix DEF GoodCalls
<1>2. Len(cs) \in Nat
  BY SeqLen DEF GoodCalls
<1> HIDE DEF p
<1>3. CASE n = 0
  <2>1. p = <<>>
    <3>1. p # <<>> => Len(p) \in 1..Len(p)
      BY <1>1, SeqLen
    <3> QED
      BY <1>1, <1>3, <3>1
  <2> QED
    BY <1>1, <1>3, <2>1, SeqEmpty DEF GoodCalls, p
<1>4. CASE n # 0
  <2>1. n \in 1..Len(cs) /\ n \in 1..n /\ \A i \in 1..(n - 1) : i \in 1..n
    BY <1>2, <1>4
  <2>2. CallOK(p[n]) /\ p[n].at = cs[n].at
    BY <1>1, <2>1 DEF GoodCalls
  <2>3. GoodCalls(p)
    BY <1>1, <2>1, <2>2, GoodChanged
  <2> QED
    BY <1>1, <2>3 DEF p
<1> QED
  BY <1>3, <1>4

LEMMA GoodTop ==
  ASSUME NEW cs, GoodCalls(cs), cs # <<>>, NEW c, CallOK(c), c.at = cs[Len(cs)].at
  PROVE  GoodCalls([cs EXCEPT ![Len(cs)] = c])
<1> DEFINE p == [cs EXCEPT ![Len(cs)] = c]
<1>1. IsSeq(p) /\ Len(p) = Len(cs) /\ p[Len(cs)] = c
      /\ \A i \in 1..(Len(cs) - 1) : p[i] = cs[i]
  BY SeqTopSet DEF GoodCalls
<1>2. Len(cs) \in 1..Len(cs)
  BY SeqLen DEF GoodCalls
<1> HIDE DEF p
<1>3. GoodCalls(p)
  BY <1>1, <1>2, GoodChanged
<1> QED
  BY <1>3 DEF p

LEMMA GoodPush ==
  ASSUME TreeOK, NEW cs, GoodCalls(cs), cs # <<>>, NEW d \in Needs[cs[Len(cs)].at],
         die[d].tag = "inlined" => cs[Len(cs)].todo # <<>>
  PROVE  GoodCalls(Append(cs, CallOf(d)))
<1> DEFINE p == Append(cs, CallOf(d))
           n == Len(cs)
<1>1. IsSeq(p) /\ Len(p) = n + 1 /\ p[n + 1] = CallOf(d) /\ \A i \in 1..n : p[i] = cs[i]
  BY SeqAppend DEF GoodCalls
<1>2. n \in Nat /\ n \in 1..n /\ 1 \in 1..n
  BY SeqLen DEF GoodCalls
<1>3. \A i \in 1..n : cs[i].at \in FunctionDies
  BY DEF GoodCalls, CallOK
<1>4. d \in FunctionDies
  BY <1>2, <1>3, NeedsFunctions
<1>5. CallOK(CallOf(d)) /\ CallOf(d).at = d
  BY <1>4, SeqEmpty DEF CallOf, CallOK
<1>6. \A i \in 1..n : d \in Reached[cs[i].at]
  <2> TAKE i \in 1..n
  <2>1. CASE i = n
    BY <1>3, <2>1, ReachedClosed
  <2>2. CASE i # n
    <3>1. i < n
      BY <1>2, <2>2
    <3>2. cs[n].at \in Reached[cs[i].at]
      BY <1>2, <3>1 DEF GoodCalls
    <3> QED
      BY <1>3, <3>2, ReachedClosed
  <2> QED
    BY <2>1, <2>2
<1> HIDE DEF p, n
<1>7. \A i \in 1..(n + 1) : i \in 1..n \/ i = n + 1
  BY <1>2
<1>8. \A i \in 1..(n + 1) : CallOK(p[i])
  BY <1>1, <1>5, <1>7 DEF GoodCalls, n
<1>9. \A i, j \in 1..(n + 1) : i < j => p[j].at \in Reached[p[i].at]
  <2> SUFFICES ASSUME NEW i \in 1..(n + 1), NEW j \in 1..(n + 1), i < j
               PROVE  p[j].at \in Reached[p[i].at]
    OBVIOUS
  <2>1. i \in 1..n
    BY <1>2
  <2>2. CASE j \in 1..n
    BY <1>1, <2>1, <2>2 DEF GoodCalls, n
  <2>3. CASE j = n + 1
    BY <1>1, <1>5, <1>6, <2>1, <2>3
  <2> QED
    BY <1>7, <2>2, <2>3
<1>10. die[p[1].at].tag = "subprogram"
  BY <1>1, <1>2 DEF GoodCalls
<1>11. ASSUME NEW i \in 1..n, die[p[i + 1].at].tag = "inlined"
       PROVE  p[i].todo # <<>>
  <2>1. CASE i = n
    BY <1>1, <1>5, <1>11, <2>1 DEF n
  <2>2. CASE i # n
    <3>1. i + 1 \in 1..n /\ i \in 1..(n - 1)
      BY <1>2, <2>2
    <3>2. p[i + 1] = cs[i + 1] /\ p[i] = cs[i]
      BY <1>1, <3>1
    <3> QED
      BY <1>11, <3>1, <3>2 DEF GoodCalls, n
  <2> QED
    BY <2>1, <2>2
<1>12. Len(p) - 1 = n
  BY <1>1, <1>2
<1> QED
  BY <1>1, <1>8, <1>9, <1>10, <1>11, <1>12 DEF GoodCalls, p

-----------------------------------------------------------------------------
\* More calls than functions: one is active twice.
LEMMA TooManyCalls ==
  ASSUME TreeOK, GoodCalls(calls), calls # <<>>, NEW d \in Needs[inner.at],
         ~(Len(calls) < MaxCalls), die[d].tag = "inlined" => inner.todo # <<>>,
         Roomy
  PROVE  Cyclic
<1> DEFINE p == Append(calls, CallOf(d))
           n == Len(calls) + 1
           f == [i \in 1..n |-> p[i].at]
<1>1. GoodCalls(p) /\ Len(p) = n /\ n \in Nat /\ n > MaxCalls
  <2>1. Len(calls) \in Nat
    BY SeqLen DEF GoodCalls
  <2>2. GoodCalls(p)
    BY GoodPush DEF inner
  <2>3. Len(p) = n
    BY SeqAppend DEF GoodCalls
  <2> QED
    BY <2>1, <2>2, <2>3, MaxCallsAssumption
<1>2. IsFiniteSet(FunctionDies) /\ Cardinality(FunctionDies) <= MaxCalls
      /\ Cardinality(FunctionDies) \in Nat
  <2>1. PICK t \in Trees : die = t.die
    BY DEF TreeOK
  <2>2. IsFiniteSet(DOMAIN die) /\ Cardinality(DOMAIN die) <= MaxCalls
    BY <2>1 DEF Roomy
  <2>3. FunctionDies \subseteq DOMAIN die
    BY DEF FunctionDies
  <2>4. IsFiniteSet(FunctionDies) /\ Cardinality(FunctionDies) <= Cardinality(DOMAIN die)
    BY <2>2, <2>3, FS_Subset
  <2>5. Cardinality(FunctionDies) \in Nat /\ Cardinality(DOMAIN die) \in Nat
    BY <2>2, <2>4, FS_CardinalityType
  <2> QED
    BY <2>2, <2>4, <2>5, MaxCallsAssumption
<1> HIDE DEF p, n
<1>3. f \in [1..n -> FunctionDies]
  BY <1>1 DEF GoodCalls, CallOK
<1>4. IsFiniteSet(1..n) /\ Cardinality(1..n) = n
  BY <1>1, FS_Interval
<1>5. Cardinality(FunctionDies) < Cardinality(1..n)
  BY <1>1, <1>2, <1>4, MaxCallsAssumption
<1>6. \E x, y \in 1..n : x # y /\ f[x] = f[y]
  <2> HIDE DEF f
  <2> QED
    BY <1>2, <1>3, <1>4, <1>5, FS_PigeonHole
<1>7. PICK i \in 1..n, j \in 1..n : i < j /\ p[i].at = p[j].at
  BY <1>1, <1>6
<1>8. p[i].at \in Reached[p[i].at] /\ p[i].at \in FunctionDies
  BY <1>1, <1>7 DEF GoodCalls, CallOK
<1> QED
  BY <1>8 DEF Cyclic

-----------------------------------------------------------------------------
(* The steps. *)
LEMMA TreeSame ==
  ASSUME TreeOK, UNCHANGED die
  PROVE  /\ TreeOK' /\ FunctionDies' = FunctionDies /\ Reached' = Reached /\ Cyclic' = Cyclic
         /\ \A d : Near(d)' = Near(d)
<1>1. FunctionDies' = FunctionDies
  BY DEF FunctionDies
<1>2. \A d : Near(d)' = Near(d)
  BY DEF Near, Kids, BlocksOf
<1>3. Needs' = Needs
  BY DEF Needs, FunctionDies, OriginOf, Own, Below, Kids, BlocksOf
<1>4. Reached' = Reached
  BY <1>1, <1>3 DEF Reached
<1>5. Cyclic' = Cyclic
  BY <1>1, <1>4 DEF Cyclic
<1>6. TreeOK'
  BY DEF TreeOK, FunctionDies, OriginOf
<1> QED
  BY <1>1, <1>2, <1>4, <1>5, <1>6

LEMMA GoodCallsNext ==
  ASSUME TreeOK, UNCHANGED die, GoodCalls(calls')
  PROVE  TreeOK' /\ GoodCalls(calls)'
<1>1. /\ TreeOK' /\ FunctionDies' = FunctionDies /\ Reached' = Reached
      /\ \A d : Near(d)' = Near(d)
  BY TreeSame
<1>2. GoodCalls(calls)'
  BY <1>1 DEF GoodCalls, CallOK
<1> QED
  BY <1>1, <1>2

LEMMA InnerCall ==
  ASSUME GoodCalls(calls), calls # <<>>
  PROVE  /\ CallOK(inner) /\ Len(calls) \in 1..Len(calls) /\ Len(calls) \in Nat
         /\ inner.at \in FunctionDies /\ IsSeq(inner.todo)
         /\ DOMAIN inner = {"at", "phase", "todo", "details"}
         /\ \A k \in 1..Len(inner.todo) : inner.todo[k].at \in Near(inner.at)
  BY SeqLen DEF GoodCalls, CallOK, inner

\* What is to do next, and a call that has done it.
LEMMA NextItem ==
  ASSUME GoodCalls(calls), calls # <<>>, inner.todo # <<>>
  PROVE  /\ item.at \in Near(inner.at)
         /\ CallOK(Past(inner)) /\ Past(inner).at = inner.at
         /\ DOMAIN Past(inner) = {"at", "phase", "todo", "details"}
<1>1. /\ CallOK(inner) /\ IsSeq(inner.todo) /\ inner.at \in FunctionDies
      /\ DOMAIN inner = {"at", "phase", "todo", "details"}
      /\ \A k \in 1..Len(inner.todo) : inner.todo[k].at \in Near(inner.at)
  BY InnerCall
<1> DEFINE c == inner
           t == inner.todo
<1>2. /\ IsSeq(Tail(t)) /\ Len(Tail(t)) = Len(t) - 1 /\ Len(t) \in Nat \ {0}
      /\ Head(t) = t[1] /\ \A i \in 1..(Len(t) - 1) : i + 1 \in 1..Len(t) /\ Tail(t)[i] = t[i + 1]
  BY <1>1, SeqTail
<1>3. item.at \in Near(c.at)
  <2>1. 1 \in 1..Len(t)
    BY <1>2
  <2> QED
    BY <1>1, <1>2, <2>1 DEF item
<1>4. \A k \in 1..Len(Tail(t)) : Tail(t)[k].at \in Near(c.at)
  BY <1>1, <1>2
<1>5. /\ Past(c).at = c.at /\ Past(c).todo = Tail(t)
      /\ DOMAIN Past(c) = {"at", "phase", "todo", "details"}
  BY <1>1 DEF Past
<1> QED
  BY <1>1, <1>2, <1>3, <1>4, <1>5 DEF CallOK

LEMMA DetailsDone ==
  ASSUME NEW c, CallOK(c), NEW e
  PROVE  CallOK([c EXCEPT !.details = e]) /\ [c EXCEPT !.details = e].at = c.at
  BY DEF CallOK

LEMMA ItemsAre ==
  ASSUME TreeOK, NEW d \in DOMAIN die, NEW block
  PROVE  /\ IsSeq(Items(d, block)) /\ Len(Items(d, block)) = Len(die[d].kids)
         /\ DOMAIN die[d].kids = 1..Len(Items(d, block)) /\ Len(Items(d, block)) \in Nat
         /\ \A k \in 1..Len(Items(d, block)) : Items(d, block)[k].at = die[d].kids[k]
<1> DEFINE s == die[d].kids
           n == Len(s)
           it == Items(d, block)
           T == {[at |-> e, block |-> block] : e \in DOMAIN die}
<1>1. s \in Seq(DOMAIN die)
  BY DEF TreeOK
<1>2. n \in Nat /\ DOMAIN s = 1..n /\ \A k \in 1..n : s[k] \in DOMAIN die
  BY <1>1, LenProperties
<1>3. it = [k \in 1..n |-> [at |-> s[k], block |-> block]]
  BY <1>2 DEF Items
<1>4. it \in [1..n -> T]
  BY <1>2, <1>3
<1>5. it \in Seq(T) /\ Len(it) = n
  <2> HIDE DEF it, T, n
  <2> QED
    BY <1>2, <1>4, SeqDef, LenProperties
<1>6. \A k \in 1..n : it[k].at = s[k]
  BY <1>3
<1> HIDE DEF it, n
<1> QED
  BY <1>2, <1>5, <1>6 DEF IsSeq, it, n

LEMMA ItemsBelow ==
  ASSUME TreeOK, NEW d \in DOMAIN die, NEW block
  PROVE  /\ IsSeq(Items(d, block))
         /\ \A k \in 1..Len(Items(d, block)) : Items(d, block)[k].at \in Kids(d)
<1> DEFINE it == Items(d, block)
<1>1. /\ IsSeq(it) /\ DOMAIN die[d].kids = 1..Len(it)
      /\ \A k \in 1..Len(it) : it[k].at = die[d].kids[k]
  BY ItemsAre
<1> HIDE DEF it
<1>2. \A k \in 1..Len(it) : it[k].at \in Kids(d)
  BY <1>1 DEF Kids, ToSet
<1> QED
  BY <1>1, <1>2 DEF it

LEMMA BeginOK ==
  ASSUME TreeOK, NEW c, CallOK(c)
  PROVE  CallOK(BeginChildren(c)) /\ BeginChildren(c).at = c.at
<1>1. c.at \in FunctionDies /\ DOMAIN c = {"at", "phase", "todo", "details"}
  BY DEF CallOK
<1>2. c.at \in DOMAIN die
  BY <1>1 DEF FunctionDies
<1>3. /\ IsSeq(Items(c.at, FALSE))
      /\ \A k \in 1..Len(Items(c.at, FALSE)) : Items(c.at, FALSE)[k].at \in Near(c.at)
  BY <1>2, ItemsBelow DEF Near
<1> DEFINE b == BeginChildren(c)
<1>4. /\ b.at = c.at /\ b.todo = Items(c.at, FALSE)
      /\ DOMAIN b = {"at", "phase", "todo", "details"}
  BY <1>1 DEF BeginChildren
<1> HIDE DEF b
<1>5. CallOK(b)
  BY <1>1, <1>3, <1>4 DEF CallOK
<1> QED
  BY <1>4, <1>5 DEF b

LEMMA ReceivedOK ==
  ASSUME TreeOK, NEW c, CallOK(c), NEW got
  PROVE  CallOK(Received(c, got)) /\ Received(c, got).at = c.at
<1> DEFINE g == IF die[c.at].tag = "inlined" THEN [got EXCEPT !.inlined = <<>>] ELSE got
           b == [c EXCEPT !.details = g]
<1>1. CallOK(b) /\ b.at = c.at
  <2> HIDE DEF g
  <2> QED
    BY DetailsDone
<1>2. Received(c, got) = BeginChildren(b)
  BY DEF Received
<1> HIDE DEF b
<1> QED
  BY <1>1, <1>2, BeginOK

\* A call returns: the one below it goes on.
LEMMA DeliverOK ==
  ASSUME TreeOK, NEW below, GoodCalls(below), NEW got, Deliver(below, got), outcome = "running"
  PROVE  GoodCalls(calls') /\ outcome' # "overflow"
<1>1. CASE below = <<>>
  <2>1. calls' = <<>> /\ outcome' = "done"
    BY <1>1 DEF Deliver
  <2>2. Len(<<>>) = 0 /\ IsSeq(<<>>)
    BY SeqEmpty
  <2> QED
    BY <1>1, <2>1
<1>2. CASE below # <<>>
  <2> DEFINE n == Len(below)
  <2>1. /\ calls' = [below EXCEPT ![n] = Received(below[n], got)] /\ outcome' = outcome
    BY <1>2 DEF Deliver
  <2>2. n \in 1..n
    BY <1>2, SeqLen DEF GoodCalls
  <2>3. CallOK(below[n])
    BY <2>2 DEF GoodCalls
  <2>4. CallOK(Received(below[n], got)) /\ Received(below[n], got).at = below[n].at
    BY <2>3, ReceivedOK
  <2>5. GoodCalls(calls')
    BY <1>2, <2>1, <2>4, GoodTop
  <2> QED
    BY <2>1, <2>5
<1> QED
  BY <1>1, <1>2

\* A step of the innermost call alone.
LEMMA InnerStep ==
  ASSUME DetailsInv, Active, UNCHANGED <<die, outcome>>, NEW c, SetInner(c),
         CallOK(c), c.at = inner.at
  PROVE  DetailsInv'
<1>1. TreeOK /\ GoodCalls(calls) /\ calls # <<>> /\ outcome = "running" /\ die' = die
  BY DEF DetailsInv, Active
<1>2. calls' = [calls EXCEPT ![Len(calls)] = c]
  BY DEF SetInner
<1>3. GoodCalls(calls')
  BY <1>1, <1>2, GoodTop DEF inner
<1> QED
  BY <1>1, <1>3, GoodCallsNext DEF DetailsInv

\* A call is made, or the stack is full.
LEMMA CallStep ==
  ASSUME DetailsInv, Active, UNCHANGED die, NEW d \in Needs[inner.at],
         NEW cs, GoodCalls(cs), Len(cs) = Len(calls), cs # <<>>,
         cs[Len(cs)].at = inner.at,
         die[d].tag = "inlined" => inner.todo # <<>> /\ cs[Len(cs)].todo # <<>>,
         \/ Len(calls) < MaxCalls /\ calls' = Append(cs, CallOf(d)) /\ outcome' = outcome
         \/ ~(Len(calls) < MaxCalls) /\ calls' = calls /\ outcome' = "overflow"
  PROVE  DetailsInv'
<1>1. TreeOK /\ GoodCalls(calls) /\ calls # <<>> /\ outcome = "running"
  BY DEF DetailsInv, Active
<1>2. CASE calls' = Append(cs, CallOf(d)) /\ outcome' = outcome
  <2>1. GoodCalls(calls')
    BY <1>1, <1>2, GoodPush
  <2> QED
    BY <1>1, <1>2, <2>1, GoodCallsNext DEF DetailsInv
<1>3. CASE ~(Len(calls) < MaxCalls) /\ calls' = calls /\ outcome' = "overflow"
  <2>1. Roomy => Cyclic
    BY <1>1, <1>3, TooManyCalls
  <2>2. Roomy => Cyclic'
    BY <1>1, <2>1, TreeSame
  <2>3. GoodCalls(calls')
    BY <1>1, <1>3
  <2> QED
    BY <1>1, <2>2, <2>3, GoodCallsNext DEF DetailsInv
<1> QED
  BY <1>2, <1>3

LEMMA FetchStep ==
  ASSUME DetailsInv, FetchOrigin
  PROVE  DetailsInv'
<1> DEFINE cs == [calls EXCEPT ![Len(calls)].phase = "waiting"]
           c == [inner EXCEPT !.phase = "waiting"]
<1>1. PICK o \in Tree(die[inner.at].origin) :
        IF Len(calls) < MaxCalls
        THEN calls' = Append(cs, CallOf(o)) /\ UNCHANGED <<die, answer, outcome>>
        ELSE outcome' = "overflow" /\ UNCHANGED <<die, calls, answer>>
  BY DEF FetchOrigin
<1>2. TreeOK /\ GoodCalls(calls) /\ calls # <<>> /\ Active
  BY DEF DetailsInv, Active, FetchOrigin
<1>3. /\ CallOK(inner) /\ inner.at \in FunctionDies /\ Len(calls) \in 1..Len(calls)
  BY <1>2, InnerCall
<1>4. o \in Needs[inner.at]
  BY <1>3 DEF Tree, Needs, OriginOf
<1>5. cs = [calls EXCEPT ![Len(calls)] = c]
  BY DEF inner
<1>6. CallOK(c) /\ c.at = inner.at
  BY <1>3 DEF CallOK
<1> HIDE DEF c
<1>7. GoodCalls(cs)
  BY <1>2, <1>5, <1>6, GoodTop DEF inner
<1>8. Len(cs) = Len(calls) /\ cs[Len(cs)].at = inner.at
  <2>1. IsSeq(calls)
    BY <1>2 DEF GoodCalls
  <2>2. /\ Len([calls EXCEPT ![Len(calls)] = c]) = Len(calls)
        /\ [calls EXCEPT ![Len(calls)] = c][Len(calls)] = c
    BY <1>2, <2>1, SeqTopSet
  <2> HIDE DEF cs
  <2> QED
    BY <1>5, <1>6, <2>2
<1>9. cs # <<>>
  <2>1. Len(cs) # 0
    BY <1>3, <1>8
  <2> QED
    BY <2>1, SeqEmpty
<1>10. \/ Len(calls) < MaxCalls /\ calls' = Append(cs, CallOf(o)) /\ outcome' = outcome
       \/ ~(Len(calls) < MaxCalls) /\ calls' = calls /\ outcome' = "overflow"
  BY <1>1
<1>11. UNCHANGED die
  BY <1>1
<1>12. die[o].tag = "subprogram"
  BY <1>2, <1>3 DEF Tree, OriginOf, TreeOK
<1> HIDE DEF cs
<1> QED
  BY <1>2, <1>4, <1>7, <1>8, <1>9, <1>10, <1>11, <1>12, CallStep

LEMMA InlinedStep ==
  ASSUME DetailsInv, CallInlined
  PROVE  DetailsInv'
<1>1. /\ Active /\ inner.todo # <<>> /\ die[item.at].tag = "inlined" /\ UNCHANGED die
      /\ \/ Len(calls) < MaxCalls /\ calls' = Append(calls, CallOf(item.at)) /\ outcome' = outcome
         \/ ~(Len(calls) < MaxCalls) /\ calls' = calls /\ outcome' = "overflow"
  BY DEF CallInlined, InChildren, Descend, entry
<1>2. TreeOK /\ GoodCalls(calls) /\ calls # <<>>
  BY <1>1 DEF DetailsInv, Active
<1>3. inner.at \in FunctionDies /\ item.at \in Near(inner.at)
  BY <1>1, <1>2, InnerCall, NextItem
<1>4. item.at \in Needs[inner.at]
  BY <1>1, <1>2, <1>3, NearBelow
<1>5. calls[Len(calls)].at = inner.at /\ calls[Len(calls)].todo # <<>>
  BY <1>1 DEF inner
<1> QED
  BY <1>1, <1>2, <1>4, <1>5, CallStep

LEMMA TakeStep ==
  ASSUME DetailsInv, TakeParameter \/ TakeVariable \/ SkipEntry
  PROVE  DetailsInv'
<1> DEFINE p == Past(inner)
<1>1. Active /\ inner.todo # <<>> /\ UNCHANGED <<die, outcome>>
  BY DEF TakeParameter, TakeVariable, SkipEntry, InChildren
<1>2. CallOK(p) /\ p.at = inner.at
  BY <1>1, NextItem DEF DetailsInv, Active
<1> HIDE DEF p
<1>3. \E c : SetInner(c) /\ CallOK(c) /\ c.at = inner.at
  <2>1. CASE TakeParameter
    <3>1. SetInner([p EXCEPT !.details.parameters = Merge(@, item.at)])
      BY <2>1 DEF TakeParameter, p
    <3>2. /\ CallOK([p EXCEPT !.details.parameters = Merge(@, item.at)])
          /\ [p EXCEPT !.details.parameters = Merge(@, item.at)].at = inner.at
      BY <1>2 DEF CallOK
    <3> QED
      BY <3>1, <3>2
  <2>2. CASE TakeVariable
    <3>1. SetInner([p EXCEPT !.details.variables = Merge(@, item.at)])
      BY <2>2 DEF TakeVariable, p
    <3>2. /\ CallOK([p EXCEPT !.details.variables = Merge(@, item.at)])
          /\ [p EXCEPT !.details.variables = Merge(@, item.at)].at = inner.at
      BY <1>2 DEF CallOK
    <3> QED
      BY <3>1, <3>2
  <2>3. CASE SkipEntry
    BY <1>2, <2>3 DEF SkipEntry, p
  <2> QED
    BY <2>1, <2>2, <2>3
<1> QED
  BY <1>1, <1>3, InnerStep

LEMMA BlockStep ==
  ASSUME DetailsInv, OpenBlock
  PROVE  DetailsInv'
<1> DEFINE more == Items(item.at, TRUE)
           c == [inner EXCEPT !.todo = more \o Tail(inner.todo)]
<1>1. /\ Active /\ inner.todo # <<>> /\ UNCHANGED <<die, outcome>>
      /\ die[item.at].tag = "block" /\ SetInner(c)
  BY DEF OpenBlock, InChildren, entry
<1>2. TreeOK /\ GoodCalls(calls) /\ calls # <<>>
  BY <1>1 DEF DetailsInv, Active
<1>3. /\ CallOK(inner) /\ inner.at \in FunctionDies /\ item.at \in Near(inner.at)
      /\ CallOK(Past(inner)) /\ Past(inner).at = inner.at
      /\ DOMAIN inner = {"at", "phase", "todo", "details"}
  BY <1>1, <1>2, InnerCall, NextItem
<1>4. item.at \in DOMAIN die /\ Kids(item.at) \subseteq Near(inner.at)
  BY <1>1, <1>2, <1>3, NearBelow
<1>5. IsSeq(more) /\ \A k \in 1..Len(more) : more[k].at \in Near(inner.at)
  BY <1>2, <1>4, ItemsBelow
<1> DEFINE t == Tail(inner.todo)
<1>6. IsSeq(t) /\ \A k \in 1..Len(t) : t[k].at \in Near(inner.at)
  <2>1. Past(inner).todo = t
    BY <1>3 DEF Past
  <2> QED
    BY <1>3, <2>1 DEF CallOK
<1> HIDE DEF more, t
<1>7. IsSeq(more \o t) /\ \A k \in 1..Len(more \o t) : (more \o t)[k].at \in Near(inner.at)
  BY <1>5, <1>6, SeqConcat
<1>8. c.at = inner.at /\ c.todo = more \o t /\ DOMAIN c = {"at", "phase", "todo", "details"}
  BY <1>3 DEF t
<1> HIDE DEF c
<1>9. CallOK(c)
  BY <1>3, <1>7, <1>8 DEF CallOK
<1> QED
  BY <1>1, <1>8, <1>9, InnerStep

LEMMA NoOriginStep ==
  ASSUME DetailsInv, NoOrigin
  PROVE  DetailsInv'
<1>1. Active /\ UNCHANGED <<die, outcome>> /\ SetInner(BeginChildren(inner))
  BY DEF NoOrigin
<1>2. CallOK(BeginChildren(inner)) /\ BeginChildren(inner).at = inner.at
  BY <1>1, InnerCall, BeginOK DEF DetailsInv, Active
<1> QED
  BY <1>1, <1>2, InnerStep

LEMMA ReturnInlinedStep ==
  ASSUME DetailsInv, ReturnInlined
  PROVE  DetailsInv'
<1> DEFINE n == Len(calls)
           d == [at |-> inner.at, details |-> inner.details]
           c == [Past(outer) EXCEPT !.details.inlined = Append(@, d)]
           below == SubSeq(calls, 1, n - 2)
<1>1. /\ Active /\ UNCHANGED <<die, outcome>> /\ die[inner.at].tag = "inlined"
      /\ calls' = Append(below, c)
  BY DEF ReturnInlined, Complete, InChildren
<1>2. TreeOK /\ GoodCalls(calls) /\ calls # <<>> /\ outcome = "running"
  BY <1>1 DEF DetailsInv, Active
<1>3. n \in Nat /\ n >= 2
  <2>1. n \in Nat /\ n \in 1..n
    BY <1>2, InnerCall
  <2>2. n # 1
    BY <1>1, <1>2 DEF GoodCalls, inner
  <2> QED
    BY <2>1, <2>2
<1>4. CallOK(outer) /\ n - 1 \in 1..n /\ outer = calls[n - 1]
  BY <1>2, <1>3 DEF GoodCalls, outer
<1>5. outer.todo # <<>>
  <2>1. n - 1 \in 1..(n - 1) /\ (n - 1) + 1 = n
    BY <1>3
  <2>2. calls[(n - 1) + 1] = inner
    BY <2>1 DEF inner
  <2> HIDE DEF n
  <2> QED
    BY <1>1, <1>2, <1>4, <2>1, <2>2 DEF GoodCalls, n
<1>6. CallOK(Past(outer)) /\ Past(outer).at = outer.at
  <2> DEFINE t == outer.todo
  <2>1. /\ DOMAIN outer = {"at", "phase", "todo", "details"} /\ outer.at \in FunctionDies
        /\ IsSeq(t) /\ \A k \in 1..Len(t) : t[k].at \in Near(outer.at)
    BY <1>4 DEF CallOK
  <2>2. /\ IsSeq(Tail(t)) /\ Len(Tail(t)) = Len(t) - 1
        /\ \A k \in 1..(Len(t) - 1) : k + 1 \in 1..Len(t) /\ Tail(t)[k] = t[k + 1]
    BY <1>5, <2>1, SeqTail
  <2>3. \A k \in 1..Len(Tail(t)) : Tail(t)[k].at \in Near(outer.at)
    BY <2>1, <2>2
  <2>4. /\ Past(outer).at = outer.at /\ Past(outer).todo = Tail(t)
        /\ DOMAIN Past(outer) = {"at", "phase", "todo", "details"}
    BY <2>1 DEF Past
  <2> QED
    BY <2>1, <2>2, <2>3, <2>4 DEF CallOK
<1> DEFINE q == Past(outer)
<1>7. CallOK(c) /\ c.at = outer.at
  <2>1. c = [q EXCEPT !.details.inlined = Append(@, d)]
    OBVIOUS
  <2> HIDE DEF q, c, d
  <2>2. CallOK(q) /\ q.at = outer.at
    BY <1>6 DEF q
  <2> QED
    BY <2>1, <2>2 DEF CallOK
<1>8. /\ IsSeq(below) /\ Len(below) = n - 2 /\ n - 2 \in Nat
      /\ \A i \in 1..(n - 2) : below[i] = calls[i]
  <2>1. IsSeq(calls) /\ n - 2 \in 0..n /\ n - 2 \in Nat
    BY <1>2, <1>3 DEF GoodCalls
  <2> QED
    BY <2>1, SeqPrefix
<1> HIDE DEF below, c
<1>9. /\ IsSeq(calls') /\ Len(calls') = n - 1 /\ calls'[n - 1] = c
      /\ \A i \in 1..(n - 2) : calls'[i] = calls[i]
  <2>1. /\ IsSeq(Append(below, c)) /\ Len(Append(below, c)) = Len(below) + 1
        /\ \A i \in 1..Len(below) : Append(below, c)[i] = below[i]
        /\ Append(below, c)[Len(below) + 1] = c
    BY <1>8, SeqAppend
  <2>2. Len(below) + 1 = n - 1
    BY <1>3, <1>8
  <2> QED
    BY <1>1, <1>8, <2>1, <2>2
<1>10. (n - 1) - 1 = n - 2 /\ calls[n - 1].at = calls'[n - 1].at
  BY <1>3, <1>4, <1>7, <1>9
<1> HIDE DEF n
<1>11. GoodCalls(calls')
  BY <1>2, <1>4, <1>7, <1>9, <1>10, GoodChanged DEF n
<1>12. outcome' # "overflow" /\ die' = die
  BY <1>1, <1>2
<1> QED
  BY <1>2, <1>11, <1>12, GoodCallsNext DEF DetailsInv

\* What returns to the k-th call, or to the client.
LEMMA ReturnStep ==
  ASSUME DetailsInv, Active, UNCHANGED die, NEW k \in 1..Len(calls), NEW got,
         Deliver(SubSeq(calls, 1, k - 1), got)
  PROVE  DetailsInv'
<1>1. TreeOK /\ GoodCalls(calls) /\ outcome = "running"
  BY DEF DetailsInv, Active
<1>2. Len(calls) \in Nat
  BY <1>1, SeqLen DEF GoodCalls
<1>3. k - 1 \in 0..Len(calls)
  BY <1>2
<1>4. GoodCalls(SubSeq(calls, 1, k - 1))
  BY <1>1, <1>3, GoodPrefix
<1>5. GoodCalls(calls') /\ outcome' # "overflow"
  BY <1>1, <1>4, DeliverOK
<1> QED
  BY <1>1, <1>5, GoodCallsNext DEF DetailsInv

LEMMA ReturnDetailsStep ==
  ASSUME DetailsInv, ReturnDetails
  PROVE  DetailsInv'
<1>1. /\ Active /\ UNCHANGED die
      /\ Deliver(SubSeq(calls, 1, Len(calls) - 1), inner.details)
  BY DEF ReturnDetails, Complete, InChildren
<1>2. Len(calls) \in 1..Len(calls)
  BY <1>1, InnerCall DEF DetailsInv, Active
<1> QED
  BY <1>1, <1>2, ReturnStep

\* An error ends at a call of get_function_details: the first is one.
LEMMA EntryFailsStep ==
  ASSUME DetailsInv, EntryFails
  PROVE  DetailsInv'
<1> DEFINE I == {i \in 1..Len(calls) : die[calls[i].at].tag # "inlined"}
           k == SelectLastInSeq(calls, LAMBDA c : die[c.at].tag # "inlined")
<1>1. Active /\ UNCHANGED die /\ Deliver(SubSeq(calls, 1, k - 1), NoDetails)
  BY DEF EntryFails, InChildren
<1>2. GoodCalls(calls) /\ calls # <<>>
  BY <1>1 DEF DetailsInv, Active
<1>3. Len(calls) \in Nat /\ 1 \in 1..Len(calls)
  BY <1>2, InnerCall
<1>4. 1 \in I /\ I \subseteq 0..Len(calls)
  BY <1>2, <1>3 DEF GoodCalls
<1>5. k = IF I # {} THEN Max(I) ELSE 0
  BY DEF SelectLastInSeq
<1>6. \E m \in I : \A j \in I : j <= m
  <2> HIDE DEF I
  <2> QED
    BY <1>3, <1>4, NatMax
<1>7. Max(I) \in I
  <2>1. \E m \in I : \A j \in I : m >= j
    BY <1>3, <1>6
  <2> HIDE DEF I
  <2> QED
    BY <2>1 DEF Max
<1>8. k \in 1..Len(calls)
  BY <1>4, <1>5, <1>7
<1> HIDE DEF k
<1> QED
  BY <1>1, <1>8, ReturnStep

-----------------------------------------------------------------------------
LEMMA DetailsStart ==
  ASSUME DetailsInit
  PROVE  DetailsInv
<1>1. PICK t \in Trees : die = t.die /\ calls = <<CallOf(t.asked)>>
  BY DEF DetailsInit
<1> DEFINE c == CallOf(t.asked)
<1>2. /\ t.asked \in DOMAIN die /\ die[t.asked].tag = "subprogram"
      /\ \A d \in DOMAIN die : die[d].kids \in Seq(DOMAIN die)
  BY <1>1, TreesAssumption
<1>3. \A d \in FunctionDies : \A o \in OriginOf(d) : die[o].tag = "subprogram"
  <2> TAKE d \in FunctionDies
  <2> TAKE o \in OriginOf(d)
  <2>1. d \in DOMAIN die /\ die[d].tag \in {"subprogram", "inlined"}
    BY DEF FunctionDies
  <2>2. o = die[d].origin /\ o \in DOMAIN die
    BY DEF OriginOf
  <2> QED
    BY <1>1, <2>1, <2>2, TreesAssumption
<1>4. TreeOK
  BY <1>1, <1>2, <1>3 DEF TreeOK
<1>5. CallOK(c) /\ c.at = t.asked
  BY <1>2, SeqEmpty DEF CallOf, CallOK, FunctionDies
<1> HIDE DEF c
<1>6. IsSeq(calls) /\ Len(calls) = 1 /\ calls[1] = c
  BY <1>1, SeqOne DEF c
<1>7. GoodCalls(calls)
  <2>1. \A i \in 1..1 : i = 1
    OBVIOUS
  <2>2. \A i \in 1..Len(calls) : CallOK(calls[i])
    BY <1>5, <1>6, <2>1
  <2>3. \A i, j \in 1..Len(calls) : ~(i < j)
    BY <1>6
  <2>4. \A i \in 1..(Len(calls) - 1) : FALSE
    BY <1>6
  <2> QED
    BY <1>2, <1>5, <1>6, <2>2, <2>3, <2>4 DEF GoodCalls
<1> QED
  BY <1>4, <1>7 DEF DetailsInit, DetailsInv

LEMMA DetailsStep ==
  ASSUME DetailsInv, [DetailsNext]_detailsVars
  PROVE  DetailsInv'
<1>1. CASE FetchOrigin
  BY <1>1, FetchStep
<1>2. CASE NoOrigin
  BY <1>2, NoOriginStep
<1>3. CASE TakeParameter \/ TakeVariable \/ SkipEntry
  BY <1>3, TakeStep
<1>4. CASE OpenBlock
  BY <1>4, BlockStep
<1>5. CASE CallInlined
  BY <1>5, InlinedStep
<1>6. CASE ReturnInlined
  BY <1>6, ReturnInlinedStep
<1>7. CASE ReturnDetails
  BY <1>7, ReturnDetailsStep
<1>8. CASE EntryFails
  BY <1>8, EntryFailsStep
<1>9. CASE UNCHANGED detailsVars
  <2>1. UNCHANGED <<die, calls, outcome>>
    BY <1>9 DEF detailsVars
  <2>2. GoodCalls(calls')
    BY <2>1 DEF DetailsInv
  <2> QED
    BY <2>1, <2>2, GoodCallsNext, TreeSame DEF DetailsInv
<1> QED
  BY <1>1, <1>2, <1>3, <1>4, <1>5, <1>6, <1>7, <1>8, <1>9 DEF DetailsNext

\* The "FIXME: limit recursion" of get_function_details (dwarf.rs:2829): when the
\* stack has room for a call per entry, it overflows only on a tree in which a
\* function is, through origins and inlined functions, abstracted from itself.
THEOREM OverflowNeedsCycle ==
  ASSUME Roomy
  PROVE  DetailsSpec => []OverflowsOnlyOnCycles
<1>1. DetailsInit => DetailsInv
  BY DetailsStart
<1>2. DetailsInv /\ [DetailsNext]_detailsVars => DetailsInv'
  BY DetailsStep
<1>3. DetailsInv => OverflowsOnlyOnCycles
  BY DEF DetailsInv, OverflowsOnlyOnCycles
<1> QED
  BY <1>1, <1>2, <1>3, PTL DEF DetailsSpec

-----------------------------------------------------------------------------
(***************************************************************************)
(* What the calls have put together, for any tree.  A call that is in its  *)
(* children has, of the functions its details started from (Path) and of   *)
(* the entries of its own that are done (Traversed), all that is inlined   *)
(* and, for each entry, the one element it stands for in its list          *)
(* (Accounted).  A call that waits has nothing, and what it waits for is   *)
(* the call above it (Link).  So what a call returns is whole, and so is   *)
(* all that is inlined in it (Sound); or an entry could not be read.       *)
(***************************************************************************)

LEMMA SetOf ==
  ASSUME NEW s, IsSeq(s)
  PROVE  /\ \A x : x \in ToSet(s) <=> \E k \in 1..Len(s) : x = s[k]
         /\ \A x, y : y \in ToSet(Append(s, x)) <=> y \in ToSet(s) \/ y = x
<1>1. DOMAIN s = 1..Len(s) /\ Len(s) \in Nat
  BY SeqLen
<1>2. \A x : x \in ToSet(s) <=> \E k \in 1..Len(s) : x = s[k]
  BY <1>1 DEF ToSet
<1>3. ASSUME NEW x
      PROVE  \A y : y \in ToSet(Append(s, x)) <=> y \in ToSet(s) \/ y = x
  <2> DEFINE t == Append(s, x)
  <2>1. /\ IsSeq(t) /\ Len(t) = Len(s) + 1 /\ t[Len(s) + 1] = x
        /\ \A i \in 1..Len(s) : t[i] = s[i]
    BY SeqAppend
  <2>2. DOMAIN t = 1..Len(t)
    BY <2>1, SeqLen
  <2> HIDE DEF t
  <2>3. \A y : y \in ToSet(t) <=> \E k \in 1..(Len(s) + 1) : y = t[k]
    BY <2>1, <2>2 DEF ToSet
  <2>4. \A k \in 1..(Len(s) + 1) : k \in 1..Len(s) \/ k = Len(s) + 1
    BY <1>1
  <2>5. \A k \in 1..Len(s) : k \in 1..(Len(s) + 1)
    BY <1>1
  <2>6. Len(s) + 1 \in 1..(Len(s) + 1)
    BY <1>1
  <2>7. \A y : y \in ToSet(t) <=> y \in ToSet(s) \/ y = x
    BY <1>2, <2>1, <2>3, <2>4, <2>5, <2>6
  <2> QED
    BY <2>7 DEF t
<1> QED
  BY <1>2, <1>3

LEMMA OwnIs ==
  ASSUME NEW d
  PROVE  /\ \A e : e \in Own(d, "inlined") <=> e \in Near(d) /\ die[e].tag = "inlined"
         /\ \A e : e \in Own(d, "variable") <=> e \in Near(d) /\ die[e].tag = "variable"
         /\ \A e : e \in Own(d, "parameter") <=> e \in Kids(d) /\ die[e].tag = "parameter"
<1>1. \A x : x \in Below(d) <=>
        \/ \E c \in Kids(d) : x = [at |-> c, block |-> FALSE]
        \/ \E c \in UNION {Kids(b) : b \in BlocksOf(d)} : x = [at |-> c, block |-> TRUE]
  BY DEF Below
<1>2. \A e : e \in Near(d) <=> \E x \in Below(d) : x.at = e
  BY <1>1, NearIsBelow DEF Near
<1>3. \A e : e \in Kids(d) <=> \E x \in Below(d) : x.at = e /\ ~x.block
  <2> TAKE e
  <2>1. ASSUME e \in Kids(d) PROVE \E x \in Below(d) : x.at = e /\ ~x.block
    <3>1. [at |-> e, block |-> FALSE] \in Below(d)
      BY <2>1 DEF Below
    <3> QED
      BY <3>1
  <2> QED
    BY <1>1, <2>1
<1>4. \A e, tag : e \in Own(d, tag) <=>
        \E x \in Below(d) : /\ x.at = e /\ die[e].tag = tag
                            /\ tag = "parameter" => ~x.block
  BY DEF Own
<1> QED
  BY <1>2, <1>3, <1>4

\* What holds the children of a function and of all blocks it holds holds all that is
\* near the function.
LEMMA NearClosed ==
  ASSUME TreeOK, NEW d \in FunctionDies, NEW done, done \subseteq Near(d), Kids(d) \subseteq done,
         \A b \in done : die[b].tag = "block" => Kids(b) \subseteq done
  PROVE  Near(d) \subseteq done
<1> DEFINE blocks == {b \in DOMAIN die : die[b].tag = "block"}
           nested == [x \in blocks \union {d} |-> Kids(x) \intersect blocks]
           S == BlocksOf(d) \intersect done
<1>1. BlocksOf(d) = {b \in blocks : \A T \in SUBSET blocks :
                       (\A x \in T \union {d} : nested[x] \subseteq T) => b \in T}
  BY DEF BlocksOf
<1>2. \A x \in blocks \union {d} : nested[x] = Kids(x) \intersect blocks
  OBVIOUS
<1>3. \A b \in blocks : b \in Near(d) => b \in BlocksOf(d)
  BY NearBelow
<1>4. \A b \in blocks : die[b].tag = "block"
  OBVIOUS
<1> HIDE DEF blocks, nested
<1>5. S \subseteq blocks /\ S \subseteq done
  BY <1>1
<1>6. ASSUME NEW x \in S \union {d}
      PROVE  nested[x] \subseteq S
  <2>1. x \in blocks \union {d}
    BY <1>5
  <2>2. Kids(x) \subseteq done
    BY <1>4, <1>5
  <2> QED
    BY <1>2, <1>3, <2>1, <2>2
<1>7. BlocksOf(d) \subseteq S
  <2> HIDE DEF S
  <2> QED
    BY <1>1, <1>5, <1>6
<1>8. \A b \in BlocksOf(d) : Kids(b) \subseteq done
  BY <1>4, <1>5, <1>7
<1> QED
  BY <1>8 DEF Near

\* The origin of a function and what it inlines are reached from it, and all that
\* they reach.
LEMMA ReachedThrough ==
  ASSUME TreeOK, NEW d \in FunctionDies, NEW e \in Needs[d]
  PROVE  e \in FunctionDies /\ e \in Reached[d] /\ Reached[e] \subseteq Reached[d]
<1>1. e \in FunctionDies /\ e \in Reached[d]
  BY NeedsFunctions, ReachedClosed
<1>2. Reached[e] = {x \in FunctionDies : \A S \in SUBSET FunctionDies :
                      (\A y \in S \union {e} : Needs[y] \subseteq S) => x \in S}
  BY <1>1 DEF Reached
<1>3. /\ Reached[d] \subseteq FunctionDies /\ Needs[e] \subseteq Reached[d]
      /\ \A y \in Reached[d] : Needs[y] \subseteq Reached[d]
  BY <1>1, ReachedClosed
<1>4. Reached[e] \subseteq Reached[d]
  BY <1>2, <1>3
<1> QED
  BY <1>1, <1>4

LEMMA SeqPut ==
  ASSUME NEW s, IsSeq(s), NEW k \in 1..Len(s), NEW x
  PROVE  /\ IsSeq([s EXCEPT ![k] = x]) /\ Len([s EXCEPT ![k] = x]) = Len(s)
         /\ [s EXCEPT ![k] = x][k] = x
         /\ \A i \in 1..Len(s) : i # k => [s EXCEPT ![k] = x][i] = s[i]
<1> DEFINE p == [s EXCEPT ![k] = x]
           n == Len(s)
<1>1. PICK S : s \in Seq(S)
  BY DEF IsSeq
<1>2. n \in Nat /\ s \in [1..n -> S] /\ DOMAIN s = 1..n
  BY <1>1, LenProperties
<1> DEFINE T == S \union {x}
<1> HIDE DEF n
<1>3. p \in [1..n -> T] /\ p[k] = x /\ \A i \in 1..n : i # k => p[i] = s[i]
  BY <1>2 DEF n
<1> HIDE DEF p, T
<1>4. p \in Seq(T) /\ Len(p) = n
  BY <1>2, <1>3, SeqDef, LenProperties
<1> QED
  BY <1>3, <1>4 DEF IsSeq, p, n

-----------------------------------------------------------------------------
(* The lists: an entry more in one that accounts for those so far. *)

\* The entry that d stands for among D.
Target(D, d) == IF die[d].origin \in D THEN die[d].origin ELSE d

\* An element of a list stands for the entries in `mine', the level of an entry being
\* how near its function is to the one that is asked for.
Stands(x, mine, level) ==
  /\ x.from = mine
  /\ IsSeq(x.places)
  /\ \A p : p \in ToSet(x.places) <=> p \in mine /\ die[p].placed
  /\ \A i, j \in 1..Len(x.places) : i < j => level[x.places[i]] <= level[x.places[j]]
  /\ \/ x.name = NoDie /\ \A d \in mine : ~die[d].named
     \/ /\ x.name \in mine /\ die[x.name].named
        /\ \A d \in mine : die[d].named => level[d] <= level[x.name]

Mine(D, o) == {d \in D : Target(D, d) = o}

Accounted(list, D, level) ==
  /\ IsSeq(list)
  /\ \A k \in 1..Len(list) : \E d \in D : list[k].offset = Target(D, d)
  /\ \A d \in D : \E k \in 1..Len(list) : list[k].offset = Target(D, d)
  /\ \A j, k \in 1..Len(list) : list[j].offset = list[k].offset => j = k
  /\ \A k \in 1..Len(list) : Stands(list[k], Mine(D, list[k].offset), level)

\* What parse_parameter makes of the element at its origin's offset.
Completed(x, d) ==
  [offset |-> x.offset, name |-> IF die[d].named THEN d ELSE x.name,
   places |-> x.places \o EntryOf(d).places, from |-> x.from \union {d}]

LEMMA MergeIs ==
  ASSUME NEW list, IsSeq(list), NEW d
  PROVE  \/ /\ \A k \in 1..Len(list) : list[k].offset # die[d].origin
            /\ Merge(list, d) = Append(list, EntryOf(d))
         \/ \E k \in 1..Len(list) : /\ list[k].offset = die[d].origin
                                    /\ Merge(list, d) = [list EXCEPT ![k] = Completed(list[k], d)]
<1> DEFINE I == {i \in 1..Len(list) : list[i].offset = die[d].origin}
           k == SelectInSeq(list, LAMBDA x : x.offset = die[d].origin)
<1>1. k = IF I # {} THEN Min(I) ELSE 0
  BY DEF SelectInSeq
<1>2. Len(list) \in Nat /\ DOMAIN list = 1..Len(list)
  BY SeqLen
<1>3. Merge(list, d) =
        IF k = 0 THEN Append(list, EntryOf(d)) ELSE [list EXCEPT ![k] = Completed(list[k], d)]
  BY DEF Merge, Completed
<1> HIDE DEF k
<1>4. CASE I = {}
  BY <1>1, <1>3, <1>4
<1>5. CASE I # {}
  <2>1. \E m \in I : \A j \in I : m <= j
    <3>1. I \subseteq Nat
      BY <1>2
    <3> HIDE DEF I
    <3> QED
      BY <1>5, <3>1, NatMin
  <2>2. Min(I) \in I
    <3> HIDE DEF I
    <3> QED
      BY <2>1 DEF Min
  <2>3. k \in I /\ k # 0
    BY <1>1, <1>2, <1>5, <2>2
  <2> QED
    BY <1>3, <2>3
<1> QED
  BY <1>4, <1>5

LEMMA StandsAlone ==
  ASSUME NEW d, NEW level, level[d] \in Nat
  PROVE  Stands(EntryOf(d), {d}, level)
<1> DEFINE x == EntryOf(d)
<1>1. /\ x.from = {d} /\ x.name = IF die[d].named THEN d ELSE NoDie
      /\ x.places = IF die[d].placed THEN <<d>> ELSE <<>>
  BY DEF EntryOf
<1> HIDE DEF x
<1>2. /\ IsSeq(x.places) /\ ~\E i, j \in 1..Len(x.places) : i < j
      /\ \A p : p \in ToSet(x.places) <=> p \in {d} /\ die[p].placed
  <2>1. CASE die[d].placed
    <3>1. x.places = <<d>>
      BY <1>1, <2>1
    <3>2. IsSeq(<<d>>) /\ Len(<<d>>) = 1 /\ <<d>>[1] = d
      BY SeqOne
    <3>3. \A p : p \in ToSet(<<d>>) <=> \E k \in 1..1 : p = <<d>>[k]
      BY <3>2, SetOf
    <3> QED
      BY <2>1, <3>1, <3>2, <3>3
  <2>2. CASE ~die[d].placed
    <3>1. x.places = <<>>
      BY <1>1, <2>2
    <3>2. IsSeq(<<>>) /\ Len(<<>>) = 0
      BY SeqEmpty
    <3>3. \A p : p \in ToSet(<<>>) <=> \E k \in 1..0 : p = <<>>[k]
      BY <3>2, SetOf
    <3> QED
      BY <2>2, <3>1, <3>2, <3>3
  <2> QED
    BY <2>1, <2>2
<1>3. \/ x.name = NoDie /\ ~die[d].named
      \/ x.name = d /\ die[d].named
  BY <1>1
<1>4. die[d].named => level[d] <= level[d]
  OBVIOUS
<1> QED
  BY <1>1, <1>2, <1>3, <1>4 DEF Stands, x

LEMMA StandsMore ==
  ASSUME NEW x, NEW mine, NEW d, NEW level, Stands(x, mine, level),
         \A e \in mine \union {d} : level[e] \in Nat /\ level[e] <= level[d]
  PROVE  Stands(Completed(x, d), mine \union {d}, level)
<1> DEFINE y == Completed(x, d)
           a == x.places
           b == EntryOf(d).places
<1>1. /\ y.from = mine \union {d} /\ y.name = IF die[d].named THEN d ELSE x.name
      /\ y.places = a \o b
  BY DEF Completed, Stands
<1>2. Stands(EntryOf(d), {d}, level)
  BY StandsAlone
<1>3. IsSeq(a) /\ IsSeq(b)
  BY <1>2 DEF Stands
<1>4. /\ \A p : p \in ToSet(a) <=> p \in mine /\ die[p].placed
      /\ \A p : p \in ToSet(b) <=> p = d /\ die[p].placed
  BY <1>2 DEF Stands
<1>5. /\ \A i, j \in 1..Len(a) : i < j => level[a[i]] <= level[a[j]]
      /\ \A i, j \in 1..Len(b) : i < j => level[b[i]] <= level[b[j]]
  BY <1>2 DEF Stands
<1> DEFINE c == a \o b
<1> HIDE DEF a, b
<1>6. /\ IsSeq(c) /\ Len(a) \in Nat /\ Len(b) \in Nat /\ Len(c) = Len(a) + Len(b)
      /\ \A i \in 1..Len(a) : c[i] = a[i]
      /\ \A i \in 1..Len(b) : c[Len(a) + i] = b[i]
  <2>1. /\ IsSeq(a \o b) /\ Len(a \o b) = Len(a) + Len(b)
        /\ \A i \in 1..Len(a) : (a \o b)[i] = a[i]
        /\ \A i \in 1..Len(b) : (a \o b)[Len(a) + i] = b[i]
    BY <1>3, SeqConcat
  <2>2. Len(a) \in Nat /\ Len(b) \in Nat
    BY <1>3, SeqLen
  <2> QED
    BY <2>1, <2>2
<1> HIDE DEF c
<1>7. \A i \in 1..Len(c) :
        i \in 1..Len(a) \/ (i - Len(a) \in 1..Len(b) /\ Len(a) + (i - Len(a)) = i)
  BY <1>6
<1>8. \A p : p \in ToSet(c) <=> p \in ToSet(a) \/ p \in ToSet(b)
  <2>1. \A p : p \in ToSet(c) <=> \E k \in 1..Len(c) : p = c[k]
    BY <1>6, SetOf
  <2>2. /\ \A p : p \in ToSet(a) <=> \E k \in 1..Len(a) : p = a[k]
        /\ \A p : p \in ToSet(b) <=> \E k \in 1..Len(b) : p = b[k]
    BY <1>3, SetOf
  <2>3. \A k \in 1..Len(a) : k \in 1..Len(c)
    BY <1>6
  <2>4. \A k \in 1..Len(b) : Len(a) + k \in 1..Len(c)
    BY <1>6
  <2>5. ASSUME NEW p, NEW k \in 1..Len(c), p = c[k]
        PROVE  p \in ToSet(a) \/ p \in ToSet(b)
    <3>1. CASE k \in 1..Len(a)
      BY <1>6, <2>2, <2>5, <3>1
    <3>2. CASE k - Len(a) \in 1..Len(b) /\ Len(a) + (k - Len(a)) = k
      <4>1. c[k] = b[k - Len(a)]
        BY <1>6, <3>2
      <4> QED
        BY <2>2, <2>5, <3>2, <4>1
    <3> QED
      BY <1>7, <3>1, <3>2
  <2>6. ASSUME NEW p, p \in ToSet(a) \/ p \in ToSet(b)
        PROVE  \E k \in 1..Len(c) : p = c[k]
    <3>1. CASE p \in ToSet(a)
      BY <1>6, <2>2, <2>3, <3>1
    <3>2. CASE p \in ToSet(b)
      <4>1. PICK k \in 1..Len(b) : p = b[k]
        BY <2>2, <3>2
      <4>2. c[Len(a) + k] = p /\ Len(a) + k \in 1..Len(c)
        BY <1>6, <2>4, <4>1
      <4> QED
        BY <4>2
    <3> QED
      BY <2>6, <3>1, <3>2
  <2> QED
    BY <2>1, <2>5, <2>6
<1>9. \A p : p \in ToSet(c) <=> p \in mine \union {d} /\ die[p].placed
  BY <1>4, <1>8
<1>10. \A i \in 1..Len(a) : a[i] \in mine
  <2>1. \A i \in 1..Len(a) : a[i] \in ToSet(a)
    BY <1>3, SetOf
  <2> QED
    BY <1>4, <2>1
<1>11. \A i \in 1..Len(b) : b[i] = d
  <2>1. \A i \in 1..Len(b) : b[i] \in ToSet(b)
    BY <1>3, SetOf
  <2> QED
    BY <1>4, <2>1
<1>12. ASSUME NEW i \in 1..Len(c), NEW j \in 1..Len(c), i < j
       PROVE  level[c[i]] <= level[c[j]]
  <2>1. CASE j \in 1..Len(a)
    <3>1. i \in 1..Len(a)
      BY <1>6, <1>12, <2>1
    <3> QED
      BY <1>5, <1>6, <1>12, <2>1, <3>1
  <2>2. CASE j - Len(a) \in 1..Len(b) /\ Len(a) + (j - Len(a)) = j
    <3>1. c[j] = d
      <4>1. c[j] = b[j - Len(a)]
        BY <1>6, <2>2
      <4> QED
        BY <1>11, <2>2, <4>1
    <3>2. c[i] \in mine \union {d}
      <4>1. c[i] \in ToSet(c)
        BY <1>6, SetOf
      <4> QED
        BY <1>9, <4>1
    <3> QED
      BY <3>1, <3>2
  <2> QED
    BY <1>7, <2>1, <2>2
<1>13. \/ y.name = NoDie /\ \A e \in mine \union {d} : ~die[e].named
       \/ /\ y.name \in mine \union {d} /\ die[y.name].named
          /\ \A e \in mine \union {d} : die[e].named => level[e] <= level[y.name]
  <2> HIDE DEF y
  <2>1. CASE die[d].named
    BY <1>1, <2>1
  <2>2. CASE ~die[d].named
    BY <1>1, <2>2 DEF Stands
  <2> QED
    BY <2>1, <2>2
<1>14. y.places = c
  BY <1>1 DEF c
<1> HIDE DEF y
<1> QED
  BY <1>1, <1>6, <1>9, <1>12, <1>13, <1>14 DEF Stands, y

\* One entry more: it completes the one that it is abstracted from, or it is new.
LEMMA MergeAccounts ==
  ASSUME NEW list, NEW D, NEW level, Accounted(list, D, level), NEW d, d \notin D,
         \A e \in D \union {d} : level[e] \in Nat /\ level[e] <= level[d],
         \A e \in D \union {d} : die[e].origin # d,
         die[d].origin \in D => die[die[d].origin].origin \notin D
  PROVE  Accounted(Merge(list, d), D \union {d}, level)
<1> DEFINE N == D \union {d}
           o == die[d].origin
<1>1. \A e \in D : Target(N, e) = Target(D, e) /\ Target(D, e) \in D
  BY DEF Target
<1>2. Target(N, d) = IF o \in D THEN o ELSE d
  BY DEF Target
<1>3. /\ IsSeq(list) /\ Len(list) \in Nat
      /\ \A k \in 1..Len(list) : list[k].offset \in D
      /\ \A k \in 1..Len(list) : Stands(list[k], Mine(D, list[k].offset), level)
  BY <1>1, SeqLen DEF Accounted
<1>4. CASE /\ \A k \in 1..Len(list) : list[k].offset # o
           /\ Merge(list, d) = Append(list, EntryOf(d))
  <2>1. o \notin D
    <3> SUFFICES ASSUME o \in D PROVE FALSE
      OBVIOUS
    <3>1. Target(D, o) = o
      BY DEF Target
    <3> QED
      BY <1>4, <3>1 DEF Accounted
  <2> DEFINE new == Append(list, EntryOf(d))
             n == Len(list)
  <2>2. /\ IsSeq(new) /\ Len(new) = n + 1 /\ new[n + 1] = EntryOf(d)
        /\ \A k \in 1..n : new[k] = list[k]
    BY <1>3, SeqAppend
  <2> HIDE DEF new, n
  <2>3. /\ \A k \in 1..(n + 1) : k \in 1..n \/ k = n + 1
        /\ \A k \in 1..n : k \in 1..(n + 1) /\ k # n + 1
        /\ n + 1 \in 1..(n + 1)
    BY <1>3 DEF n
  <2>4. Target(N, d) = d /\ EntryOf(d).offset = d
    BY <1>2, <2>1 DEF EntryOf
  <2>5. Mine(N, d) = {d}
    BY <1>1, <2>4 DEF Mine
  <2>6. \A k \in 1..n : Mine(N, list[k].offset) = Mine(D, list[k].offset)
    BY <1>1, <1>3, <2>4 DEF Mine, n
  <2>7. \A k \in 1..n : new[k].offset \in D
    BY <1>3, <2>2 DEF n
  <2>8. \A k \in 1..(n + 1) : \E e \in N : new[k].offset = Target(N, e)
    <3> TAKE k \in 1..(n + 1)
    <3>1. CASE k = n + 1
      BY <2>2, <2>4, <3>1
    <3>2. CASE k \in 1..n
      <4>1. PICK e \in D : list[k].offset = Target(D, e)
        BY <3>2 DEF Accounted, n
      <4>2. e \in N /\ new[k].offset = Target(N, e)
        BY <1>1, <2>2, <3>2, <4>1
      <4> QED
        BY <4>2
    <3> QED
      BY <2>3, <3>1, <3>2
  <2>9. \A e \in N : \E k \in 1..(n + 1) : new[k].offset = Target(N, e)
    <3> TAKE e \in N
    <3>1. CASE e = d
      BY <2>2, <2>3, <2>4, <3>1
    <3>2. CASE e \in D
      <4>1. PICK k \in 1..n : list[k].offset = Target(D, e)
        BY <3>2 DEF Accounted, n
      <4> QED
        BY <1>1, <2>2, <2>3, <3>2, <4>1
    <3> QED
      BY <3>1, <3>2
  <2>10. \A j, k \in 1..(n + 1) : new[j].offset = new[k].offset => j = k
    <3> SUFFICES ASSUME NEW j \in 1..(n + 1), NEW k \in 1..(n + 1), new[j].offset = new[k].offset
                 PROVE  j = k
      OBVIOUS
    <3>1. CASE j \in 1..n /\ k \in 1..n
      BY <2>2, <3>1 DEF Accounted, n
    <3>2. CASE j = n + 1 /\ k \in 1..n
      BY <2>2, <2>4, <2>7, <3>2
    <3>3. CASE j \in 1..n /\ k = n + 1
      BY <2>2, <2>4, <2>7, <3>3
    <3> QED
      BY <2>3, <3>1, <3>2, <3>3
  <2>11. \A k \in 1..(n + 1) : Stands(new[k], Mine(N, new[k].offset), level)
    <3> TAKE k \in 1..(n + 1)
    <3>1. CASE k = n + 1
      BY <2>2, <2>4, <2>5, <3>1, StandsAlone
    <3>2. CASE k \in 1..n
      BY <1>3, <2>2, <2>6, <3>2 DEF n
    <3> QED
      BY <2>3, <3>1, <3>2
  <2>12. Accounted(new, N, level)
    <3> HIDE DEF N
    <3> QED
      BY <2>2, <2>8, <2>9, <2>10, <2>11 DEF Accounted
  <2> QED
    BY <1>4, <2>12 DEF new
<1>5. ASSUME NEW k \in 1..Len(list), list[k].offset = o,
             Merge(list, d) = [list EXCEPT ![k] = Completed(list[k], d)]
      PROVE  Accounted(Merge(list, d), N, level)
  <2> DEFINE n == Len(list)
             more == Completed(list[k], d)
             new == [list EXCEPT ![k] = more]
  <2>1. o \in D /\ Target(N, d) = o
    BY <1>2, <1>3, <1>5
  <2>2. more.offset = o
    BY <1>5 DEF Completed
  <2>3. Stands(list[k], Mine(D, o), level)
    BY <1>3, <1>5
  <2>4. Mine(N, o) = Mine(D, o) \union {d}
    BY <1>1, <2>1 DEF Mine
  <2>5. \A p : p # o => Mine(N, p) = Mine(D, p)
    BY <1>1, <2>1 DEF Mine
  <2>6. Stands(more, Mine(N, o), level)
    <3>1. \A e \in Mine(D, o) \union {d} : level[e] \in Nat /\ level[e] <= level[d]
      BY DEF Mine
    <3>2. Stands(Completed(list[k], d), Mine(D, o) \union {d}, level)
      BY <2>3, <3>1, StandsMore
    <3> QED
      BY <2>4, <3>2
  <2> HIDE DEF more
  <2>7. /\ IsSeq(new) /\ Len(new) = n /\ new[k] = more
        /\ \A i \in 1..n : i # k => new[i] = list[i]
    <3>1. IsSeq(list) /\ k \in 1..Len(list)
      BY <1>3, <1>5
    <3> HIDE DEF N, o
    <3> QED
      BY <3>1, SeqPut
  <2> HIDE DEF new, n
  <2>8. \A i \in 1..n : new[i].offset = list[i].offset
    BY <1>5, <2>2, <2>7
  <2>9. \A i \in 1..n : \E e \in N : new[i].offset = Target(N, e)
    <3> TAKE i \in 1..n
    <3>1. PICK e \in D : list[i].offset = Target(D, e)
      BY DEF Accounted, n
    <3>2. e \in N /\ new[i].offset = Target(N, e)
      BY <1>1, <2>8, <3>1
    <3> QED
      BY <3>2
  <2>10. \A e \in N : \E i \in 1..n : new[i].offset = Target(N, e)
    <3> TAKE e \in N
    <3>1. CASE e = d
      BY <1>5, <2>1, <2>8, <3>1 DEF n
    <3>2. CASE e \in D
      BY <1>1, <2>8, <3>2 DEF Accounted, n
    <3> QED
      BY <3>1, <3>2
  <2>11. \A i, j \in 1..n : new[i].offset = new[j].offset => i = j
    BY <2>8 DEF Accounted, n
  <2>12. \A i \in 1..n : Stands(new[i], Mine(N, new[i].offset), level)
    <3> TAKE i \in 1..n
    <3>1. CASE i = k
      BY <2>2, <2>6, <2>7, <3>1
    <3>2. CASE i # k
      <4>1. list[i].offset # o
        BY <1>5, <3>2 DEF Accounted, n
      <4> QED
        BY <1>3, <2>5, <2>7, <3>2, <4>1 DEF n
    <3> QED
      BY <3>1, <3>2
  <2> HIDE DEF N
  <2> QED
    <3>1. Merge(list, d) = new
      BY <1>5 DEF new, more
    <3>2. Accounted(new, N, level)
      BY <2>7, <2>9, <2>10, <2>11, <2>12 DEF Accounted
    <3> QED
      BY <3>1, <3>2
<1> QED
  BY <1>3, <1>4, <1>5, MergeIs

\* The children of a function and of the blocks in it are met once.
TreeShaped ==
  \A f \in FunctionDies : \A x, y \in {f} \union BlocksOf(f) :
    /\ \A j, k \in DOMAIN die[x].kids : die[x].kids[j] = die[x].kids[k] => j = k
    /\ x # y => Kids(x) \intersect Kids(y) = {}

ListTags == {"parameter", "variable"}

\* An entry is in one function, and it is abstracted from one of a function that is not
\* made of its own, which is not abstracted from another itself.
WellAbstracted ==
  \A f, g \in FunctionDies : \A tag \in ListTags :
    /\ f # g => Own(f, tag) \intersect Own(g, tag) = {}
    /\ \A d \in Own(f, tag) : die[d].origin \in Own(g, tag) =>
         /\ f # g /\ f \notin Reached[g]
         /\ \A h \in FunctionDies : die[die[d].origin].origin \notin Own(h, tag)

WellMade == TreeShaped /\ WellAbstracted

\* The entries of the functions in a chain, and where in it each has its function.
Through(chain, tag) == UNION {Own(chain[k], tag) : k \in 1..Len(chain)}
Levels(chain, tag) ==
  [d \in Through(chain, tag) |-> CHOOSE k \in 1..Len(chain) : d \in Own(chain[k], tag)]

Functions(chain) ==
  /\ IsSeq(chain)
  /\ \A k \in 1..Len(chain) : chain[k] \in FunctionDies
  /\ \A j, k \in 1..Len(chain) : chain[j] = chain[k] => j = k

LEMMA LevelIs ==
  ASSUME WellAbstracted, NEW tag \in ListTags, NEW chain, Functions(chain),
         NEW k \in 1..Len(chain), NEW d \in Own(chain[k], tag)
  PROVE  /\ d \in Through(chain, tag) /\ Levels(chain, tag)[d] = k
         /\ \A j \in 1..Len(chain) : d \in Own(chain[j], tag) => j = k
<1>1. d \in Through(chain, tag)
  BY DEF Through
<1>2. ASSUME NEW j \in 1..Len(chain), d \in Own(chain[j], tag)
      PROVE  j = k
  <2>1. chain[j] \in FunctionDies /\ chain[k] \in FunctionDies
    BY DEF Functions
  <2>2. chain[j] = chain[k]
    BY <1>2, <2>1 DEF WellAbstracted
  <2> QED
    BY <2>2 DEF Functions
<1>3. Levels(chain, tag)[d] = CHOOSE j \in 1..Len(chain) : d \in Own(chain[j], tag)
  BY <1>1 DEF Levels
<1> QED
  BY <1>1, <1>2, <1>3

LEMMA LevelsNat ==
  ASSUME NEW chain, IsSeq(chain), NEW tag, NEW d \in Through(chain, tag)
  PROVE  Levels(chain, tag)[d] \in 1..Len(chain) /\ Levels(chain, tag)[d] \in Nat
<1>1. \E k \in 1..Len(chain) : d \in Own(chain[k], tag)
  BY DEF Through
<1>2. Levels(chain, tag)[d] = CHOOSE j \in 1..Len(chain) : d \in Own(chain[j], tag)
  BY DEF Levels
<1>3. Levels(chain, tag)[d] \in 1..Len(chain)
  BY <1>1, <1>2
<1>4. Len(chain) \in Nat
  BY SeqLen
<1> QED
  BY <1>3, <1>4

LEMMA FunctionsMore ==
  ASSUME NEW q, Functions(q), NEW f \in FunctionDies, f \notin ToSet(q)
  PROVE  /\ Functions(Append(q, f)) /\ Len(Append(q, f)) = Len(q) + 1 /\ Len(q) \in Nat
         /\ Append(q, f)[Len(q) + 1] = f /\ \A k \in 1..Len(q) : Append(q, f)[k] = q[k]
<1> DEFINE c == Append(q, f)
           n == Len(q)
<1>1. /\ IsSeq(c) /\ Len(c) = n + 1 /\ n \in Nat /\ c[n + 1] = f
      /\ \A k \in 1..n : c[k] = q[k]
  BY SeqAppend, SeqLen DEF Functions
<1>2. \A k \in 1..n : q[k] # f
  BY SetOf DEF Functions
<1> HIDE DEF c
<1>3. \A k \in 1..(n + 1) : k \in 1..n \/ k = n + 1
  BY <1>1
<1>4. \A k \in 1..(n + 1) : c[k] \in FunctionDies
  BY <1>1, <1>3 DEF Functions
<1>5. ASSUME NEW j \in 1..(n + 1), NEW k \in 1..(n + 1), c[j] = c[k]
      PROVE  j = k
  BY <1>1, <1>2, <1>3, <1>5 DEF Functions
<1>6. Functions(c)
  BY <1>1, <1>4, <1>5 DEF Functions
<1> QED
  BY <1>1, <1>6 DEF c

\* The functions of a chain and one more.
LEMMA OneMore ==
  ASSUME WellAbstracted, NEW tag \in ListTags, NEW q, Functions(q),
         NEW f \in FunctionDies, f \notin ToSet(q)
  PROVE  /\ Functions(Append(q, f)) /\ Len(Append(q, f)) = Len(q) + 1 /\ Len(q) \in Nat
         /\ Append(q, f)[Len(q) + 1] = f /\ \A k \in 1..Len(q) : Append(q, f)[k] = q[k]
         /\ \A d : d \in Through(Append(q, f), tag) <=> d \in Through(q, tag) \/ d \in Own(f, tag)
         /\ \A d \in Through(q, tag) : Levels(Append(q, f), tag)[d] = Levels(q, tag)[d]
         /\ \A d \in Own(f, tag) : Levels(Append(q, f), tag)[d] = Len(q) + 1
         /\ Through(q, tag) \intersect Own(f, tag) = {}
<1> DEFINE c == Append(q, f)
           n == Len(q)
<1>1. /\ Functions(c) /\ IsSeq(c) /\ Len(c) = n + 1 /\ n \in Nat /\ c[n + 1] = f
      /\ \A k \in 1..n : c[k] = q[k]
  BY FunctionsMore DEF Functions
<1>2. \A k \in 1..n : q[k] # f
  BY SetOf DEF Functions
<1> HIDE DEF c
<1>3. \A k \in 1..(n + 1) : k \in 1..n \/ k = n + 1
  BY <1>1
<1>4. \A k \in 1..n : k \in 1..(n + 1) /\ k # n + 1
  BY <1>1
<1>5. n + 1 \in 1..(n + 1)
  BY <1>1
<1>6. Functions(c)
  BY <1>1
<1>7. \A d : d \in Through(c, tag) <=> d \in Through(q, tag) \/ d \in Own(f, tag)
  BY <1>1, <1>3, <1>4, <1>5 DEF Through
<1>8. ASSUME NEW d \in Through(q, tag)
      PROVE  Levels(c, tag)[d] = Levels(q, tag)[d]
  <2>1. PICK k \in 1..n : d \in Own(q[k], tag)
    BY DEF Through
  <2>2. Levels(q, tag)[d] = k
    BY <2>1, LevelIs
  <2>3. k \in 1..Len(c) /\ d \in Own(c[k], tag)
    BY <1>1, <1>4, <2>1
  <2>4. Levels(c, tag)[d] = k
    BY <1>6, <2>3, LevelIs
  <2> QED
    BY <2>2, <2>4
<1>9. ASSUME NEW d \in Own(f, tag)
      PROVE  Levels(c, tag)[d] = n + 1
  <2>1. n + 1 \in 1..Len(c) /\ d \in Own(c[n + 1], tag)
    BY <1>1, <1>5
  <2> QED
    BY <1>6, <2>1, LevelIs
<1>10. ASSUME NEW d \in Through(q, tag), d \in Own(f, tag)
       PROVE  FALSE
  <2>1. PICK k \in 1..n : d \in Own(q[k], tag)
    BY DEF Through
  <2>2. q[k] \in FunctionDies /\ q[k] # f
    BY <1>2 DEF Functions
  <2> QED
    BY <1>10, <2>1, <2>2 DEF WellAbstracted
<1> QED
  BY <1>1, <1>6, <1>7, <1>8, <1>9, <1>10 DEF c

LEMMA AccountedSame ==
  ASSUME NEW list, NEW D, NEW level, Accounted(list, D, level), NEW other,
         \A d \in D : other[d] = level[d]
  PROVE  Accounted(list, D, other)
<1>1. ASSUME NEW k \in 1..Len(list)
      PROVE  Stands(list[k], Mine(D, list[k].offset), other)
  <2> DEFINE x == list[k]
             mine == Mine(D, x.offset)
  <2>1. Stands(x, mine, level) /\ mine \subseteq D
    BY DEF Accounted, Mine
  <2> HIDE DEF x, mine
  <2>2. \A i \in 1..Len(x.places) : x.places[i] \in D
    <3>1. \A i \in 1..Len(x.places) : x.places[i] \in ToSet(x.places)
      BY <2>1, SetOf DEF Stands
    <3> QED
      BY <2>1, <3>1 DEF Stands
  <2>3. Stands(x, mine, other)
    BY <2>1, <2>2 DEF Stands
  <2> QED
    BY <2>3 DEF x, mine
<1> QED
  BY <1>1 DEF Accounted

\* A list that accounts for all entries of a chain does so as AccountsFor says.
LEMMA AccountsFrom ==
  ASSUME WellAbstracted, NEW tag \in ListTags, NEW chain, Functions(chain),
         NEW list, Accounted(list, Through(chain, tag), Levels(chain, tag))
  PROVE  Accounts(list, chain, tag)
<1> DEFINE own == [d \in ToSet(chain) |-> Own(d, tag)]
           all == UNION {own[d] : d \in ToSet(chain)}
           target(d) == IF die[d].origin \in all THEN die[d].origin ELSE d
           level(d) == CHOOSE k \in 1..Len(chain) : d \in own[chain[k]]
           D == Through(chain, tag)
           L == Levels(chain, tag)
<1>1. /\ IsSeq(chain) /\ \A x : x \in ToSet(chain) <=> \E k \in 1..Len(chain) : x = chain[k]
  BY SetOf DEF Functions
<1>2. \A k \in 1..Len(chain) : chain[k] \in ToSet(chain) /\ own[chain[k]] = Own(chain[k], tag)
  BY <1>1
<1>3. all = D
  BY <1>1 DEF Through
<1>4. \A d \in D : level(d) = L[d]
  <2> TAKE d \in D
  <2>1. PICK k \in 1..Len(chain) : d \in Own(chain[k], tag)
    BY DEF Through
  <2>2. L[d] = k /\ \A j \in 1..Len(chain) : d \in Own(chain[j], tag) => j = k
    BY <2>1, LevelIs
  <2>3. d \in own[chain[k]] /\ \A j \in 1..Len(chain) : d \in own[chain[j]] => j = k
    BY <1>2, <2>1, <2>2
  <2> HIDE DEF own, L
  <2>4. level(d) = k
    BY <2>3
  <2> QED
    BY <2>2, <2>4
<1>5. \A d : target(d) = Target(D, d)
  BY <1>3 DEF Target
<1>6. IsSeq(list) /\ DOMAIN list = 1..Len(list)
  BY SeqLen DEF Accounted
<1> HIDE DEF all, target, level, D, L, own
<1>7. {list[k].offset : k \in DOMAIN list} = {target(d) : d \in all}
  <2>1. \A k \in DOMAIN list : \E d \in all : list[k].offset = target(d)
    BY <1>3, <1>5, <1>6 DEF Accounted, D
  <2>2. \A d \in all : \E k \in DOMAIN list : list[k].offset = target(d)
    BY <1>3, <1>5, <1>6 DEF Accounted, D
  <2> QED
    BY <2>1, <2>2
<1>8. \A j, k \in DOMAIN list : list[j].offset = list[k].offset => j = k
  BY <1>6 DEF Accounted
<1>9. ASSUME NEW k \in DOMAIN list
      PROVE  LET x == list[k]
                 mine == {d \in all : target(d) = x.offset}
                 names == {d \in mine : die[d].named}
             IN  /\ x.from = mine
                 /\ ToSet(x.places) = {d \in mine : die[d].placed}
                 /\ \A i, j \in DOMAIN x.places : i < j => level(x.places[i]) <= level(x.places[j])
                 /\ IF names = {} THEN x.name = NoDie
                    ELSE x.name \in names /\ \A d \in names : level(d) <= level(x.name)
  <2> DEFINE x == list[k]
             mine == {d \in all : target(d) = x.offset}
             names == {d \in mine : die[d].named}
  <2>1. Stands(x, Mine(D, x.offset), L)
    BY <1>6 DEF Accounted, D, L
  <2>2. mine = Mine(D, x.offset)
    BY <1>3, <1>5 DEF Mine
  <2>3. \A d \in mine : level(d) = L[d]
    BY <1>3, <1>4
  <2> HIDE DEF x, mine
  <2>4. Stands(x, mine, L)
    BY <2>1, <2>2
  <2>5. IsSeq(x.places) /\ DOMAIN x.places = 1..Len(x.places)
    BY <2>4, SeqLen DEF Stands
  <2>6. ToSet(x.places) = {d \in mine : die[d].placed}
    BY <2>4 DEF Stands
  <2>7. \A i \in 1..Len(x.places) : x.places[i] \in mine
    <3>1. \A i \in 1..Len(x.places) : x.places[i] \in ToSet(x.places)
      BY <2>5, SetOf
    <3> QED
      BY <2>6, <3>1
  <2>8. \A i, j \in DOMAIN x.places : i < j => level(x.places[i]) <= level(x.places[j])
    BY <2>3, <2>4, <2>5, <2>7 DEF Stands
  <2>9. IF names = {} THEN x.name = NoDie
        ELSE x.name \in names /\ \A d \in names : level(d) <= level(x.name)
    <3>1. CASE x.name = NoDie /\ \A d \in mine : ~die[d].named
      BY <3>1
    <3>2. CASE /\ x.name \in mine /\ die[x.name].named
               /\ \A d \in mine : die[d].named => L[d] <= L[x.name]
      BY <2>3, <3>2
    <3> QED
      BY <2>4, <3>1, <3>2 DEF Stands
  <2>10. x.from = mine
    BY <2>4 DEF Stands
  <2> QED
    BY <2>6, <2>8, <2>9, <2>10 DEF x, mine
<1> QED
  BY <1>7, <1>8, <1>9 DEF Accounts, all, target, level, own

\* Functions whose origins lead on without an end.
Endless == UNION {E \in SUBSET FunctionDies : \A f \in E : \E o \in OriginOf(f) : o \in E}

Readable(d) == \A e \in Reached[d] \union {d} : \A x \in Near(e) : ~die[x].bad

\* The functions whose details those of `at' started from: each is the origin of the
\* next one and the last the origin of `at'.  It is cut short only where an entry
\* cannot be read.
Path(q, at) ==
  /\ Functions(q)
  /\ \A k \in 1..Len(q) : q[k] \in Reached[at]
  /\ \A k \in 1..Len(q) : k > 1 => OriginOf(q[k]) = {q[k - 1]}
  /\ q # <<>> => OriginOf(at) = {q[Len(q)]}
  /\ Readable(at) => \A d \in ToSet(q) \union {at} : OriginOf(d) \subseteq ToSet(q)

Todo(c) == {c.todo[k].at : k \in 1..Len(c.todo)}

\* What is done and what is still to do are the children of the function and of the
\* blocks that were opened, each once.
Traversed(c, done) ==
  /\ done \subseteq Near(c.at)
  /\ \A e : e \in done \/ e \in Todo(c) <=>
             e \in Kids(c.at) \/ \E b \in done : die[b].tag = "block" /\ e \in Kids(b)
  /\ TreeShaped =>
       /\ done \intersect Todo(c) = {}
       /\ \A j, k \in 1..Len(c.todo) : c.todo[j].at = c.todo[k].at => j = k
       /\ \A k \in 1..Len(c.todo) : c.todo[k].block <=> c.todo[k].at \notin Kids(c.at)

\* The details have what the functions in q and what is done give.
InlinedIn(details) == {details.inlined[k].at : k \in 1..Len(details.inlined)}
InlinedBefore(q, at) == IF die[at].tag = "inlined" THEN {} ELSE Through(q, "inlined")
Seen(q, at, done, tag) == Through(q, tag) \union (done \intersect Own(at, tag))
Lists(details, q, at, done) ==
  /\ Accounted(details.parameters, Seen(q, at, done, "parameter"),
               Levels(Append(q, at), "parameter"))
  /\ Accounted(details.variables, Seen(q, at, done, "variable"),
               Levels(Append(q, at), "variable"))

\* Details all of whose parts are as they should be.
FullLists(p) ==
  /\ Functions(p.chain)
  /\ Accounted(p.parameters, Through(p.chain, "parameter"), Levels(p.chain, "parameter"))
  /\ Accounted(p.variables, Through(p.chain, "variable"), Levels(p.chain, "variable"))
PartOK(p) == p.chain # <<>> /\ HasInlined(p) /\ (WellMade => FullLists(p))
AllParts(S) == \A p \in S : PartOK(p) /\ \A k \in DOMAIN p.inlined : p.inlined[k].details \in S
Sound(details) == \E S : details \in S /\ AllParts(S)

Shaped(details) ==
  /\ DOMAIN details = {"parameters", "variables", "inlined", "chain"}
  /\ IsSeq(details.inlined)
  /\ \A k \in 1..Len(details.inlined) : Sound(details.inlined[k].details)

Filled(c) ==
  /\ Shaped(c.details) /\ c.at \notin Endless
  /\ \E q, done : /\ c.details.chain = Append(q, c.at) /\ Path(q, c.at) /\ Traversed(c, done)
                  /\ InlinedIn(c.details)
                       = InlinedBefore(q, c.at) \union (done \intersect Own(c.at, "inlined"))
                  /\ WellMade => Lists(c.details, q, c.at, done)

\* What a call waits for.
Link(c, d) ==
  IF die[d].tag = "inlined" THEN c.phase = "children" /\ c.todo # <<>> /\ Head(c.todo).at = d
  ELSE c.phase = "waiting" /\ OriginOf(c.at) = {d}

CallBuilt(c) == IF c.phase = "children" THEN Filled(c) ELSE c.details = NoDetails

Built(cs) ==
  /\ \A i \in 1..Len(cs) : CallBuilt(cs[i])
  /\ \A i \in 1..(Len(cs) - 1) : Link(cs[i], cs[i + 1].at)

-----------------------------------------------------------------------------
LEMMA NotAgain ==
  ASSUME NEW q, NEW at, Path(q, at), at \notin Endless
  PROVE  at \notin ToSet(q)
<1> SUFFICES ASSUME at \in ToSet(q) PROVE FALSE
  OBVIOUS
<1>1. IsSeq(q) /\ Len(q) \in Nat
  BY SeqLen DEF Path, Functions
<1>2. PICK j \in 1..Len(q) : q[j] = at
  BY <1>1, SetOf
<1> DEFINE n == Len(q)
           E == {q[i] : i \in j..n}
<1>3. q # <<>>
  BY <1>1, <1>2, SeqEmpty
<1>4. \A i \in j..n : i \in 1..n /\ (i # j => i - 1 \in j..n /\ i > 1)
  BY <1>1, <1>2
<1>5. n \in j..n /\ j \in j..n
  BY <1>1, <1>2
<1>6. E \subseteq FunctionDies
  BY <1>4 DEF Path, Functions
<1>7. ASSUME NEW i \in j..n
      PROVE  \E o \in OriginOf(q[i]) : o \in E
  <2>1. CASE i = j
    <3>1. OriginOf(at) = {q[n]}
      BY <1>3 DEF Path
    <3> QED
      BY <1>2, <1>5, <2>1, <3>1
  <2>2. CASE i # j
    <3>1. OriginOf(q[i]) = {q[i - 1]} /\ i - 1 \in j..n
      BY <1>4, <1>7, <2>2 DEF Path
    <3> QED
      BY <3>1
  <2> QED
    BY <2>1, <2>2
<1>8. E \in SUBSET FunctionDies /\ \A f \in E : \E o \in OriginOf(f) : o \in E
  BY <1>6, <1>7
<1>9. at \in E
  BY <1>2, <1>5
<1> HIDE DEF E
<1> QED
  BY <1>8, <1>9 DEF Endless

LEMMA EndlessOrigin ==
  ASSUME NEW at, \A o \in OriginOf(at) : o \notin Endless
  PROVE  at \notin Endless
  BY DEF Endless

LEMMA ThroughMore ==
  ASSUME NEW q, IsSeq(q), NEW f, NEW tag
  PROVE  Through(Append(q, f), tag) = Through(q, tag) \union Own(f, tag)
<1> DEFINE c == Append(q, f)
           n == Len(q)
<1>1. /\ Len(c) = n + 1 /\ n \in Nat /\ c[n + 1] = f
      /\ \A k \in 1..n : c[k] = q[k]
  BY SeqAppend, SeqLen
<1> HIDE DEF c, n
<1>2. /\ \A k \in 1..(n + 1) : k \in 1..n \/ k = n + 1
      /\ \A k \in 1..n : k \in 1..(n + 1)
      /\ n + 1 \in 1..(n + 1)
  BY <1>1
<1>3. Through(c, tag) = Through(q, tag) \union Own(f, tag)
  BY <1>1, <1>2 DEF Through, n
<1> QED
  BY <1>3 DEF c

LEMMA SoundFrom ==
  ASSUME NEW p, PartOK(p), IsSeq(p.inlined),
         \A k \in 1..Len(p.inlined) : Sound(p.inlined[k].details)
  PROVE  Sound(p)
<1> DEFINE I == DOMAIN p.inlined
           T == [k \in I |-> CHOOSE S : p.inlined[k].details \in S /\ AllParts(S)]
           S == {p} \union UNION {T[k] : k \in I}
<1>1. I = 1..Len(p.inlined)
  BY SeqLen
<1>2. ASSUME NEW k \in I
      PROVE  p.inlined[k].details \in T[k] /\ AllParts(T[k])
  <2>1. \E U : p.inlined[k].details \in U /\ AllParts(U)
    BY <1>1 DEF Sound
  <2>2. T[k] = CHOOSE U : p.inlined[k].details \in U /\ AllParts(U)
    OBVIOUS
  <2> QED
    BY <2>1, <2>2
<1> HIDE DEF T
<1>3. ASSUME NEW x \in S
      PROVE  PartOK(x) /\ \A k \in DOMAIN x.inlined : x.inlined[k].details \in S
  <2>1. CASE x = p
    BY <1>2, <2>1
  <2>2. ASSUME NEW j \in I, x \in T[j]
        PROVE  PartOK(x) /\ \A k \in DOMAIN x.inlined : x.inlined[k].details \in S
    BY <1>2, <2>2 DEF AllParts
  <2> QED
    BY <1>3, <2>1, <2>2
<1>4. p \in S /\ AllParts(S)
  BY <1>3 DEF AllParts
<1> HIDE DEF S
<1> QED
  BY <1>4 DEF Sound

\* What a call returns.
Whole(p, d) ==
  /\ Shaped(p) /\ d \in FunctionDies /\ d \notin Endless
  /\ \E q : /\ p.chain = Append(q, d) /\ Path(q, d)
            /\ InlinedIn(p) = InlinedBefore(q, d) \union Own(d, "inlined")
            /\ WellMade =>
                 /\ Accounted(p.parameters, Through(p.chain, "parameter"),
                              Levels(p.chain, "parameter"))
                 /\ Accounted(p.variables, Through(p.chain, "variable"),
                              Levels(p.chain, "variable"))

LEMMA NothingLeft ==
  ASSUME TreeOK, NEW c, CallOK(c), Filled(c), c.todo = <<>>
  PROVE  Whole(c.details, c.at)
<1> DEFINE p == c.details
           d == c.at
<1>1. /\ Shaped(p) /\ d \notin Endless /\ d \in FunctionDies
  BY DEF Filled, CallOK
<1>2. PICK q, done : /\ p.chain = Append(q, d) /\ Path(q, d) /\ Traversed(c, done)
                     /\ InlinedIn(p)
                          = InlinedBefore(q, d) \union (done \intersect Own(d, "inlined"))
                     /\ WellMade => Lists(p, q, d, done)
  BY DEF Filled
<1>3. Todo(c) = {}
  <2>1. Len(c.todo) = 0
    BY SeqEmpty
  <2> QED
    BY <2>1 DEF Todo
<1>4. Near(d) \subseteq done
  <2>1. done \subseteq Near(d) /\ Kids(d) \subseteq done
    BY <1>2, <1>3 DEF Traversed
  <2>2. \A b \in done : die[b].tag = "block" => Kids(b) \subseteq done
    BY <1>2, <1>3 DEF Traversed
  <2> QED
    BY <1>1, <2>1, <2>2, NearClosed
<1>5. ASSUME NEW tag \in {"inlined", "variable", "parameter"}
      PROVE  done \intersect Own(d, tag) = Own(d, tag)
  <2>1. Own(d, tag) \subseteq Near(d)
    <3>1. Kids(d) \subseteq Near(d)
      BY DEF Near
    <3> QED
      BY <3>1, OwnIs
  <2> QED
    BY <1>4, <2>1
<1>6. IsSeq(q)
  BY <1>2 DEF Path, Functions
<1>7. InlinedIn(p) = InlinedBefore(q, d) \union Own(d, "inlined")
  BY <1>2, <1>5
<1>8. ASSUME WellMade
      PROVE  /\ Accounted(p.parameters, Through(p.chain, "parameter"), Levels(p.chain, "parameter"))
             /\ Accounted(p.variables, Through(p.chain, "variable"), Levels(p.chain, "variable"))
  <2>1. /\ Seen(q, d, done, "parameter") = Through(p.chain, "parameter")
        /\ Seen(q, d, done, "variable") = Through(p.chain, "variable")
    <3>1. Seen(q, d, done, "parameter") = Through(q, "parameter") \union Own(d, "parameter")
      BY <1>5 DEF Seen
    <3>2. Seen(q, d, done, "variable") = Through(q, "variable") \union Own(d, "variable")
      BY <1>5 DEF Seen
    <3>3. /\ Through(Append(q, d), "parameter") = Through(q, "parameter") \union Own(d, "parameter")
          /\ Through(Append(q, d), "variable") = Through(q, "variable") \union Own(d, "variable")
      BY <1>6, ThroughMore
    <3>4. p.chain = Append(q, d)
      BY <1>2
    <3> HIDE DEF p, d
    <3> QED
      BY <3>1, <3>2, <3>3, <3>4
  <2>2. Lists(p, q, d, done)
    BY <1>2, <1>8
  <2> QED
    BY <1>2, <2>1, <2>2 DEF Lists
<1> QED
  BY <1>1, <1>2, <1>7, <1>8 DEF Whole

LEMMA CompleteSound ==
  ASSUME NEW p, NEW d, Whole(p, d)
  PROVE  Sound(p)
<1>1. PICK q : /\ p.chain = Append(q, d) /\ Path(q, d)
               /\ InlinedIn(p) = InlinedBefore(q, d) \union Own(d, "inlined")
               /\ WellMade =>
                    /\ Accounted(p.parameters, Through(p.chain, "parameter"),
                                 Levels(p.chain, "parameter"))
                    /\ Accounted(p.variables, Through(p.chain, "variable"),
                                 Levels(p.chain, "variable"))
  BY DEF Whole
<1>2. /\ Shaped(p) /\ d \in FunctionDies /\ d \notin Endless
  BY DEF Whole
<1>3. Functions(q) /\ IsSeq(q)
  BY <1>1 DEF Path, Functions
<1>4. IsSeq(p.chain) /\ Len(p.chain) = Len(q) + 1 /\ Len(q) \in Nat /\ p.chain[Len(p.chain)] = d
  <2>1. /\ IsSeq(Append(q, d)) /\ Len(Append(q, d)) = Len(q) + 1
        /\ Append(q, d)[Len(q) + 1] = d
    BY <1>3, SeqAppend
  <2> QED
    BY <1>1, <1>3, <2>1, SeqLen
<1>5. p.chain # <<>>
  <2>1. Len(p.chain) # 0
    BY <1>4
  <2> QED
    BY <2>1, SeqEmpty
<1>6. DOMAIN p.inlined = 1..Len(p.inlined) /\ IsSeq(p.inlined)
  BY <1>2, SeqLen DEF Shaped
<1>7. HasInlined(p)
  <2> DEFINE from == IF die[d].tag = "inlined" THEN {d} ELSE ToSet(p.chain)
  <2>1. {p.inlined[k].at : k \in DOMAIN p.inlined} = InlinedIn(p)
    BY <1>6 DEF InlinedIn
  <2>2. UNION {Own(f, "inlined") : f \in from} = InlinedBefore(q, d) \union Own(d, "inlined")
    <3>1. CASE die[d].tag = "inlined"
      BY <3>1 DEF InlinedBefore
    <3>2. CASE die[d].tag # "inlined"
      <4>1. \A x : x \in ToSet(p.chain) <=> \E k \in 1..Len(p.chain) : x = p.chain[k]
        BY <1>4, SetOf
      <4>2. UNION {Own(f, "inlined") : f \in ToSet(p.chain)} = Through(p.chain, "inlined")
        BY <4>1 DEF Through
      <4>3. Through(p.chain, "inlined") = Through(q, "inlined") \union Own(d, "inlined")
        BY <1>1, <1>3, ThroughMore
      <4> QED
        BY <3>2, <4>2, <4>3 DEF InlinedBefore
    <3> QED
      BY <3>1, <3>2
  <2> HIDE DEF from
  <2>3. {p.inlined[k].at : k \in DOMAIN p.inlined} = UNION {Own(f, "inlined") : f \in from}
    BY <1>1, <2>1, <2>2
  <2> QED
    BY <1>4, <2>3 DEF HasInlined, from
<1>8. ASSUME WellMade
      PROVE  FullLists(p)
  <2>1. Functions(p.chain)
    <3>1. d \notin ToSet(q)
      BY <1>1, <1>2, NotAgain
    <3>2. Functions(Append(q, d))
      BY <1>2, <1>3, <3>1, FunctionsMore
    <3> QED
      BY <1>1, <3>2
  <2> QED
    BY <1>1, <1>8, <2>1 DEF FullLists
<1> QED
  BY <1>2, <1>5, <1>6, <1>7, <1>8, SoundFrom DEF PartOK, Shaped

LEMMA FullListsAccount ==
  ASSUME WellMade, NEW p, FullLists(p)
  PROVE  AccountsFor(p)
<1>1. WellAbstracted /\ Functions(p.chain)
  BY DEF WellMade, FullLists
<1>2. "parameter" \in ListTags /\ "variable" \in ListTags
  BY DEF ListTags
<1>3. /\ Accounts(p.parameters, p.chain, "parameter")
      /\ Accounts(p.variables, p.chain, "variable")
  BY <1>1, <1>2, AccountsFrom DEF FullLists
<1> QED
  BY <1>3 DEF AccountsFor

LEMMA ItemsBlock ==
  ASSUME TreeOK, NEW d \in DOMAIN die
  PROVE  /\ \A k \in 1..Len(Items(d, FALSE)) : ~Items(d, FALSE)[k].block
         /\ \A k \in 1..Len(Items(d, TRUE)) : Items(d, TRUE)[k].block
<1>1. /\ Len(Items(d, FALSE)) = Len(die[d].kids) /\ Len(Items(d, TRUE)) = Len(die[d].kids)
      /\ DOMAIN die[d].kids = 1..Len(die[d].kids)
  <2>1. /\ Len(Items(d, FALSE)) = Len(die[d].kids)
        /\ DOMAIN die[d].kids = 1..Len(Items(d, FALSE))
    BY ItemsAre
  <2>2. Len(Items(d, TRUE)) = Len(die[d].kids)
    BY ItemsAre
  <2> QED
    BY <2>1, <2>2
<1>2. \A k \in DOMAIN die[d].kids : ~Items(d, FALSE)[k].block /\ Items(d, TRUE)[k].block
  BY DEF Items
<1> QED
  BY <1>1, <1>2

-----------------------------------------------------------------------------
\* A call whose details are those of its origin, or none, begins with its children.
LEMMA BeginFilled ==
  ASSUME TreeOK, NEW c, CallOK(c), NEW q, Path(q, c.at), c.at \notin Endless,
         Shaped(c.details), c.details.chain = q,
         InlinedIn(c.details) = InlinedBefore(q, c.at),
         WellMade =>
           /\ Accounted(c.details.parameters, Through(q, "parameter"), Levels(q, "parameter"))
           /\ Accounted(c.details.variables, Through(q, "variable"), Levels(q, "variable"))
  PROVE  Filled(BeginChildren(c)) /\ BeginChildren(c).phase = "children"
<1> DEFINE b == BeginChildren(c)
           d == c.at
           its == Items(d, FALSE)
<1>1. /\ DOMAIN c = {"at", "phase", "todo", "details"} /\ d \in FunctionDies /\ d \in DOMAIN die
  BY DEF CallOK, FunctionDies
<1>2. DOMAIN c.details = {"parameters", "variables", "inlined", "chain"}
  BY DEF Shaped
<1>3. /\ b.at = d /\ b.phase = "children" /\ b.todo = its
      /\ b.details = [c.details EXCEPT !.chain = Append(q, d)]
  BY <1>1, <1>2 DEF BeginChildren
<1>4. /\ DOMAIN b.details = {"parameters", "variables", "inlined", "chain"}
      /\ b.details.chain = Append(q, d) /\ b.details.inlined = c.details.inlined
      /\ b.details.parameters = c.details.parameters
      /\ b.details.variables = c.details.variables
  BY <1>2, <1>3
<1> HIDE DEF b
<1>5. Shaped(b.details) /\ InlinedIn(b.details) = InlinedIn(c.details)
  BY <1>4 DEF Shaped, InlinedIn
<1>6. /\ IsSeq(its) /\ Len(its) = Len(die[d].kids) /\ DOMAIN die[d].kids = 1..Len(its)
      /\ \A k \in 1..Len(its) : its[k].at = die[d].kids[k] /\ ~its[k].block
  <2>1. /\ IsSeq(its) /\ Len(its) = Len(die[d].kids) /\ DOMAIN die[d].kids = 1..Len(its)
        /\ \A k \in 1..Len(its) : its[k].at = die[d].kids[k]
    BY <1>1, ItemsAre
  <2>2. \A k \in 1..Len(its) : ~its[k].block
    BY <1>1, ItemsBlock
  <2> QED
    BY <2>1, <2>2
<1> HIDE DEF its
<1>7. Todo(b) = Kids(d)
  BY <1>3, <1>6 DEF Todo, Kids, ToSet
<1>8. Traversed(b, {})
  <2>1. d \in {d} \union BlocksOf(d)
    OBVIOUS
  <2>2. TreeShaped => \A j, k \in 1..Len(its) : its[j].at = its[k].at => j = k
    <3>1. TreeShaped => \A j, k \in DOMAIN die[d].kids : die[d].kids[j] = die[d].kids[k] => j = k
      BY <1>1, <2>1 DEF TreeShaped
    <3> QED
      BY <1>6, <3>1
  <2>3. \A k \in 1..Len(its) : its[k].at \in Kids(d)
    BY <1>3, <1>7 DEF Todo
  <2> QED
    BY <1>3, <1>6, <1>7, <2>2, <2>3 DEF Traversed
<1>9. ASSUME WellMade
      PROVE  Lists(b.details, q, d, {})
  <2>1. /\ Seen(q, d, {}, "parameter") = Through(q, "parameter")
        /\ Seen(q, d, {}, "variable") = Through(q, "variable")
    BY DEF Seen
  <2>2. ASSUME NEW tag \in ListTags
        PROVE  \A e \in Through(q, tag) : Levels(Append(q, d), tag)[e] = Levels(q, tag)[e]
    <3>1. d \notin ToSet(q)
      BY NotAgain
    <3>2. WellAbstracted /\ Functions(q)
      BY <1>9 DEF WellMade, Path
    <3> QED
      BY <1>1, <3>1, <3>2, OneMore
  <2>3. /\ Accounted(c.details.parameters, Through(q, "parameter"),
                     Levels(Append(q, d), "parameter"))
        /\ Accounted(c.details.variables, Through(q, "variable"),
                     Levels(Append(q, d), "variable"))
    BY <1>9, <2>2, AccountedSame DEF ListTags
  <2> QED
    BY <1>4, <2>1, <2>3 DEF Lists
<1>10. InlinedIn(b.details) = InlinedBefore(q, d) \union ({} \intersect Own(d, "inlined"))
  BY <1>5
<1> QED
  BY <1>3, <1>4, <1>5, <1>8, <1>9, <1>10 DEF Filled, b

LEMMA BuiltChanged ==
  ASSUME NEW cs, IsSeq(cs), Built(cs), NEW n \in 1..Len(cs), NEW p, IsSeq(p), Len(p) = n,
         \A i \in 1..(n - 1) : p[i] = cs[i], CallBuilt(p[n]), p[n].at = cs[n].at
  PROVE  Built(p)
<1>1. Len(cs) \in Nat /\ n \in Nat
  BY SeqLen
<1>2. \A i \in 1..n : p[i].at = cs[i].at /\ CallBuilt(p[i])
  <2> TAKE i \in 1..n
  <2>1. CASE i = n
    BY <2>1
  <2>2. CASE i # n
    <3>1. i \in 1..(n - 1) /\ i \in 1..Len(cs)
      BY <1>1, <2>2
    <3> QED
      BY <3>1 DEF Built
  <2> QED
    BY <2>1, <2>2
<1>3. ASSUME NEW i \in 1..(n - 1)
      PROVE  Link(p[i], p[i + 1].at)
  <2>1. i \in 1..(Len(cs) - 1) /\ i + 1 \in 1..n
    BY <1>1
  <2>2. Link(cs[i], cs[i + 1].at)
    BY <2>1 DEF Built
  <2> QED
    BY <1>2, <2>1, <2>2
<1> QED
  BY <1>2, <1>3 DEF Built

LEMMA BuiltPrefix ==
  ASSUME NEW cs, IsSeq(cs), Built(cs), NEW n \in 0..Len(cs)
  PROVE  Built(SubSeq(cs, 1, n))
<1> DEFINE p == SubSeq(cs, 1, n)
<1>1. IsSeq(p) /\ Len(p) = n /\ \A i \in 1..n : p[i] = cs[i]
  BY SeqPrefix
<1>2. Len(cs) \in Nat
  BY SeqLen
<1> HIDE DEF p
<1>3. /\ \A i \in 1..n : i \in 1..Len(cs)
      /\ \A i \in 1..(n - 1) : i \in 1..(Len(cs) - 1) /\ i \in 1..n /\ i + 1 \in 1..n
  BY <1>2
<1>4. Built(p)
  BY <1>1, <1>3 DEF Built
<1> QED
  BY <1>4 DEF p

LEMMA BuiltTop ==
  ASSUME NEW cs, IsSeq(cs), Built(cs), cs # <<>>, NEW c, CallBuilt(c), c.at = cs[Len(cs)].at
  PROVE  Built([cs EXCEPT ![Len(cs)] = c])
<1> DEFINE p == [cs EXCEPT ![Len(cs)] = c]
<1>1. IsSeq(p) /\ Len(p) = Len(cs) /\ p[Len(cs)] = c
      /\ \A i \in 1..(Len(cs) - 1) : p[i] = cs[i]
  BY SeqTopSet
<1>2. Len(cs) \in 1..Len(cs)
  BY SeqLen
<1> HIDE DEF p
<1>3. Built(p)
  BY <1>1, <1>2, BuiltChanged
<1> QED
  BY <1>3 DEF p

LEMMA BuiltPush ==
  ASSUME NEW cs, IsSeq(cs), Built(cs), cs # <<>>, NEW d, Link(cs[Len(cs)], d)
  PROVE  Built(Append(cs, CallOf(d)))
<1> DEFINE p == Append(cs, CallOf(d))
           n == Len(cs)
<1>1. Len(p) = n + 1 /\ p[n + 1] = CallOf(d) /\ \A i \in 1..n : p[i] = cs[i]
  BY SeqAppend
<1>2. n \in Nat /\ n \in 1..n
  BY SeqLen
<1>3. CallBuilt(CallOf(d)) /\ CallOf(d).at = d
  BY DEF CallBuilt, CallOf
<1> HIDE DEF p, n
<1>4. \A i \in 1..(n + 1) : CallBuilt(p[i])
  <2>1. \A i \in 1..(n + 1) : i \in 1..n \/ i = n + 1
    BY <1>2
  <2> QED
    BY <1>1, <1>3, <2>1 DEF Built, n
<1>5. ASSUME NEW i \in 1..n
      PROVE  Link(p[i], p[i + 1].at)
  <2>1. CASE i = n
    BY <1>1, <1>3, <2>1 DEF n
  <2>2. CASE i # n
    <3>1. i \in 1..(n - 1) /\ i + 1 \in 1..n
      BY <1>2, <2>2
    <3> QED
      BY <1>1, <3>1 DEF Built, n
  <2> QED
    BY <2>1, <2>2
<1>6. (n + 1) - 1 = n
  BY <1>2
<1> QED
  BY <1>1, <1>4, <1>5, <1>6 DEF Built, p

-----------------------------------------------------------------------------
LEMMA AccountedNone ==
  ASSUME NEW level
  PROVE  Accounted(<<>>, {}, level)
<1>1. IsSeq(<<>>) /\ Len(<<>>) = 0
  BY SeqEmpty
<1> QED
  BY <1>1 DEF Accounted

LEMMA ThroughNone ==
  ASSUME NEW tag
  PROVE  Through(<<>>, tag) = {} /\ Functions(<<>>) /\ ToSet(<<>>) = {}
<1>1. IsSeq(<<>>) /\ Len(<<>>) = 0
  BY SeqEmpty
<1>2. \A x : x \in ToSet(<<>>) <=> \E k \in 1..0 : x = <<>>[k]
  BY <1>1, SetOf
<1> QED
  BY <1>1, <1>2 DEF Through, Functions

LEMMA PathNone ==
  ASSUME NEW at, Readable(at) => OriginOf(at) = {}
  PROVE  Path(<<>>, at)
<1>1. IsSeq(<<>>) /\ Len(<<>>) = 0 /\ Functions(<<>>) /\ ToSet(<<>>) = {}
  BY SeqEmpty, ThroughNone
<1> QED
  BY <1>1 DEF Path

\* A call that begins from nothing.
LEMMA BeginNone ==
  ASSUME TreeOK, NEW c, CallOK(c), c.at \notin Endless, c.details = NoDetails,
         Readable(c.at) => OriginOf(c.at) = {}
  PROVE  Filled(BeginChildren(c)) /\ BeginChildren(c).phase = "children"
<1>1. IsSeq(<<>>) /\ Len(<<>>) = 0
  BY SeqEmpty
<1>2. /\ c.details.chain = <<>> /\ c.details.inlined = <<>>
      /\ c.details.parameters = <<>> /\ c.details.variables = <<>>
      /\ DOMAIN c.details = {"parameters", "variables", "inlined", "chain"}
  BY DEF NoDetails
<1>3. Shaped(c.details)
  BY <1>1, <1>2 DEF Shaped
<1>4. Path(<<>>, c.at)
  BY PathNone
<1>5. InlinedIn(c.details) = {} /\ InlinedBefore(<<>>, c.at) = {}
  BY <1>1, <1>2, ThroughNone DEF InlinedIn, InlinedBefore
<1>6. /\ Accounted(c.details.parameters, Through(<<>>, "parameter"), Levels(<<>>, "parameter"))
      /\ Accounted(c.details.variables, Through(<<>>, "variable"), Levels(<<>>, "variable"))
  BY <1>2, ThroughNone, AccountedNone
<1> QED
  BY <1>2, <1>3, <1>4, <1>5, <1>6, BeginFilled

\* The origins of a function that is completed are those of its origin and that one.
LEMMA PathMore ==
  ASSUME TreeOK, NEW at \in FunctionDies, NEW o, OriginOf(at) = {o},
         NEW q, Path(q, o), o \notin Endless
  PROVE  Path(Append(q, o), at)
<1> DEFINE c == Append(q, o)
           n == Len(q)
<1>1. o \in Needs[at] /\ o \in FunctionDies /\ o \in Reached[at] /\ Reached[o] \subseteq Reached[at]
  <2>1. o \in Needs[at]
    BY DEF Needs
  <2> QED
    BY <2>1, ReachedThrough
<1>2. Functions(q) /\ o \notin ToSet(q)
  BY NotAgain DEF Path
<1>3. /\ Functions(c) /\ Len(c) = n + 1 /\ n \in Nat /\ c[n + 1] = o
      /\ \A k \in 1..n : c[k] = q[k]
  BY <1>1, <1>2, FunctionsMore
<1>4. \A x : x \in ToSet(c) <=> x \in ToSet(q) \/ x = o
  BY <1>2, SetOf DEF Functions
<1>5. c # <<>>
  <2>1. Len(c) # 0
    BY <1>3
  <2> QED
    BY <2>1, SeqEmpty
<1> HIDE DEF c
<1>6. \A k \in 1..(n + 1) : k \in 1..n \/ k = n + 1
  BY <1>3
<1>7. \A k \in 1..(n + 1) : c[k] \in Reached[at]
  BY <1>1, <1>3, <1>6 DEF Path
<1>8. ASSUME NEW k \in 1..(n + 1), k > 1
      PROVE  OriginOf(c[k]) = {c[k - 1]}
  <2>1. k - 1 \in 1..n /\ c[k - 1] = q[k - 1]
    BY <1>3, <1>8
  <2>2. CASE k \in 1..n
    BY <1>3, <1>8, <2>1, <2>2 DEF Path
  <2>3. CASE k = n + 1
    <3>1. n # 0
      BY <1>8, <2>3
    <3>2. q # <<>>
      BY <3>1, SeqEmpty
    <3>3. OriginOf(o) = {q[n]}
      BY <3>2 DEF Path
    <3>4. k - 1 = n
      BY <1>3, <2>3
    <3> QED
      BY <1>3, <2>1, <2>3, <3>3, <3>4
  <2> QED
    BY <1>6, <2>2, <2>3
<1>9. ASSUME Readable(at)
      PROVE  \A d \in ToSet(c) \union {at} : OriginOf(d) \subseteq ToSet(c)
  <2>1. Readable(o)
    BY <1>1, <1>9 DEF Readable
  <2>2. \A d \in ToSet(q) \union {o} : OriginOf(d) \subseteq ToSet(q)
    BY <2>1 DEF Path
  <2> QED
    BY <1>4, <2>2
<1>10. OriginOf(at) = {c[Len(c)]}
  BY <1>3
<1> HIDE DEF n
<1>11. Path(c, at)
  BY <1>3, <1>7, <1>8, <1>9, <1>10 DEF Path
<1> QED
  BY <1>11 DEF c

\* What a call for the origin returned: nothing, because an entry could not be read,
\* or all of it.
LEMMA ReceivedFilled ==
  ASSUME TreeOK, NEW c, CallOK(c), c.details = NoDetails, NEW o, OriginOf(c.at) = {o},
         die[o].tag # "inlined", o \notin Endless, NEW got,
         (got = NoDetails /\ ~Readable(c.at)) \/ Whole(got, o)
  PROVE  Filled(Received(c, got)) /\ Received(c, got).phase = "children"
<1> DEFINE g == IF die[c.at].tag = "inlined" THEN [got EXCEPT !.inlined = <<>>] ELSE got
           b == [c EXCEPT !.details = g]
<1>1. Received(c, got) = BeginChildren(b)
  BY DEF Received
<1>2. /\ DOMAIN c = {"at", "phase", "todo", "details"} /\ c.at \in FunctionDies
      /\ c.at \notin Endless
  BY EndlessOrigin DEF CallOK
<1>3. CallOK(b) /\ b.at = c.at /\ b.details = g
  <2> HIDE DEF g
  <2>1. CallOK(b) /\ b.at = c.at
    BY DetailsDone
  <2> QED
    BY <1>2, <2>1
<1> HIDE DEF b
<1>4. CASE got = NoDetails /\ ~Readable(c.at)
  <2>1. g = NoDetails
    BY <1>4 DEF NoDetails
  <2> HIDE DEF g
  <2> QED
    BY <1>1, <1>2, <1>3, <1>4, <2>1, BeginNone
<1>5. CASE Whole(got, o)
  <2>1. PICK p : /\ got.chain = Append(p, o) /\ Path(p, o)
                 /\ InlinedIn(got) = InlinedBefore(p, o) \union Own(o, "inlined")
                 /\ WellMade =>
                      /\ Accounted(got.parameters, Through(got.chain, "parameter"),
                                   Levels(got.chain, "parameter"))
                      /\ Accounted(got.variables, Through(got.chain, "variable"),
                                   Levels(got.chain, "variable"))
    BY <1>5 DEF Whole
  <2>2. Shaped(got)
    BY <1>5 DEF Whole
  <2> DEFINE q == got.chain
  <2>3. Path(q, c.at)
    BY <1>2, <2>1, PathMore
  <2>4. /\ g.chain = q /\ g.parameters = got.parameters /\ g.variables = got.variables
        /\ DOMAIN g = {"parameters", "variables", "inlined", "chain"}
        /\ g.inlined = IF die[c.at].tag = "inlined" THEN <<>> ELSE got.inlined
    BY <2>2 DEF Shaped
  <2> HIDE DEF g
  <2>5. Shaped(g) /\ InlinedIn(g) = IF die[c.at].tag = "inlined" THEN {} ELSE InlinedIn(got)
    <3>1. CASE die[c.at].tag = "inlined"
      <4>1. IsSeq(<<>>) /\ Len(<<>>) = 0
        BY SeqEmpty
      <4>2. g.inlined = <<>>
        BY <2>4, <3>1
      <4> QED
        BY <2>4, <3>1, <4>1, <4>2 DEF Shaped, InlinedIn
    <3>2. CASE die[c.at].tag # "inlined"
      <4>1. g.inlined = got.inlined
        BY <2>4, <3>2
      <4> QED
        BY <2>2, <2>4, <3>2, <4>1 DEF Shaped, InlinedIn
    <3> QED
      BY <3>1, <3>2
  <2>6. InlinedIn(g) = InlinedBefore(q, c.at)
    <3>1. IsSeq(p)
      BY <2>1 DEF Path, Functions
    <3>2. Through(Append(p, o), "inlined") = Through(p, "inlined") \union Own(o, "inlined")
      BY <3>1, ThroughMore
    <3>3. InlinedIn(got) = Through(q, "inlined")
      BY <2>1, <3>2 DEF InlinedBefore
    <3> HIDE DEF q
    <3> QED
      BY <2>5, <3>3 DEF InlinedBefore
  <2>7. WellMade => /\ Accounted(g.parameters, Through(q, "parameter"), Levels(q, "parameter"))
                    /\ Accounted(g.variables, Through(q, "variable"), Levels(q, "variable"))
    BY <2>1, <2>4
  <2> HIDE DEF q
  <2> QED
    BY <1>1, <1>2, <1>3, <2>3, <2>4, <2>5, <2>6, <2>7, BeginFilled
<1> QED
  BY <1>4, <1>5

-----------------------------------------------------------------------------
\* The next entry and those after it.
Ahead(c, done, e, t) ==
  /\ e \in Near(c.at) /\ IsSeq(t) /\ Len(t) \in Nat
  /\ \A x : x \in Todo(c) <=> x = e \/ \E k \in 1..Len(t) : x = t[k].at
  /\ TreeShaped => /\ e \notin done /\ (Head(c.todo).block <=> e \notin Kids(c.at))
                   /\ done \intersect Todo(c) = {}
                   /\ \A k \in 1..Len(t) : t[k].at # e
                   /\ \A j, k \in 1..Len(t) : t[j].at = t[k].at => j = k
                   /\ \A k \in 1..Len(t) : t[k].block <=> t[k].at \notin Kids(c.at)

LEMMA HeadTaken ==
  ASSUME NEW c, CallOK(c), c.todo # <<>>, NEW done, Traversed(c, done),
         NEW e, e = Head(c.todo).at, NEW t, t = Tail(c.todo)
  PROVE  Ahead(c, done, e, t)
<1> DEFINE s == c.todo
<1>1. /\ IsSeq(s) /\ \A k \in 1..Len(s) : s[k].at \in Near(c.at)
  BY DEF CallOK
<1>2. /\ IsSeq(t) /\ Len(t) = Len(s) - 1 /\ Len(s) \in Nat \ {0} /\ Head(s) = s[1]
      /\ \A i \in 1..(Len(s) - 1) : i + 1 \in 1..Len(s) /\ t[i] = s[i + 1]
  BY <1>1, SeqTail
<1> HIDE DEF s
<1>3. 1 \in 1..Len(s) /\ e = s[1].at /\ \A k \in 1..Len(s) : k = 1 \/ k - 1 \in 1..(Len(s) - 1)
  BY <1>2 DEF s
<1>4. \A x : x \in Todo(c) <=> x = e \/ \E k \in 1..Len(t) : x = t[k].at
  <2>1. Todo(c) = {s[k].at : k \in 1..Len(s)}
    BY DEF Todo, s
  <2>2. \A k \in 1..Len(s) : k = 1 \/ \E j \in 1..Len(t) : s[k].at = t[j].at
    <3> TAKE k \in 1..Len(s)
    <3>1. CASE k # 1
      <4>1. k - 1 \in 1..(Len(s) - 1) /\ (k - 1) + 1 = k
        BY <1>2, <1>3, <3>1
      <4>2. t[k - 1] = s[k] /\ k - 1 \in 1..Len(t)
        BY <1>2, <4>1
      <4> QED
        BY <4>2
    <3> QED
      BY <3>1
  <2>3. ASSUME NEW k \in 1..Len(t)
        PROVE  t[k].at \in Todo(c)
    <3>1. k + 1 \in 1..Len(s) /\ t[k] = s[k + 1]
      BY <1>2
    <3> QED
      BY <2>1, <3>1
  <2>4. e \in Todo(c)
    BY <1>3, <2>1
  <2>5. \A x \in Todo(c) : \E k \in 1..Len(s) : x = s[k].at
    BY <2>1
  <2>6. \A x \in Todo(c) : x = e \/ \E k \in 1..Len(t) : x = t[k].at
    BY <1>3, <2>2, <2>5
  <2> QED
    BY <2>3, <2>4, <2>6
<1>5. e \in Near(c.at)
  BY <1>1, <1>3 DEF s
<1>6. ASSUME TreeShaped
      PROVE  /\ done \intersect Todo(c) = {}
             /\ \A j, k \in 1..Len(s) : s[j].at = s[k].at => j = k
             /\ \A k \in 1..Len(s) : s[k].block <=> s[k].at \notin Kids(c.at)
  BY <1>6 DEF Traversed, s
<1>7. ASSUME TreeShaped
      PROVE  e \notin done /\ (Head(s).block <=> e \notin Kids(c.at))
  BY <1>2, <1>3, <1>4, <1>6, <1>7
<1>8. ASSUME TreeShaped, NEW k \in 1..Len(t)
      PROVE  /\ t[k].at # e /\ (t[k].block <=> t[k].at \notin Kids(c.at))
             /\ \A j \in 1..Len(t) : t[j].at = t[k].at => j = k
  <2>1. k + 1 \in 1..Len(s) /\ t[k] = s[k + 1] /\ k + 1 # 1 /\ k \in Int
    BY <1>2
  <2>2. t[k].at # e /\ (t[k].block <=> t[k].at \notin Kids(c.at))
    BY <1>3, <1>6, <1>8, <2>1
  <2>3. ASSUME NEW j \in 1..Len(t), t[j].at = t[k].at
        PROVE  j = k
    <3>1. j + 1 \in 1..Len(s) /\ t[j] = s[j + 1] /\ j \in Int
      BY <1>2
    <3>2. j + 1 = k + 1
      BY <1>6, <1>8, <2>1, <2>3, <3>1
    <3> QED
      BY <2>1, <3>1, <3>2
  <2> QED
    BY <2>2, <2>3
<1>9. Len(t) \in Nat
  BY <1>2
<1> QED
  BY <1>2, <1>4, <1>5, <1>6, <1>7, <1>8, <1>9 DEF Ahead, s

\* An entry that is no block is done.
LEMMA TookOne ==
  ASSUME NEW c, CallOK(c), c.todo # <<>>, NEW done, Traversed(c, done),
         NEW e, e = Head(c.todo).at, die[e].tag # "block",
         NEW b, b.at = c.at, b.todo = Tail(c.todo)
  PROVE  /\ Traversed(b, done \union {e}) /\ e \in Near(c.at)
         /\ TreeShaped => e \notin done /\ (Head(c.todo).block <=> e \notin Kids(c.at))
<1> DEFINE t == Tail(c.todo)
<1>1. t = Tail(c.todo)
  OBVIOUS
<1> HIDE DEF t
<1>2. Ahead(c, done, e, t)
  BY <1>1, HeadTaken
<1>3. /\ e \in Near(c.at) /\ IsSeq(t) /\ Len(t) \in Nat
      /\ \A x : x \in Todo(c) <=> x = e \/ \E k \in 1..Len(t) : x = t[k].at
      /\ TreeShaped => /\ e \notin done /\ (Head(c.todo).block <=> e \notin Kids(c.at))
                       /\ done \intersect Todo(c) = {}
                       /\ \A k \in 1..Len(t) : t[k].at # e
                       /\ \A j, k \in 1..Len(t) : t[j].at = t[k].at => j = k
                       /\ \A k \in 1..Len(t) : t[k].block <=> t[k].at \notin Kids(c.at)
  BY <1>2 DEF Ahead
<1>4. b.todo = t
  BY <1>1
<1>5. \A x : x \in Todo(c) <=> x = e \/ x \in Todo(b)
  BY <1>3, <1>4 DEF Todo
<1>6. done \union {e} \subseteq Near(b.at)
  BY <1>3 DEF Traversed
<1>7. \A x : x \in done \union {e} \/ x \in Todo(b) <=>
             x \in Kids(b.at) \/ \E y \in done \union {e} : die[y].tag = "block" /\ x \in Kids(y)
  BY <1>5 DEF Traversed
<1>8. ASSUME TreeShaped
      PROVE  /\ (done \union {e}) \intersect Todo(b) = {}
             /\ \A j, k \in 1..Len(b.todo) : b.todo[j].at = b.todo[k].at => j = k
             /\ \A k \in 1..Len(b.todo) : b.todo[k].block <=> b.todo[k].at \notin Kids(b.at)
  <2>1. e \notin Todo(b)
    BY <1>3, <1>4, <1>8 DEF Todo
  <2>2. (done \union {e}) \intersect Todo(b) = {}
    BY <1>3, <1>5, <1>8, <2>1
  <2> QED
    BY <1>3, <1>4, <1>8, <2>2
<1>9. Traversed(b, done \union {e})
  BY <1>6, <1>7, <1>8 DEF Traversed
<1> QED
  BY <1>3, <1>9

\* An entry of the function itself is merged into the list of its kind.
LEMMA ListTook ==
  ASSUME WellAbstracted, NEW tag \in ListTags, NEW q, NEW at \in FunctionDies, Path(q, at),
         at \notin Endless, NEW done, NEW e \in Own(at, tag), e \notin done, NEW list,
         Accounted(list, Seen(q, at, done, tag), Levels(Append(q, at), tag))
  PROVE  Accounted(Merge(list, e), Seen(q, at, done \union {e}, tag), Levels(Append(q, at), tag))
<1> DEFINE c == Append(q, at)
           n == Len(q)
           L == Levels(c, tag)
           D == Seen(q, at, done, tag)
<1>1. at \notin ToSet(q) /\ Functions(q)
  BY NotAgain DEF Path
<1>2. /\ Functions(c) /\ Len(c) = n + 1 /\ n \in Nat /\ c[n + 1] = at
      /\ \A d : d \in Through(c, tag) <=> d \in Through(q, tag) \/ d \in Own(at, tag)
      /\ \A d \in Own(at, tag) : L[d] = n + 1
      /\ Through(q, tag) \intersect Own(at, tag) = {}
  BY <1>1, OneMore
<1>3. \A d : d \in D <=> d \in Through(q, tag) \/ (d \in done /\ d \in Own(at, tag))
  BY DEF Seen
<1> HIDE DEF c, n, L, D
<1>4. e \notin D
  BY <1>2, <1>3
<1>5. \A d \in D \union {e} : d \in Through(c, tag)
  BY <1>2, <1>3
<1>6. \A d \in D \union {e} : L[d] \in Nat /\ L[d] <= L[e]
  <2> TAKE d \in D \union {e}
  <2>1. d \in Through(c, tag) /\ IsSeq(c)
    BY <1>2, <1>5 DEF Functions
  <2>2. L[d] \in 1..Len(c) /\ L[d] \in Nat
    BY <2>1, LevelsNat DEF L
  <2>3. L[e] = n + 1
    BY <1>2
  <2> QED
    BY <1>2, <2>2, <2>3
<1>7. \A d \in D \union {e} :
        \E g \in FunctionDies : d \in Own(g, tag) /\ (g = at \/ g \in Reached[at])
  <2> TAKE d \in D \union {e}
  <2>1. CASE d \in Own(at, tag)
    BY <2>1
  <2>2. CASE d \notin Own(at, tag)
    <3>1. d \in Through(q, tag)
      BY <1>3, <2>2
    <3>2. PICK k \in 1..Len(q) : d \in Own(q[k], tag)
      BY <3>1 DEF Through
    <3> QED
      BY <3>2 DEF Path, Functions
  <2> QED
    BY <2>1, <2>2
<1>8. \A d \in D \union {e} : die[d].origin # e
  <2> TAKE d \in D \union {e}
  <2>1. PICK g \in FunctionDies : d \in Own(g, tag) /\ (g = at \/ g \in Reached[at])
    BY <1>7
  <2> SUFFICES ASSUME die[d].origin = e PROVE FALSE
    OBVIOUS
  <2>2. die[d].origin \in Own(at, tag)
    OBVIOUS
  <2>3. g # at /\ g \notin Reached[at]
    BY <2>1, <2>2 DEF WellAbstracted
  <2> QED
    BY <2>1, <2>3
<1>9. die[e].origin \in D => die[die[e].origin].origin \notin D
  <2> SUFFICES ASSUME die[e].origin \in D, die[die[e].origin].origin \in D
               PROVE  FALSE
    OBVIOUS
  <2>1. PICK g \in FunctionDies : die[e].origin \in Own(g, tag)
    BY <1>7
  <2>2. PICK h \in FunctionDies : die[die[e].origin].origin \in Own(h, tag)
    BY <1>7
  <2> QED
    BY <2>1, <2>2 DEF WellAbstracted
<1>10. Accounted(Merge(list, e), D \union {e}, L)
  <2>1. Accounted(list, D, L)
    BY DEF D, L, c
  <2> QED
    BY <1>4, <1>6, <1>8, <1>9, <2>1, MergeAccounts
<1>11. D \union {e} = Seen(q, at, done \union {e}, tag)
  BY DEF Seen, D
<1> QED
  BY <1>10, <1>11 DEF L, c

LEMMA SeenSame ==
  ASSUME NEW q, NEW at, NEW done, NEW tag, NEW e, e \notin Own(at, tag)
  PROVE  Seen(q, at, done \union {e}, tag) = Seen(q, at, done, tag)
  BY DEF Seen

\* What a list is after an entry is done: the lists of the other kinds stay.
Takes(list, new, at, e, tag) ==
  IF e \in Own(at, tag) THEN new = Merge(list, e) ELSE new = list

LEMMA ListTakes ==
  ASSUME WellAbstracted, NEW tag \in ListTags, NEW q, NEW at \in FunctionDies, Path(q, at),
         at \notin Endless, NEW done, NEW e, e \notin done, NEW list, NEW new,
         Accounted(list, Seen(q, at, done, tag), Levels(Append(q, at), tag)),
         Takes(list, new, at, e, tag)
  PROVE  Accounted(new, Seen(q, at, done \union {e}, tag), Levels(Append(q, at), tag))
<1>1. CASE e \in Own(at, tag)
  <2>1. new = Merge(list, e)
    BY <1>1 DEF Takes
  <2> QED
    BY <1>1, <2>1, ListTook
<1>2. CASE e \notin Own(at, tag)
  <2>1. new = list
    BY <1>2 DEF Takes
  <2> QED
    BY <1>2, <2>1, SeenSame
<1> QED
  BY <1>1, <1>2

\* An entry that is no block is done, and the details have what it gives.
LEMMA TookFilled ==
  ASSUME TreeOK, NEW c, CallOK(c), Filled(c), c.todo # <<>>,
         NEW e, e = Head(c.todo).at, die[e].tag # "block",
         NEW b, b.at = c.at, b.todo = Tail(c.todo), Shaped(b.details),
         b.details.chain = c.details.chain,
         InlinedIn(b.details) = InlinedIn(c.details) \union ({e} \intersect Own(c.at, "inlined")),
         WellMade => /\ Takes(c.details.parameters, b.details.parameters, c.at, e, "parameter")
                     /\ Takes(c.details.variables, b.details.variables, c.at, e, "variable")
  PROVE  Filled(b)
<1> DEFINE at == c.at
<1>1. /\ at \notin Endless /\ at \in FunctionDies
  BY DEF Filled, CallOK
<1>2. PICK q, done : /\ c.details.chain = Append(q, at) /\ Path(q, at) /\ Traversed(c, done)
                     /\ InlinedIn(c.details)
                          = InlinedBefore(q, at) \union (done \intersect Own(at, "inlined"))
                     /\ WellMade => Lists(c.details, q, at, done)
  BY DEF Filled
<1> DEFINE more == done \union {e}
<1>3. Traversed(b, more) /\ (TreeShaped => e \notin done)
  BY <1>2, TookOne
<1>4. InlinedIn(b.details) = InlinedBefore(q, at) \union (more \intersect Own(at, "inlined"))
  BY <1>2
<1>5. ASSUME WellMade
      PROVE  Lists(b.details, q, at, more)
  <2>1. WellAbstracted /\ e \notin done
    BY <1>3, <1>5 DEF WellMade
  <2>2. /\ Accounted(c.details.parameters, Seen(q, at, done, "parameter"),
                     Levels(Append(q, at), "parameter"))
        /\ Accounted(c.details.variables, Seen(q, at, done, "variable"),
                     Levels(Append(q, at), "variable"))
    BY <1>2, <1>5 DEF Lists
  <2>3. "parameter" \in ListTags /\ "variable" \in ListTags
    BY DEF ListTags
  <2> DEFINE p1 == c.details.parameters
             v1 == c.details.variables
             p2 == b.details.parameters
             v2 == b.details.variables
  <2>4. Takes(p1, p2, at, e, "parameter") /\ Takes(v1, v2, at, e, "variable")
    BY <1>5
  <2> HIDE DEF p1, v1, p2, v2, at
  <2>5. Accounted(p2, Seen(q, at, more, "parameter"), Levels(Append(q, at), "parameter"))
    BY <1>1, <1>2, <2>1, <2>2, <2>3, <2>4, ListTakes DEF p1
  <2>6. Accounted(v2, Seen(q, at, more, "variable"), Levels(Append(q, at), "variable"))
    BY <1>1, <1>2, <2>1, <2>2, <2>3, <2>4, ListTakes DEF v1
  <2> QED
    BY <2>5, <2>6 DEF Lists, p2, v2
<1> HIDE DEF at, more
<1>6. b.at = at /\ b.details.chain = Append(q, at)
  BY <1>2 DEF at
<1> QED
  BY <1>1, <1>2, <1>3, <1>4, <1>5, <1>6 DEF Filled

\* A block is opened: what it holds comes before the rest.
LEMMA OpenedTraversed ==
  ASSUME TreeOK, NEW c, CallOK(c), c.todo # <<>>, NEW done, Traversed(c, done),
         NEW e, e = Head(c.todo).at, die[e].tag = "block",
         NEW b, b.at = c.at, b.todo = Items(e, TRUE) \o Tail(c.todo)
  PROVE  Traversed(b, done \union {e})
<1> DEFINE t == Tail(c.todo)
           it == Items(e, TRUE)
           s == it \o t
           n == Len(it)
           m == Len(t)
<1>1. t = Tail(c.todo) /\ b.todo = it \o t
  OBVIOUS
<1> HIDE DEF t
<1>2. Ahead(c, done, e, t)
  BY <1>1, HeadTaken
<1>3. /\ e \in Near(c.at) /\ IsSeq(t) /\ Len(t) \in Nat
      /\ \A x : x \in Todo(c) <=> x = e \/ \E k \in 1..Len(t) : x = t[k].at
      /\ TreeShaped => /\ e \notin done /\ (Head(c.todo).block <=> e \notin Kids(c.at))
                       /\ done \intersect Todo(c) = {}
                       /\ \A k \in 1..Len(t) : t[k].at # e
                       /\ \A j, k \in 1..Len(t) : t[j].at = t[k].at => j = k
                       /\ \A k \in 1..Len(t) : t[k].block <=> t[k].at \notin Kids(c.at)
  BY <1>2 DEF Ahead
<1>4. c.at \in FunctionDies /\ e \in DOMAIN die
  <2>1. c.at \in FunctionDies
    BY Zenon DEF CallOK
  <2> QED
    BY <1>3, <2>1, NearBelow
<1>5. /\ IsSeq(it) /\ n = Len(die[e].kids) /\ DOMAIN die[e].kids = 1..n /\ n \in Nat
      /\ \A k \in 1..n : it[k].at = die[e].kids[k] /\ it[k].block
  <2>1. /\ IsSeq(it) /\ n = Len(die[e].kids) /\ DOMAIN die[e].kids = 1..n /\ n \in Nat
        /\ \A k \in 1..n : it[k].at = die[e].kids[k]
    BY <1>4, ItemsAre
  <2>2. \A k \in 1..n : it[k].block
    BY <1>4, ItemsBlock
  <2> QED
    BY <2>1, <2>2
<1>6. b.todo = s
  BY <1>1
<1> HIDE DEF it
<1>7. /\ IsSeq(s) /\ Len(s) = n + m /\ m \in Nat
      /\ \A i \in 1..(n + m) : \/ i \in 1..n /\ s[i] = it[i]
                               \/ i - n \in 1..m /\ s[i] = t[i - n]
  <2>1. IsSeq(it) /\ IsSeq(t)
    BY <1>3, <1>5
  <2>2. /\ IsSeq(it \o t) /\ Len(it \o t) = Len(it) + Len(t)
        /\ \A i \in 1..Len(it \o t) :
              \/ i \in 1..Len(it) /\ (it \o t)[i] = it[i]
              \/ i - Len(it) \in 1..Len(t) /\ (it \o t)[i] = t[i - Len(it)]
    BY <2>1, SeqConcat
  <2> QED
    BY <1>3, <2>2
<1>8. /\ \A i \in 1..n : i \in 1..(n + m) /\ s[i] = it[i]
      /\ \A i \in 1..m : n + i \in 1..(n + m) /\ s[n + i] = t[i]
  <2> HIDE DEF n, m, s
  <2>1. n \in Nat /\ m \in Nat
    BY <1>5, <1>7, Zenon
  <2>2. \A i \in 1..n : i \in 1..(n + m) /\ i - n \notin 1..m
    BY <2>1
  <2>3. \A i \in 1..m : n + i \in 1..(n + m) /\ n + i \notin 1..n /\ (n + i) - n = i
    BY <2>1
  <2> QED
    BY <1>7, <2>2, <2>3
<1> HIDE DEF n, m, s
<1>9. \A x : x \in Kids(e) <=> \E k \in 1..n : x = it[k].at
  <2>1. \A x : x \in Kids(e) <=> \E k \in DOMAIN die[e].kids : x = die[e].kids[k]
    BY DEF Kids, ToSet
  <2>2. DOMAIN die[e].kids = 1..n
    BY <1>5, Zenon
  <2>3. \A k \in 1..n : it[k].at = die[e].kids[k]
    BY <1>5, Zenon
  <2> QED
    BY <2>1, <2>2, <2>3
<1>10. \A x : x \in Todo(b) <=> x \in Kids(e) \/ \E k \in 1..m : x = t[k].at
  <2>1. \A x : x \in Todo(b) <=> \E k \in 1..(n + m) : x = s[k].at
    BY <1>6, <1>7 DEF Todo
  <2>2. ASSUME NEW k \in 1..(n + m)
        PROVE  (\E j \in 1..n : s[k].at = it[j].at) \/ \E j \in 1..m : s[k].at = t[j].at
    BY <1>7
  <2>3. ASSUME NEW k \in 1..n PROVE it[k].at \in Todo(b)
    BY <1>8, <2>1
  <2>4. ASSUME NEW k \in 1..m PROVE t[k].at \in Todo(b)
    BY <1>8, <2>1
  <2> QED
    BY <1>9, <2>1, <2>2, <2>3, <2>4
<1>11. \A x : x \in Todo(c) <=> x = e \/ \E k \in 1..m : x = t[k].at
  BY <1>3 DEF m
<1>12. done \union {e} \subseteq Near(b.at)
  BY <1>3 DEF Traversed
<1>13. \A x : x \in done \union {e} \/ x \in Todo(b) <=>
             x \in Kids(b.at) \/ \E y \in done \union {e} : die[y].tag = "block" /\ x \in Kids(y)
  <2>1. \A x : x \in done \union {e} \/ x \in Todo(b) <=>
             x \in done \/ x \in Todo(c) \/ x \in Kids(e)
    BY <1>10, <1>11
  <2>2. \A x : x \in done \/ x \in Todo(c) <=>
             x \in Kids(b.at) \/ \E y \in done : die[y].tag = "block" /\ x \in Kids(y)
    BY DEF Traversed
  <2>3. \A x : (\E y \in done \union {e} : die[y].tag = "block" /\ x \in Kids(y)) <=>
             x \in Kids(e) \/ \E y \in done : die[y].tag = "block" /\ x \in Kids(y)
    OBVIOUS
  <2> QED
    BY <2>1, <2>2, <2>3
<1>14. ASSUME TreeShaped
       PROVE  /\ (done \union {e}) \intersect Todo(b) = {}
              /\ \A j, k \in 1..Len(b.todo) : b.todo[j].at = b.todo[k].at => j = k
              /\ \A k \in 1..Len(b.todo) : b.todo[k].block <=> b.todo[k].at \notin Kids(b.at)
  <2> DEFINE at == c.at
  <2>1. /\ e \notin done /\ done \intersect Todo(c) = {}
        /\ \A k \in 1..m : t[k].at # e
        /\ \A j, k \in 1..m : t[j].at = t[k].at => j = k
        /\ \A k \in 1..m : t[k].block <=> t[k].at \notin Kids(at)
    BY <1>3, <1>14 DEF m
  <2>2. \A y \in Near(at) : die[y].tag = "block" => y \in BlocksOf(at)
    BY <1>4, NearBelow
  <2>3. e \in {at} \union BlocksOf(at) /\ e # at
    BY <1>3, <1>4, <2>2 DEF FunctionDies
  <2>4. \A x, y \in {at} \union BlocksOf(at) :
          /\ \A j, k \in DOMAIN die[x].kids : die[x].kids[j] = die[x].kids[k] => j = k
          /\ x # y => Kids(x) \intersect Kids(y) = {}
    BY <1>4, <1>14 DEF TreeShaped
  <2>5. ASSUME NEW x \in Kids(e)
        PROVE  x \notin done /\ x \notin Todo(c) /\ x \notin Kids(at)
    <3>1. x \notin Kids(at)
      BY <2>3, <2>4, <2>5
    <3>2. ASSUME NEW y \in done, die[y].tag = "block", x \in Kids(y)
          PROVE  FALSE
      <4>1. y \in {at} \union BlocksOf(at) /\ y # e
        BY <2>1, <2>2, <3>2 DEF Traversed
      <4> QED
        BY <2>3, <2>4, <2>5, <3>2, <4>1
    <3> QED
      BY <3>1, <3>2 DEF Traversed
  <2>6. \A j, k \in 1..n : it[j].at = it[k].at => j = k
    BY <1>5, <2>3, <2>4
  <2>7. (done \union {e}) \intersect Todo(b) = {}
    <3> SUFFICES ASSUME NEW x \in done \union {e}, x \in Todo(b)
                 PROVE  FALSE
      OBVIOUS
    <3>1. CASE x \in Kids(e)
      BY <1>11, <2>5, <3>1
    <3>2. CASE \E k \in 1..m : x = t[k].at
      BY <1>11, <2>1, <3>2
    <3> QED
      BY <1>10, <3>1, <3>2
  <2>8. \A i \in 1..n : it[i].at \in Kids(e)
    BY <1>9
  <2>9. \A i \in 1..m : t[i].at \in Todo(c)
    BY <1>11
  <2>10. ASSUME NEW j \in 1..(n + m), NEW k \in 1..(n + m), s[j].at = s[k].at
         PROVE  j = k
    <3>1. CASE j \in 1..n /\ s[j] = it[j] /\ k \in 1..n /\ s[k] = it[k]
      BY <2>6, <2>10, <3>1
    <3>2. CASE j - n \in 1..m /\ s[j] = t[j - n] /\ k - n \in 1..m /\ s[k] = t[k - n]
      <4>1. j - n = k - n
        BY <2>1, <2>10, <3>2
      <4>2. n \in Nat /\ m \in Nat
        BY <1>5, <1>7, Zenon
      <4>3. j \in 1..(n + m) /\ k \in 1..(n + m)
        BY <2>10
      <4> QED
        BY <4>1, <4>2, <4>3
    <3>3. CASE j \in 1..n /\ s[j] = it[j] /\ k - n \in 1..m /\ s[k] = t[k - n]
      BY <2>5, <2>8, <2>9, <2>10, <3>3
    <3>4. CASE j - n \in 1..m /\ s[j] = t[j - n] /\ k \in 1..n /\ s[k] = it[k]
      BY <2>5, <2>8, <2>9, <2>10, <3>4
    <3> QED
      BY <1>7, <3>1, <3>2, <3>3, <3>4
  <2>11. ASSUME NEW k \in 1..(n + m)
         PROVE  s[k].block <=> s[k].at \notin Kids(at)
    <3>1. CASE k \in 1..n /\ s[k] = it[k]
      BY <1>5, <2>5, <2>8, <3>1
    <3>2. CASE k - n \in 1..m /\ s[k] = t[k - n]
      BY <2>1, <3>2
    <3> QED
      BY <1>7, <3>1, <3>2
  <2>12. b.todo = s /\ Len(s) = n + m /\ b.at = at
    BY <1>6, <1>7
  <2> HIDE DEF at
  <2> QED
    BY <2>7, <2>10, <2>11, <2>12
<1>15. Traversed(b, done \union {e})
  BY <1>12, <1>13, <1>14 DEF Traversed
<1> QED
  BY <1>15

LEMMA OpenedFilled ==
  ASSUME TreeOK, NEW c, CallOK(c), Filled(c), c.todo # <<>>,
         NEW e, e = Head(c.todo).at, die[e].tag = "block",
         NEW b, b.at = c.at, b.todo = Items(e, TRUE) \o Tail(c.todo), b.details = c.details
  PROVE  Filled(b)
<1> DEFINE at == c.at
<1>1. PICK q, done : /\ c.details.chain = Append(q, at) /\ Path(q, at) /\ Traversed(c, done)
                     /\ InlinedIn(c.details)
                          = InlinedBefore(q, at) \union (done \intersect Own(at, "inlined"))
                     /\ WellMade => Lists(c.details, q, at, done)
  BY DEF Filled
<1> DEFINE more == done \union {e}
<1>2. Traversed(b, more)
  BY <1>1, OpenedTraversed
<1>3. \A tag \in {"inlined", "parameter", "variable"} : e \notin Own(at, tag)
  BY OwnIs
<1>4. /\ more \intersect Own(at, "inlined") = done \intersect Own(at, "inlined")
      /\ Seen(q, at, more, "parameter") = Seen(q, at, done, "parameter")
      /\ Seen(q, at, more, "variable") = Seen(q, at, done, "variable")
  BY <1>3, SeenSame
<1>5. WellMade => Lists(b.details, q, at, more)
  BY <1>1, <1>4 DEF Lists
<1> HIDE DEF at, more
<1>6. /\ at \notin Endless /\ Shaped(b.details) /\ b.at = at
      /\ b.details.chain = Append(q, at)
      /\ InlinedIn(b.details) = InlinedBefore(q, at) \union (more \intersect Own(at, "inlined"))
  BY <1>1, <1>4 DEF Filled, at
<1> QED
  BY <1>1, <1>2, <1>5, <1>6 DEF Filled

\* Whose the next entry is.
LEMMA HeadOwn ==
  ASSUME NEW c, CallOK(c), Filled(c), c.todo # <<>>, NEW e, e = Head(c.todo).at
  PROVE  /\ e \in Near(c.at)
         /\ e \in Own(c.at, "inlined") <=> die[e].tag = "inlined"
         /\ e \in Own(c.at, "variable") <=> die[e].tag = "variable"
         /\ e \in Own(c.at, "parameter") => die[e].tag = "parameter"
         /\ WellMade /\ die[e].tag = "parameter" =>
              (e \in Own(c.at, "parameter") <=> ~Head(c.todo).block)
<1>1. PICK q, done : Traversed(c, done)
  BY DEF Filled
<1> DEFINE t == Tail(c.todo)
<1>2. t = Tail(c.todo)
  OBVIOUS
<1> HIDE DEF t
<1>3. Ahead(c, done, e, t)
  BY <1>1, <1>2, HeadTaken
<1>4. e \in Near(c.at) /\ (TreeShaped => (Head(c.todo).block <=> e \notin Kids(c.at)))
  BY <1>3 DEF Ahead
<1> QED
  BY <1>4, OwnIs DEF WellMade

\* The innermost call goes on with its children.
LEMMA InnerFilled ==
  ASSUME GoodCalls(calls), Built(calls), InChildren
  PROVE  /\ CallOK(inner) /\ Filled(inner) /\ calls # <<>> /\ Active
         /\ DOMAIN inner = {"at", "phase", "todo", "details"} /\ inner.phase = "children"
         /\ DOMAIN inner.details = {"parameters", "variables", "inlined", "chain"}
<1>1. calls # <<>> /\ Active /\ inner.phase = "children"
  BY DEF InChildren, Active
<1>2. /\ CallOK(inner) /\ Len(calls) \in 1..Len(calls)
      /\ DOMAIN inner = {"at", "phase", "todo", "details"}
  BY <1>1, InnerCall
<1>3. CallBuilt(inner)
  BY <1>2 DEF Built, inner
<1>4. Filled(inner)
  BY <1>1, <1>3 DEF CallBuilt
<1> QED
  BY <1>1, <1>2, <1>4 DEF Filled, Shaped

LEMMA InnerBuilt ==
  ASSUME GoodCalls(calls), Built(calls), calls # <<>>, NEW c, SetInner(c), c.phase = "children",
         Filled(c), c.at = inner.at
  PROVE  Built(calls')
<1>1. CallBuilt(c)
  BY DEF CallBuilt
<1>2. IsSeq(calls)
  BY DEF GoodCalls
<1>3. Built([calls EXCEPT ![Len(calls)] = c])
  BY <1>1, <1>2, BuiltTop DEF inner
<1> QED
  BY <1>3 DEF SetInner

LEMMA TakeParameterBuilt ==
  ASSUME TreeOK, GoodCalls(calls), Built(calls), TakeParameter
  PROVE  Built(calls')
<1> DEFINE c == inner
           e == item.at
           b == [Past(c) EXCEPT !.details.parameters = Merge(@, e)]
<1>1. /\ InChildren /\ c.todo # <<>> /\ die[e].tag = "parameter" /\ ~Head(c.todo).block
      /\ SetInner(b) /\ e = Head(c.todo).at
  BY DEF TakeParameter, entry, item
<1>2. /\ CallOK(c) /\ Filled(c) /\ calls # <<>> /\ c.phase = "children"
      /\ DOMAIN c = {"at", "phase", "todo", "details"}
      /\ DOMAIN c.details = {"parameters", "variables", "inlined", "chain"}
  BY <1>1, InnerFilled
<1>3. /\ b.at = c.at /\ b.phase = "children" /\ b.todo = Tail(c.todo)
      /\ b.details = [c.details EXCEPT !.parameters = Merge(@, e)]
  BY <1>2 DEF Past
<1> HIDE DEF b, c, e
<1>4. /\ DOMAIN b.details = {"parameters", "variables", "inlined", "chain"}
      /\ b.details.parameters = Merge(c.details.parameters, e)
      /\ b.details.variables = c.details.variables
      /\ b.details.inlined = c.details.inlined /\ b.details.chain = c.details.chain
  BY <1>2, <1>3
<1>5. Shaped(b.details) /\ InlinedIn(b.details) = InlinedIn(c.details)
  BY <1>2, <1>4 DEF Filled, Shaped, InlinedIn
<1>6. /\ e \notin Own(c.at, "inlined") /\ e \notin Own(c.at, "variable")
      /\ WellMade => e \in Own(c.at, "parameter")
  BY <1>1, <1>2, HeadOwn
<1>7. InlinedIn(b.details) = InlinedIn(c.details) \union ({e} \intersect Own(c.at, "inlined"))
  BY <1>5, <1>6
<1>8. WellMade => /\ Takes(c.details.parameters, b.details.parameters, c.at, e, "parameter")
                  /\ Takes(c.details.variables, b.details.variables, c.at, e, "variable")
  BY <1>4, <1>6 DEF Takes
<1>9. Filled(b)
  BY <1>1, <1>2, <1>3, <1>4, <1>5, <1>7, <1>8, TookFilled, ZenonT(40)
<1> QED
  BY <1>1, <1>2, <1>3, <1>9, InnerBuilt DEF c

LEMMA TakeVariableBuilt ==
  ASSUME TreeOK, GoodCalls(calls), Built(calls), TakeVariable
  PROVE  Built(calls')
<1> DEFINE c == inner
           e == item.at
           b == [Past(c) EXCEPT !.details.variables = Merge(@, e)]
<1>1. /\ InChildren /\ c.todo # <<>> /\ die[e].tag = "variable"
      /\ SetInner(b) /\ e = Head(c.todo).at
  BY DEF TakeVariable, entry, item
<1>2. /\ CallOK(c) /\ Filled(c) /\ calls # <<>> /\ c.phase = "children"
      /\ DOMAIN c = {"at", "phase", "todo", "details"}
      /\ DOMAIN c.details = {"parameters", "variables", "inlined", "chain"}
  BY <1>1, InnerFilled
<1>3. /\ b.at = c.at /\ b.phase = "children" /\ b.todo = Tail(c.todo)
      /\ b.details = [c.details EXCEPT !.variables = Merge(@, e)]
  BY <1>2 DEF Past
<1> HIDE DEF b, c, e
<1>4. /\ DOMAIN b.details = {"parameters", "variables", "inlined", "chain"}
      /\ b.details.variables = Merge(c.details.variables, e)
      /\ b.details.parameters = c.details.parameters
      /\ b.details.inlined = c.details.inlined /\ b.details.chain = c.details.chain
  BY <1>2, <1>3
<1>5. Shaped(b.details) /\ InlinedIn(b.details) = InlinedIn(c.details)
  BY <1>2, <1>4 DEF Filled, Shaped, InlinedIn
<1>6. /\ e \notin Own(c.at, "inlined") /\ e \notin Own(c.at, "parameter")
      /\ e \in Own(c.at, "variable")
  BY <1>1, <1>2, HeadOwn
<1>7. InlinedIn(b.details) = InlinedIn(c.details) \union ({e} \intersect Own(c.at, "inlined"))
  BY <1>5, <1>6
<1>8. WellMade => /\ Takes(c.details.parameters, b.details.parameters, c.at, e, "parameter")
                  /\ Takes(c.details.variables, b.details.variables, c.at, e, "variable")
  BY <1>4, <1>6 DEF Takes
<1>9. Filled(b)
  BY <1>1, <1>2, <1>3, <1>4, <1>5, <1>7, <1>8, TookFilled
<1> QED
  BY <1>1, <1>2, <1>3, <1>9, InnerBuilt DEF c

\* Parameters of a block and entries of other kinds are none of the function's.
LEMMA SkipEntryBuilt ==
  ASSUME TreeOK, GoodCalls(calls), Built(calls), SkipEntry
  PROVE  Built(calls')
<1> DEFINE c == inner
           e == item.at
           b == Past(c)
<1>1. /\ InChildren /\ c.todo # <<>> /\ SetInner(b) /\ e = Head(c.todo).at
      /\ \/ die[e].tag \in {"other", "subprogram"}
         \/ die[e].tag = "parameter" /\ Head(c.todo).block
  BY DEF SkipEntry, entry, item
<1>2. /\ CallOK(c) /\ Filled(c) /\ calls # <<>> /\ c.phase = "children"
      /\ DOMAIN c = {"at", "phase", "todo", "details"}
  BY <1>1, InnerFilled
<1>3. /\ b.at = c.at /\ b.phase = "children" /\ b.todo = Tail(c.todo)
      /\ b.details = c.details
  BY <1>2 DEF Past
<1> HIDE DEF b, c, e
<1>4. /\ e \notin Own(c.at, "inlined") /\ e \notin Own(c.at, "variable")
      /\ WellMade => e \notin Own(c.at, "parameter")
  BY <1>1, <1>2, HeadOwn
<1>5. Shaped(b.details)
  BY <1>2, <1>3 DEF Filled
<1>6. InlinedIn(b.details) = InlinedIn(c.details) \union ({e} \intersect Own(c.at, "inlined"))
  BY <1>3, <1>4
<1>7. WellMade => /\ Takes(c.details.parameters, b.details.parameters, c.at, e, "parameter")
                  /\ Takes(c.details.variables, b.details.variables, c.at, e, "variable")
  BY <1>3, <1>4 DEF Takes
<1>8. die[e].tag # "block"
  BY <1>1
<1>9. Filled(b)
  BY <1>1, <1>2, <1>3, <1>5, <1>6, <1>7, <1>8, TookFilled
<1> QED
  BY <1>1, <1>2, <1>3, <1>9, InnerBuilt DEF c

LEMMA OpenBlockBuilt ==
  ASSUME TreeOK, GoodCalls(calls), Built(calls), OpenBlock
  PROVE  Built(calls')
<1> DEFINE c == inner
           e == item.at
           b == [c EXCEPT !.todo = Items(e, TRUE) \o Tail(@)]
<1>1. /\ InChildren /\ c.todo # <<>> /\ die[e].tag = "block" /\ SetInner(b)
      /\ e = Head(c.todo).at
  BY DEF OpenBlock, entry, item
<1>2. /\ CallOK(c) /\ Filled(c) /\ calls # <<>> /\ c.phase = "children"
      /\ DOMAIN c = {"at", "phase", "todo", "details"}
  BY <1>1, InnerFilled
<1>3. /\ b.at = c.at /\ b.phase = "children" /\ b.todo = Items(e, TRUE) \o Tail(c.todo)
      /\ b.details = c.details
  BY <1>2
<1> HIDE DEF b, c, e
<1>4. Filled(b)
  BY <1>1, <1>2, <1>3, OpenedFilled
<1> QED
  BY <1>1, <1>2, <1>3, <1>4, InnerBuilt DEF c

LEMMA NoOriginBuilt ==
  ASSUME TreeOK, GoodCalls(calls), Built(calls), NoOrigin
  PROVE  Built(calls')
<1> DEFINE c == inner
           b == BeginChildren(c)
<1>1. /\ Active /\ c.phase = "origin" /\ OriginOf(c.at) = {} /\ SetInner(b) /\ calls # <<>>
  BY DEF NoOrigin, Tree, OriginOf, Active
<1>2. CallOK(c) /\ Len(calls) \in 1..Len(calls)
  BY <1>1, InnerCall
<1>3. c.details = NoDetails
  <2>1. CallBuilt(c)
    BY <1>2 DEF Built, inner
  <2> QED
    BY <1>1, <2>1 DEF CallBuilt
<1>4. c.at \notin Endless
  BY <1>1, EndlessOrigin
<1>5. b.at = c.at
  BY <1>2, BeginOK
<1> HIDE DEF c
<1>6. Filled(b) /\ b.phase = "children"
  BY <1>1, <1>2, <1>3, <1>4, BeginNone
<1> HIDE DEF b
<1> QED
  BY <1>1, <1>5, <1>6, InnerBuilt DEF c

LEMMA FetchOriginBuilt ==
  ASSUME TreeOK, GoodCalls(calls), Built(calls), FetchOrigin
  PROVE  Built(calls')
<1> DEFINE cs == [calls EXCEPT ![Len(calls)].phase = "waiting"]
           c == [inner EXCEPT !.phase = "waiting"]
<1>1. PICK o \in Tree(die[inner.at].origin) :
        IF Len(calls) < MaxCalls
        THEN calls' = Append(cs, CallOf(o)) /\ UNCHANGED <<die, answer, outcome>>
        ELSE outcome' = "overflow" /\ UNCHANGED <<die, calls, answer>>
  BY DEF FetchOrigin
<1>2. calls # <<>> /\ inner.phase = "origin"
  BY DEF FetchOrigin, Active
<1>3. /\ CallOK(inner) /\ inner.at \in FunctionDies /\ Len(calls) \in 1..Len(calls)
      /\ DOMAIN inner = {"at", "phase", "todo", "details"} /\ IsSeq(calls)
  BY <1>2, InnerCall DEF GoodCalls
<1>4. cs = [calls EXCEPT ![Len(calls)] = c]
  BY DEF inner
<1>5. c.at = inner.at /\ c.phase = "waiting" /\ c.details = inner.details
  BY <1>3
<1>6. CallBuilt(c)
  <2>1. CallBuilt(inner)
    BY <1>3 DEF Built, inner
  <2> QED
    BY <1>2, <1>5, <2>1 DEF CallBuilt
<1> HIDE DEF c
<1>7. Built(cs)
  <2>1. Built([calls EXCEPT ![Len(calls)] = c])
    BY <1>2, <1>3, <1>5, <1>6, BuiltTop DEF inner
  <2> QED
    BY <1>4, <2>1
<1>8. IsSeq(cs) /\ Len(cs) = Len(calls) /\ cs[Len(cs)] = c
  <2>1. /\ IsSeq([calls EXCEPT ![Len(calls)] = c])
        /\ Len([calls EXCEPT ![Len(calls)] = c]) = Len(calls)
        /\ [calls EXCEPT ![Len(calls)] = c][Len(calls)] = c
    BY <1>2, <1>3, SeqTopSet
  <2> HIDE DEF cs
  <2> QED
    BY <1>4, <2>1
<1> HIDE DEF cs
<1>9. cs # <<>>
  <2>1. Len(cs) # 0
    BY <1>3, <1>8
  <2> QED
    BY <2>1, SeqEmpty
<1>10. Link(cs[Len(cs)], o)
  <2>1. OriginOf(inner.at) = {o}
    BY <1>1 DEF Tree, OriginOf
  <2>2. die[o].tag = "subprogram"
    BY <1>3, <2>1 DEF TreeOK
  <2> QED
    BY <1>5, <1>8, <2>1, <2>2 DEF Link
<1>11. Built(Append(cs, CallOf(o)))
  BY <1>7, <1>8, <1>9, <1>10, BuiltPush
<1> QED
  BY <1>1, <1>11

LEMMA CallInlinedBuilt ==
  ASSUME TreeOK, GoodCalls(calls), Built(calls), CallInlined
  PROVE  Built(calls')
<1> DEFINE e == item.at
<1>1. /\ Active /\ inner.phase = "children" /\ inner.todo # <<>> /\ die[e].tag = "inlined"
      /\ calls' = Append(calls, CallOf(e)) \/ calls' = calls
  BY DEF CallInlined, InChildren, Descend, entry
<1>2. calls # <<>> /\ IsSeq(calls)
  BY <1>1 DEF Active, GoodCalls
<1>3. Link(calls[Len(calls)], e)
  BY <1>1 DEF Link, inner, item
<1> HIDE DEF e
<1>4. Built(Append(calls, CallOf(e)))
  BY <1>2, <1>3, BuiltPush
<1> QED
  BY <1>1, <1>4

\* What has nothing left to do is complete.
LEMMA InnerComplete ==
  ASSUME TreeOK, GoodCalls(calls), Built(calls), InChildren, inner.todo = <<>>
  PROVE  Whole(inner.details, inner.at)
  BY InnerFilled, NothingLeft

\* What is inlined is parsed and joins what its function inlines.
LEMMA ReturnInlinedBuilt ==
  ASSUME TreeOK, GoodCalls(calls), Built(calls), ReturnInlined
  PROVE  Built(calls')
<1> DEFINE n == Len(calls)
           e == inner.at
           d == [at |-> e, details |-> inner.details]
           c == outer
           s == c.details.inlined
           b == [Past(c) EXCEPT !.details.inlined = Append(@, d)]
           below == SubSeq(calls, 1, n - 2)
<1>1. /\ InChildren /\ inner.todo = <<>> /\ die[e].tag = "inlined"
      /\ calls' = Append(below, b) /\ calls # <<>>
  BY DEF ReturnInlined, Complete, InChildren, Active
<1>2. n \in Nat /\ n >= 2
  <2>1. n \in Nat /\ n \in 1..n
    BY <1>1, InnerCall
  <2>2. n # 1
    BY <1>1 DEF GoodCalls, inner
  <2> QED
    BY <2>1, <2>2
<1>3. n - 1 \in 1..n /\ n - 1 \in 1..(n - 1) /\ n - 2 \in 0..n /\ (n - 1) - 1 = n - 2
      /\ (n - 2) + 1 = n - 1 /\ (n - 1) + 1 = n
  BY <1>2
<1>4. CallOK(c) /\ CallBuilt(c) /\ Link(c, e)
  <2>1. CallOK(calls[n - 1]) /\ CallBuilt(calls[n - 1])
    BY <1>3 DEF GoodCalls, Built
  <2>2. Link(calls[n - 1], calls[(n - 1) + 1].at)
    BY <1>3 DEF Built
  <2> QED
    BY <1>3, <2>1, <2>2 DEF outer, inner
<1>5. c.phase = "children" /\ c.todo # <<>> /\ e = Head(c.todo).at /\ Filled(c)
  BY <1>1, <1>4 DEF Link, CallBuilt
<1>6. Sound(d.details) /\ d.at = e
  BY <1>1, InnerComplete, CompleteSound
<1>7. /\ DOMAIN c = {"at", "phase", "todo", "details"}
      /\ DOMAIN c.details = {"parameters", "variables", "inlined", "chain"} /\ IsSeq(s)
  BY <1>4, <1>5 DEF CallOK, Filled, Shaped
<1>8. /\ b.at = c.at /\ b.phase = "children" /\ b.todo = Tail(c.todo)
      /\ b.details = [c.details EXCEPT !.inlined = Append(s, d)]
  BY <1>5, <1>7 DEF Past
<1>9. c = calls[n - 1] /\ IsSeq(calls) /\ below = SubSeq(calls, 1, n - 2)
  BY DEF outer, GoodCalls
<1> HIDE DEF b, c, d, e, below, n
<1>10. /\ DOMAIN b.details = {"parameters", "variables", "inlined", "chain"}
       /\ b.details.inlined = Append(s, d)
       /\ b.details.parameters = c.details.parameters
       /\ b.details.variables = c.details.variables /\ b.details.chain = c.details.chain
  BY <1>7, <1>8
<1> DEFINE more == Append(s, d)
<1>11. /\ IsSeq(more) /\ Len(more) = Len(s) + 1 /\ Len(s) \in Nat
       /\ \A k \in 1..Len(s) : more[k] = s[k]
       /\ more[Len(s) + 1] = d
  BY <1>7, SeqAppend, SeqLen
<1>12. \A k \in 1..Len(s) : Sound(s[k].details)
  BY <1>5 DEF Filled, Shaped
<1>13. InlinedIn(c.details) = {s[k].at : k \in 1..Len(s)}
  BY DEF InlinedIn
<1>14. b.details.inlined = more
  BY <1>10
<1> HIDE DEF more, s
<1>15. /\ \A k \in 1..(Len(s) + 1) : k \in 1..Len(s) \/ k = Len(s) + 1
       /\ \A k \in 1..Len(s) : k \in 1..(Len(s) + 1)
       /\ Len(s) + 1 \in 1..(Len(s) + 1)
  BY <1>11
<1>16. Shaped(b.details)
  <2>1. \A k \in 1..Len(more) : Sound(more[k].details)
    BY <1>6, <1>11, <1>12, <1>15
  <2> QED
    BY <1>10, <1>11, <1>14, <2>1 DEF Shaped
<1>17. InlinedIn(b.details) = InlinedIn(c.details) \union {e}
  <2>1. InlinedIn(b.details) = {more[k].at : k \in 1..(Len(s) + 1)}
    BY <1>11, <1>14 DEF InlinedIn
  <2>2. {more[k].at : k \in 1..(Len(s) + 1)} = {s[k].at : k \in 1..Len(s)} \union {e}
    BY <1>6, <1>11, <1>15
  <2> QED
    BY <1>13, <2>1, <2>2
<1>18. /\ e \in Own(c.at, "inlined") /\ e \notin Own(c.at, "variable")
       /\ e \notin Own(c.at, "parameter")
  BY <1>1, <1>4, <1>5, HeadOwn
<1>19. InlinedIn(b.details) = InlinedIn(c.details) \union ({e} \intersect Own(c.at, "inlined"))
  BY <1>17, <1>18
<1>20. /\ Takes(c.details.parameters, b.details.parameters, c.at, e, "parameter")
       /\ Takes(c.details.variables, b.details.variables, c.at, e, "variable")
  BY <1>10, <1>18 DEF Takes
<1>21. die[e].tag # "block"
  BY <1>1
<1>22. Filled(b)
  BY <1>4, <1>5, <1>8, <1>10, <1>16, <1>19, <1>20, <1>21, TookFilled
<1>23. IsSeq(below) /\ Len(below) = n - 2 /\ \A i \in 1..(n - 2) : below[i] = calls[i]
  BY <1>3, <1>9, SeqPrefix DEF n
<1>24. /\ IsSeq(calls') /\ Len(calls') = n - 1 /\ calls'[n - 1] = b
       /\ \A i \in 1..((n - 1) - 1) : calls'[i] = calls[i]
  <2>1. /\ IsSeq(Append(below, b)) /\ Len(Append(below, b)) = Len(below) + 1
        /\ \A i \in 1..Len(below) : Append(below, b)[i] = below[i]
        /\ Append(below, b)[Len(below) + 1] = b
    BY <1>23, SeqAppend
  <2> QED
    BY <1>1, <1>3, <1>23, <2>1
<1>25. CallBuilt(b)
  BY <1>8, <1>22 DEF CallBuilt
<1>26. n - 1 \in 1..Len(calls) /\ calls'[n - 1].at = calls[n - 1].at
  BY <1>3, <1>8, <1>9, <1>24 DEF n
<1> QED
  BY <1>9, <1>24, <1>25, <1>26, BuiltChanged

LEMMA BuiltNone == Built(<<>>)
<1>1. Len(<<>>) = 0
  BY SeqEmpty
<1> QED
  BY <1>1 DEF Built

\* The k-th call returns all that its function has, or nothing where an entry could not
\* be read.
LEMMA DeliverBuilt ==
  ASSUME TreeOK, GoodCalls(calls), Built(calls), NEW k \in 1..Len(calls), NEW got,
         die[calls[k].at].tag # "inlined", calls[k].at \notin Endless, outcome = "running",
         Deliver(SubSeq(calls, 1, k - 1), got),
         \/ Whole(got, calls[k].at)
         \/ got = NoDetails /\ (k > 1 => ~Readable(calls[k - 1].at))
  PROVE  Built(calls') /\ (outcome' = "done" => answer' = got /\ k = 1)
<1> DEFINE below == SubSeq(calls, 1, k - 1)
           n == k - 1
           c == calls[n]
           o == calls[k].at
<1>1. Len(calls) \in Nat /\ IsSeq(calls)
  BY SeqLen DEF GoodCalls
<1>2. n \in 0..Len(calls) /\ k \in Nat /\ (k # 1 => n \in 1..Len(calls) /\ k > 1 /\ n \in 1..n)
  BY <1>1
<1>3. /\ IsSeq(below) /\ Len(below) = n /\ Built(below) /\ GoodCalls(below)
      /\ \A i \in 1..n : below[i] = calls[i]
  BY <1>1, <1>2, SeqPrefix, BuiltPrefix, GoodPrefix
<1>4. Deliver(below, got)
  OBVIOUS
<1> HIDE DEF below
<1>5. CASE k = 1
  <2>1. below = <<>>
    <3>1. below # <<>> => Len(below) \in 1..Len(below)
      BY <1>3, SeqLen
    <3> QED
      BY <1>3, <1>5, <3>1
  <2>2. calls' = <<>> /\ answer' = got
    BY <1>4, <2>1 DEF Deliver
  <2> QED
    BY <1>5, <2>2, BuiltNone
<1>6. CASE k # 1
  <2>1. below # <<>> /\ below[n] = c /\ Len(below) = n
    <3>1. Len(below) # 0
      BY <1>2, <1>3, <1>6
    <3> QED
      BY <1>2, <1>3, <1>6, <3>1, SeqEmpty
  <2>2. calls' = [below EXCEPT ![n] = Received(c, got)] /\ outcome' = outcome
    BY <1>4, <2>1 DEF Deliver
  <2>3. CallOK(c) /\ CallBuilt(c)
    BY <1>2, <1>6 DEF GoodCalls, Built
  <2>4. Link(c, o)
    <3>1. n \in 1..(Len(calls) - 1) /\ n + 1 = k
      BY <1>1, <1>2, <1>6
    <3> QED
      BY <3>1 DEF Built
  <2>5. OriginOf(c.at) = {o} /\ c.details = NoDetails
    BY <2>3, <2>4 DEF Link, CallBuilt
  <2>6. (got = NoDetails /\ ~Readable(c.at)) \/ Whole(got, o)
    BY <1>2, <1>6
  <2>7. die[o].tag # "inlined" /\ o \notin Endless
    OBVIOUS
  <2> HIDE DEF c, o
  <2>8. Filled(Received(c, got)) /\ Received(c, got).phase = "children"
    BY <2>3, <2>5, <2>6, <2>7, ReceivedFilled
  <2>9. CallBuilt(Received(c, got)) /\ Received(c, got).at = c.at
    BY <2>3, <2>8, ReceivedOK DEF CallBuilt
  <2> DEFINE r == Received(c, got)
  <2> HIDE DEF r
  <2>10. Built([below EXCEPT ![Len(below)] = r])
    BY <1>3, <2>1, <2>9, BuiltTop DEF r
  <2> QED
    BY <2>1, <2>2, <2>10 DEF r
<1> QED
  BY <1>5, <1>6

LEMMA ReturnDetailsBuilt ==
  ASSUME TreeOK, GoodCalls(calls), Built(calls), ReturnDetails
  PROVE  /\ Built(calls')
         /\ outcome' = "done" => Whole(answer', calls[1].at) /\ Len(calls) \in Nat
<1>1. /\ InChildren /\ inner.todo = <<>> /\ die[inner.at].tag # "inlined"
      /\ Deliver(SubSeq(calls, 1, Len(calls) - 1), inner.details)
      /\ calls # <<>> /\ outcome = "running"
  BY DEF ReturnDetails, Complete, InChildren, Active
<1>2. Len(calls) \in 1..Len(calls) /\ inner = calls[Len(calls)] /\ Len(calls) \in Nat
  BY <1>1, InnerCall DEF inner
<1>3. Whole(inner.details, inner.at)
  BY <1>1, InnerComplete
<1>4. inner.at \notin Endless
  BY <1>3 DEF Whole
<1>5. Built(calls') /\ (outcome' = "done" => answer' = inner.details /\ Len(calls) = 1)
  BY <1>1, <1>2, <1>3, <1>4, DeliverBuilt
<1> QED
  BY <1>2, <1>3, <1>5

\* The last call of get_function_details, which an error ends.
LEMMA EntryFailsBuilt ==
  ASSUME TreeOK, GoodCalls(calls), Built(calls), EntryFails
  PROVE  /\ Built(calls') /\ calls # <<>> /\ Len(calls) \in 1..Len(calls)
         /\ item.at \in Near(inner.at) /\ die[item.at].bad
         /\ outcome' = "done" => answer' = NoDetails
<1> DEFINE n == Len(calls)
           I == {i \in 1..n : die[calls[i].at].tag # "inlined"}
           k == SelectLastInSeq(calls, LAMBDA c : die[c.at].tag # "inlined")
<1>1. /\ InChildren /\ inner.todo # <<>> /\ die[item.at].bad /\ calls # <<>>
      /\ Deliver(SubSeq(calls, 1, k - 1), NoDetails) /\ outcome = "running"
  BY DEF EntryFails, InChildren, Active, entry
<1>2. n \in Nat /\ 1 \in 1..n /\ n \in 1..n /\ inner = calls[n]
  BY <1>1, InnerCall DEF inner
<1>3. 1 \in I /\ I \subseteq 0..n
  BY <1>1, <1>2 DEF GoodCalls
<1>4. k = IF I # {} THEN Max(I) ELSE 0
  BY DEF SelectLastInSeq
<1>5. \E m \in I : \A j \in I : j <= m
  <2> HIDE DEF I
  <2> QED
    BY <1>2, <1>3, NatMax
<1>6. Max(I) \in I /\ \A j \in I : Max(I) >= j
  <2>1. \E m \in I : \A j \in I : m >= j
    BY <1>2, <1>3, <1>5
  <2> HIDE DEF I
  <2> QED
    BY <2>1 DEF Max
<1>7. k \in I /\ \A j \in I : j <= k
  BY <1>2, <1>3, <1>4, <1>6
<1> HIDE DEF k
<1>8. k \in 1..n /\ k \in Nat /\ die[calls[k].at].tag # "inlined"
  BY <1>2, <1>7
<1>9. item.at \in Near(inner.at)
  BY <1>1, NextItem
<1>10. calls[k].phase = "children"
  <2>1. CASE k = n
    BY <1>1, <1>2, <2>1 DEF InChildren
  <2>2. CASE k # n
    <3>1. k + 1 \in 1..n /\ k \in 1..(n - 1) /\ ~(k + 1 <= k)
      BY <1>2, <1>8, <2>2
    <3>2. die[calls[k + 1].at].tag = "inlined"
      BY <1>7, <3>1
    <3>3. Link(calls[k], calls[k + 1].at)
      BY <3>1 DEF Built
    <3> QED
      BY <3>2, <3>3 DEF Link
  <2> QED
    BY <2>1, <2>2
<1>11. calls[k].at \notin Endless
  <2>1. CallBuilt(calls[k])
    BY <1>8 DEF Built
  <2> QED
    BY <1>10, <2>1 DEF CallBuilt, Filled
<1>12. k > 1 => ~Readable(calls[k - 1].at)
  <2> SUFFICES ASSUME k > 1 PROVE ~Readable(calls[k - 1].at)
    OBVIOUS
  <2>1. k - 1 \in 1..n /\ k - 1 < n
    BY <1>2, <1>8
  <2>2. inner.at \in Reached[calls[k - 1].at]
    BY <1>2, <2>1 DEF GoodCalls
  <2> QED
    BY <1>1, <1>9, <2>2 DEF Readable
<1>13. Built(calls') /\ (outcome' = "done" => answer' = NoDetails)
  BY <1>1, <1>8, <1>11, <1>12, DeliverBuilt
<1> QED
  BY <1>1, <1>2, <1>9, <1>13

(* What is said of the tree is so after a step that leaves it alone. *)
LEMMA TreeReadSame ==
  ASSUME TreeOK, UNCHANGED die
  PROVE  /\ \A d : Near(d)' = Near(d) /\ Kids(d)' = Kids(d) /\ BlocksOf(d)' = BlocksOf(d)
                   /\ OriginOf(d)' = OriginOf(d)
         /\ \A d, tag : Own(d, tag)' = Own(d, tag)
         /\ FunctionDies' = FunctionDies /\ Reached' = Reached
<1>1. \A d : Kids(d)' = Kids(d) /\ OriginOf(d)' = OriginOf(d)
  BY DEF Kids, OriginOf
<1>2. \A d : BlocksOf(d)' = BlocksOf(d)
  BY DEF Kids, BlocksOf
<1>3. \A d, tag : Own(d, tag)' = Own(d, tag)
  BY DEF Own, Below, Kids, BlocksOf
<1> QED
  BY <1>1, <1>2, <1>3, TreeSame

LEMMA ListsSame ==
  ASSUME TreeOK, UNCHANGED die
  PROVE  /\ \A x, mine, level : Stands(x, mine, level)' <=> Stands(x, mine, level)
         /\ \A S, o : Mine(S, o)' = Mine(S, o)
         /\ \A S, d : Target(S, d)' = Target(S, d)
         /\ \A list, S, level : Accounted(list, S, level)' <=> Accounted(list, S, level)
<1>1. \A x, mine, level : Stands(x, mine, level)' <=> Stands(x, mine, level)
  BY DEF Stands
<1>2. \A S, d : Target(S, d)' = Target(S, d)
  BY DEF Target
<1>3. \A S, o : Mine(S, o)' = Mine(S, o)
  BY <1>2 DEF Mine
<1>4. \A list, S, level : Accounted(list, S, level)' <=> Accounted(list, S, level)
  BY <1>1, <1>2, <1>3 DEF Accounted
<1> QED
  BY <1>1, <1>2, <1>3, <1>4

LEMMA ChainsSame ==
  ASSUME TreeOK, UNCHANGED die
  PROVE  /\ \A q, tag : Through(q, tag)' = Through(q, tag) /\ Levels(q, tag)' = Levels(q, tag)
         /\ \A q : Functions(q)' <=> Functions(q)
         /\ WellMade' <=> WellMade
         /\ Endless' = Endless
         /\ \A d : Readable(d)' <=> Readable(d)
         /\ \A q, at : Path(q, at)' <=> Path(q, at)
<1>1. /\ \A d : Near(d)' = Near(d) /\ Kids(d)' = Kids(d) /\ BlocksOf(d)' = BlocksOf(d)
                /\ OriginOf(d)' = OriginOf(d)
      /\ \A d, tag : Own(d, tag)' = Own(d, tag)
      /\ FunctionDies' = FunctionDies /\ Reached' = Reached
  BY TreeReadSame
<1>2. \A q, tag : Through(q, tag)' = Through(q, tag)
  BY <1>1 DEF Through
<1>3. \A q, tag : Levels(q, tag)' = Levels(q, tag)
  BY <1>1, <1>2 DEF Levels
<1>4. \A q : Functions(q)' <=> Functions(q)
  BY <1>1 DEF Functions
<1>5. TreeShaped' <=> TreeShaped
  BY <1>1 DEF TreeShaped
<1>6. WellAbstracted' <=> WellAbstracted
  BY <1>1 DEF WellAbstracted
<1>7. Endless' = Endless
  BY <1>1 DEF Endless
<1>8. \A d : Readable(d)' <=> Readable(d)
  BY <1>1 DEF Readable
<1>9. \A q, at : Path(q, at)' <=> Path(q, at)
  BY <1>1, <1>4, <1>8 DEF Path
<1> QED
  BY <1>2, <1>3, <1>4, <1>5, <1>6, <1>7, <1>8, <1>9 DEF WellMade

LEMMA PartsSame ==
  ASSUME TreeOK, UNCHANGED die
  PROVE  /\ \A p : HasInlined(p)' <=> HasInlined(p)
         /\ \A p : PartOK(p)' <=> PartOK(p)
         /\ \A p : Sound(p)' <=> Sound(p)
<1>1. \A d, tag : Own(d, tag)' = Own(d, tag)
  BY TreeReadSame
<1>2. \A p : HasInlined(p)' <=> HasInlined(p)
  BY <1>1 DEF HasInlined
<1>3. \A p : FullLists(p)' <=> FullLists(p)
  BY ListsSame, ChainsSame DEF FullLists
<1>4. \A p : PartOK(p)' <=> PartOK(p)
  BY <1>2, <1>3, ChainsSame DEF PartOK
<1>5. \A S : AllParts(S)' <=> AllParts(S)
  BY <1>4 DEF AllParts
<1>6. \A p : Sound(p)' <=> Sound(p)
  BY <1>5 DEF Sound
<1> QED
  BY <1>2, <1>4, <1>6

LEMMA BuiltNext ==
  ASSUME TreeOK, UNCHANGED die, Built(calls')
  PROVE  Built(calls)'
<1>1. /\ \A d : Near(d)' = Near(d) /\ Kids(d)' = Kids(d) /\ OriginOf(d)' = OriginOf(d)
      /\ \A d, tag : Own(d, tag)' = Own(d, tag)
  BY TreeReadSame
<1>2. \A list, S, level : Accounted(list, S, level)' <=> Accounted(list, S, level)
  BY ListsSame
<1>3. /\ \A q, tag : Through(q, tag)' = Through(q, tag) /\ Levels(q, tag)' = Levels(q, tag)
      /\ WellMade' <=> WellMade
      /\ Endless' = Endless
      /\ \A q, at : Path(q, at)' <=> Path(q, at)
  BY ChainsSame
<1>4. \A c, done : Traversed(c, done)' <=> Traversed(c, done)
  <2>1. TreeShaped' <=> TreeShaped
    BY TreeReadSame DEF TreeShaped
  <2> QED
    BY <1>1, <2>1 DEF Traversed, Todo
<1>5. \A p : Shaped(p)' <=> Shaped(p)
  BY PartsSame DEF Shaped
<1>6. \A p, q, at, done : Lists(p, q, at, done)' <=> Lists(p, q, at, done)
  BY <1>1, <1>2, <1>3, ZenonT(40) DEF Lists, Seen
<1>7. \A q, at : InlinedBefore(q, at)' = InlinedBefore(q, at)
  BY <1>3 DEF InlinedBefore
<1>8. \A c : Filled(c)' <=> Filled(c)
  BY <1>1, <1>3, <1>4, <1>5, <1>6, <1>7 DEF Filled, InlinedIn
<1>9. \A c : CallBuilt(c)' <=> CallBuilt(c)
  BY <1>8 DEF CallBuilt
<1>10. \A c, d : Link(c, d)' <=> Link(c, d)
  BY <1>1 DEF Link
<1> QED
  BY <1>9, <1>10 DEF Built

-----------------------------------------------------------------------------
\* The invariant: what the calls have so far, and what the client got.
AnswerOK == outcome = "done" => answer = NoDetails \/ Sound(answer)
AnswerInv == DetailsInv /\ Built(calls) /\ AnswerOK

LEMMA AnswerStart ==
  ASSUME DetailsInit
  PROVE  AnswerInv
<1>1. DetailsInv
  BY DetailsStart
<1>2. PICK t \in Trees : calls = <<CallOf(t.asked)>>
  BY DEF DetailsInit
<1> DEFINE c == CallOf(t.asked)
<1>3. CallBuilt(c)
  BY DEF CallBuilt, CallOf
<1> HIDE DEF c
<1>4. Len(calls) = 1 /\ calls[1] = c
  BY <1>2, SeqOne DEF c
<1>5. Built(calls)
  <2>1. \A i \in 1..1 : i = 1
    OBVIOUS
  <2>2. \A i \in 1..Len(calls) : CallBuilt(calls[i])
    BY <1>3, <1>4, <2>1
  <2>3. \A i \in 1..(Len(calls) - 1) : FALSE
    BY <1>4
  <2> QED
    BY <2>2, <2>3 DEF Built
<1>6. AnswerOK
  BY DEF AnswerOK, DetailsInit
<1> QED
  BY <1>1, <1>5, <1>6 DEF AnswerInv

\* A step that does not answer, or answers with nothing or with all.
LEMMA AnswerNext ==
  ASSUME DetailsInv, UNCHANGED die, Built(calls'),
         outcome' = "done" => answer' = NoDetails \/ Sound(answer')
  PROVE  Built(calls)' /\ AnswerOK'
<1>1. TreeOK
  BY DEF DetailsInv
<1>2. Built(calls)'
  BY <1>1, BuiltNext
<1>3. NoDetails' = NoDetails
  BY DEF NoDetails
<1>4. \A p : Sound(p)' <=> Sound(p)
  BY <1>1, PartsSame
<1>5. AnswerOK'
  BY <1>3, <1>4 DEF AnswerOK
<1> QED
  BY <1>2, <1>5

LEMMA AnswerStep ==
  ASSUME AnswerInv, [DetailsNext]_detailsVars
  PROVE  AnswerInv'
<1>1. TreeOK /\ GoodCalls(calls) /\ Built(calls) /\ DetailsInv
  BY DEF AnswerInv, DetailsInv
<1>2. DetailsInv'
  BY <1>1, DetailsStep
<1>3. CASE FetchOrigin
  <2>1. UNCHANGED die /\ outcome' # "done" /\ Built(calls')
    BY <1>1, <1>3, FetchOriginBuilt DEF FetchOrigin, Active
  <2> QED
    BY <1>1, <1>2, <2>1, AnswerNext DEF AnswerInv
<1>4. CASE NoOrigin
  <2>1. UNCHANGED die /\ outcome' # "done" /\ Built(calls')
    BY <1>1, <1>4, NoOriginBuilt DEF NoOrigin, Active
  <2> QED
    BY <1>1, <1>2, <2>1, AnswerNext DEF AnswerInv
<1>5. CASE TakeParameter
  <2>1. UNCHANGED die /\ outcome' # "done" /\ Built(calls')
    BY <1>1, <1>5, TakeParameterBuilt DEF TakeParameter, InChildren, Active
  <2> QED
    BY <1>1, <1>2, <2>1, AnswerNext DEF AnswerInv
<1>6. CASE TakeVariable
  <2>1. UNCHANGED die /\ outcome' # "done" /\ Built(calls')
    BY <1>1, <1>6, TakeVariableBuilt DEF TakeVariable, InChildren, Active
  <2> QED
    BY <1>1, <1>2, <2>1, AnswerNext DEF AnswerInv
<1>7. CASE OpenBlock
  <2>1. UNCHANGED die /\ outcome' # "done" /\ Built(calls')
    BY <1>1, <1>7, OpenBlockBuilt DEF OpenBlock, InChildren, Active
  <2> QED
    BY <1>1, <1>2, <2>1, AnswerNext DEF AnswerInv
<1>8. CASE CallInlined
  <2>1. UNCHANGED die /\ outcome' # "done" /\ Built(calls')
    BY <1>1, <1>8, CallInlinedBuilt DEF CallInlined, Descend, InChildren, Active
  <2> QED
    BY <1>1, <1>2, <2>1, AnswerNext DEF AnswerInv
<1>9. CASE SkipEntry
  <2>1. UNCHANGED die /\ outcome' # "done" /\ Built(calls')
    BY <1>1, <1>9, SkipEntryBuilt DEF SkipEntry, InChildren, Active
  <2> QED
    BY <1>1, <1>2, <2>1, AnswerNext DEF AnswerInv
<1>10. CASE ReturnInlined
  <2>1. UNCHANGED die /\ outcome' # "done" /\ Built(calls')
    BY <1>1, <1>10, ReturnInlinedBuilt DEF ReturnInlined, Complete, InChildren, Active
  <2> QED
    BY <1>1, <1>2, <2>1, AnswerNext DEF AnswerInv
<1>11. CASE ReturnDetails
  <2>1. UNCHANGED die
    BY <1>11 DEF ReturnDetails
  <2>2. Built(calls') /\ (outcome' = "done" => Whole(answer', calls[1].at))
    BY <1>1, <1>11, ReturnDetailsBuilt
  <2>3. outcome' = "done" => Sound(answer')
    BY <2>2, CompleteSound
  <2> QED
    BY <1>1, <1>2, <2>1, <2>2, <2>3, AnswerNext DEF AnswerInv
<1>12. CASE EntryFails
  <2>1. UNCHANGED die
    BY <1>12 DEF EntryFails
  <2>2. Built(calls') /\ (outcome' = "done" => answer' = NoDetails)
    BY <1>1, <1>12, EntryFailsBuilt
  <2> QED
    BY <1>1, <1>2, <2>1, <2>2, AnswerNext DEF AnswerInv
<1>13. CASE UNCHANGED detailsVars
  <2>1. UNCHANGED <<die, calls, answer, outcome>>
    BY <1>13 DEF detailsVars
  <2>2. Built(calls') /\ (outcome' = "done" => answer' = NoDetails \/ Sound(answer'))
    BY <2>1 DEF AnswerInv, AnswerOK
  <2> QED
    BY <1>1, <1>2, <2>1, <2>2, AnswerNext DEF AnswerInv
<1> QED
  BY <1>3, <1>4, <1>5, <1>6, <1>7, <1>8, <1>9, <1>10, <1>11, <1>12, <1>13 DEF DetailsNext

\* What is inlined in the details of a set.
InlinedPieces(X) == UNION {{p.inlined[k].details : k \in DOMAIN p.inlined} : p \in X}

\* A set that has the details and what is inlined in its members has all parts.
LEMMA PartsWithin ==
  ASSUME NEW S, NEW details \in S,
         \A p \in S : \A k \in DOMAIN p.inlined : p.inlined[k].details \in S
  PROVE  Parts(details) \subseteq S
<1> DEFINE N == MaxCalls
           base == {details}
           D == SUBSET S
           s == [n \in 1..N |-> 0]
           turn == [x \in D \X {0} |-> InlinedPieces(x[1])]
           level == CHOOSE f : f = [n \in 0..N |-> IF n = 0 THEN {details}
              ELSE UNION {{p.inlined[k].details : k \in DOMAIN p.inlined} : p \in f[n - 1]}]
<1>1. \A X \in D : InlinedPieces(X) \in D
  BY DEF InlinedPieces
<1>2. turn \in [D \X {0} -> D] /\ \A X \in D : turn[<<X, 0>>] = InlinedPieces(X)
  BY <1>1
<1>3. N \in Nat
  BY MaxCallsAssumption
<1>4. s \in Seq({0}) /\ Len(s) = N
  <2> HIDE DEF N
  <2>1. s \in [1..N -> {0}]
    OBVIOUS
  <2> HIDE DEF s
  <2> QED
    BY <1>3, <2>1, SeqDef, LenProperties
<1>5. \A n \in 1..N : s[n] = 0 /\ n \in 0..N /\ n # 0 /\ n - 1 \in 0..N
  BY <1>3
<1>6. (\A n \in 0..N : n = 0 \/ n \in 1..N) /\ 0 \in 0..N
  BY <1>3
<1>7. base \in D
  OBVIOUS
<1> HIDE DEF s, turn, N, D
<1>8. IsLoop({0}, D, s, base, turn)
  BY <1>2, <1>4, <1>7 DEF IsLoop
<1>9. PICK g : Turns(s, base, turn, g)
  BY <1>8, TurnsExist
<1>10. /\ g[0] = base /\ \A n \in 0..N : g[n] \in D
       /\ \A n \in 1..N : g[n] = turn[<<g[n - 1], s[n]>>]
       /\ g = [n \in 0..N |-> IF n = 0 THEN base ELSE turn[<<g[n - 1], s[n]>>]]
  <2>1. g \in [0..N -> D] /\ g[0] = base /\ \A n \in 1..N : g[n] = turn[<<g[n - 1], s[n]>>]
    BY <1>4, <1>8, <1>9, TurnsAre
  <2> QED
    BY <1>4, <1>9, <2>1 DEF Turns
<1>11. \A n \in 1..N : g[n] = InlinedPieces(g[n - 1])
  BY <1>2, <1>5, <1>10
<1>12. g = [n \in 0..N |-> IF n = 0 THEN {details}
              ELSE UNION {{p.inlined[k].details : k \in DOMAIN p.inlined} : p \in g[n - 1]}]
  <2>1. g = [n \in 0..N |-> IF n = 0 THEN {details} ELSE InlinedPieces(g[n - 1])]
    BY <1>6, <1>10, <1>11
  <2> QED
    BY <2>1 DEF InlinedPieces
<1>13. level = [n \in 0..N |-> IF n = 0 THEN {details}
              ELSE UNION {{p.inlined[k].details : k \in DOMAIN p.inlined} : p \in level[n - 1]}]
  BY <1>12
<1>14. Parts(details) = UNION {level[n] : n \in 0..N}
  BY DEF Parts, N
<1> HIDE DEF level
<1>15. level[0] = {details} /\ \A n \in 1..N : level[n] = InlinedPieces(level[n - 1])
  <2>1. level = [n \in 0..N |-> IF n = 0 THEN {details} ELSE InlinedPieces(level[n - 1])]
    BY <1>13 DEF InlinedPieces
  <2> QED
    BY <1>5, <1>6, <2>1
<1> DEFINE G == {n \in 0..N : level[n] \in D}
<1>16. 0 \in G
  BY <1>6, <1>7, <1>15
<1>17. ASSUME NEW n \in 1..N, n - 1 \in G
       PROVE  n \in G
  BY <1>1, <1>5, <1>15, <1>17
<1> HIDE DEF G
<1>18. \A n \in 0..N : n \in G
  BY <1>3, <1>16, <1>17, UpTo
<1>19. \A n \in 0..N : level[n] \subseteq S
  BY <1>18 DEF G, D
<1> QED
  BY <1>14, <1>19

LEMMA SoundParts ==
  ASSUME NEW details, Sound(details)
  PROVE  \A p \in Parts(details) : PartOK(p)
<1>1. PICK S : details \in S /\ AllParts(S)
  BY DEF Sound
<1>2. Parts(details) \subseteq S
  BY <1>1, PartsWithin DEF AllParts
<1> QED
  BY <1>1, <1>2 DEF AllParts

LEMMA NoParts ==
  /\ Parts(NoDetails) \subseteq {NoDetails}
  /\ NoDetails.chain = <<>>
  /\ WellMade => AccountsFor(NoDetails)
<1>1. DOMAIN <<>> = {} /\ Len(<<>>) = 0 /\ IsSeq(<<>>)
  BY SeqEmpty, SeqLen
<1>2. /\ NoDetails.chain = <<>> /\ NoDetails.inlined = <<>>
      /\ NoDetails.parameters = <<>> /\ NoDetails.variables = <<>>
  BY DEF NoDetails
<1>3. Parts(NoDetails) \subseteq {NoDetails}
  <2>1. \A p \in {NoDetails} : \A k \in DOMAIN p.inlined : p.inlined[k].details \in {NoDetails}
    BY <1>1, <1>2
  <2> QED
    BY <2>1, PartsWithin
<1>4. FullLists(NoDetails)
  BY <1>2, ThroughNone, AccountedNone DEF FullLists
<1> QED
  BY <1>2, <1>3, <1>4, FullListsAccount

-----------------------------------------------------------------------------
\* An error in one function empties what is fetched of it as a whole (the `?' of
\* get_function_details and its parsers, dwarf.rs:2829 on): what the client gets has all
\* functions that are inlined in it, in what is inlined in it and in their origins, or
\* it has nothing of a function at all.
THEOREM DetailsAllOrNothing == DetailsSpec => []AllOrNothing
<1>1. DetailsInit => AnswerInv
  BY AnswerStart
<1>2. AnswerInv /\ [DetailsNext]_detailsVars => AnswerInv'
  BY AnswerStep
<1>3. AnswerInv => AllOrNothing
  <2> SUFFICES ASSUME AnswerInv, outcome = "done", answer.chain # <<>>,
                      NEW p \in Parts(answer)
               PROVE  HasInlined(p)
    BY DEF AllOrNothing
  <2>1. Sound(answer)
    BY NoParts DEF AnswerInv, AnswerOK
  <2> QED
    BY <2>1, SoundParts DEF PartOK
<1> QED
  BY <1>1, <1>2, <1>3, PTL DEF DetailsSpec

\* parse_parameter and parse_local_variable (dwarf.rs:2529, 3136): an entry with an
\* abstract origin completes the entry of the list it is abstracted from.  Where the
\* entries form a tree and are abstracted as WellAbstracted says, each list of the
\* answer and of what is inlined in it has every entry of the function and its origins
\* once, with its own name where it has one and the locations of that instance alone.
THEOREM DetailsEntriesMerged == DetailsSpec => [](WellMade => EntriesMerged)
<1>1. DetailsInit => AnswerInv
  BY AnswerStart
<1>2. AnswerInv /\ [DetailsNext]_detailsVars => AnswerInv'
  BY AnswerStep
<1>3. AnswerInv => (WellMade => EntriesMerged)
  <2> SUFFICES ASSUME AnswerInv, WellMade, outcome = "done", NEW p \in Parts(answer)
               PROVE  AccountsFor(p)
    BY DEF EntriesMerged
  <2>1. CASE answer = NoDetails
    <3>1. p = NoDetails
      BY <2>1, NoParts
    <3> QED
      BY <3>1, NoParts
  <2>2. CASE Sound(answer)
    <3>1. FullLists(p)
      BY <2>2, SoundParts DEF PartOK
    <3> QED
      BY <3>1, FullListsAccount
  <2> QED
    BY <2>1, <2>2 DEF AnswerInv, AnswerOK
<1> QED
  BY <1>1, <1>2, <1>3, PTL DEF DetailsSpec

\* get_function_details (dwarf.rs:2829) fetches the details of the origin first: where
\* all entries can be read, what the client gets is made of its function and of all of
\* that function's origins, and of nothing that the function does not lead to.
THEOREM DetailsOriginsReached == DetailsSpec => OriginsReached
<1> DEFINE Full == LET top == calls[1].at
                       all == Reached[top] \union {top}
                       readable == \A d \in all : \A x \in Below(d) : ~die[x.at].bad
                   IN  readable =>
                         /\ ToSet(answer'.chain) \subseteq all
                         /\ \A d \in ToSet(answer'.chain) :
                              OriginOf(d) \subseteq ToSet(answer'.chain)
                         /\ top \in ToSet(answer'.chain)
<1>1. DetailsInit => AnswerInv
  BY AnswerStart
<1>2. AnswerInv /\ [DetailsNext]_detailsVars => AnswerInv'
  BY AnswerStep
<1>3. AnswerInv /\ DetailsNext => (outcome' = "done" => Full)
  <2> SUFFICES ASSUME AnswerInv, DetailsNext, outcome' = "done"
               PROVE  Full
    OBVIOUS
  <2> DEFINE top == calls[1].at
             all == Reached[top] \union {top}
             readable == \A d \in all : \A x \in Below(d) : ~die[x.at].bad
  <2> SUFFICES ASSUME readable
               PROVE  /\ ToSet(answer'.chain) \subseteq all
                      /\ \A d \in ToSet(answer'.chain) : OriginOf(d) \subseteq ToSet(answer'.chain)
                      /\ top \in ToSet(answer'.chain)
    OBVIOUS
  <2>1. TreeOK /\ GoodCalls(calls) /\ Built(calls)
    BY DEF AnswerInv, DetailsInv
  <2>2. \A d \in all : \A e \in Near(d) : ~die[e].bad
    BY NearIsBelow
  <2>3. ReturnDetails \/ EntryFails
    BY DEF DetailsNext, FetchOrigin, NoOrigin, TakeParameter, TakeVariable, OpenBlock,
           CallInlined, Descend, SkipEntry, ReturnInlined, Complete, InChildren, Active
  <2>4. ~EntryFails
    <3> SUFFICES ASSUME EntryFails
                 PROVE  FALSE
      OBVIOUS
    <3>1. /\ calls # <<>> /\ Len(calls) \in 1..Len(calls)
          /\ item.at \in Near(inner.at) /\ die[item.at].bad
      BY <2>1, EntryFailsBuilt
    <3>2. inner.at \in all
      <4> DEFINE n == Len(calls)
      <4>1. n \in Nat /\ n \in 1..n /\ inner = calls[n]
        BY <2>1, <3>1, SeqLen DEF GoodCalls, inner
      <4>2. \A i, j \in 1..n : i < j => calls[j].at \in Reached[calls[i].at]
        BY <2>1 DEF GoodCalls
      <4> HIDE DEF n
      <4>3. n = 1 \/ (1 < n /\ 1 \in 1..n)
        BY <4>1
      <4> QED
        BY <4>1, <4>2, <4>3
    <3> QED
      BY <2>2, <3>1, <3>2
  <2>5. Whole(answer', top)
    BY <2>1, <2>3, <2>4, ReturnDetailsBuilt
  <2>6. PICK q : answer'.chain = Append(q, top) /\ Path(q, top)
    BY <2>5 DEF Whole
  <2>7. Readable(top)
    BY <2>2 DEF Readable
  <2> HIDE DEF all, readable
  <2>8. IsSeq(q) /\ \A x \in ToSet(q) : x \in Reached[top]
    BY <2>6, SetOf DEF Path, Functions
  <2>9. \A x : x \in ToSet(answer'.chain) <=> x \in ToSet(q) \/ x = top
    BY <2>6, <2>8, SetOf
  <2>10. \A d \in ToSet(q) \union {top} : OriginOf(d) \subseteq ToSet(q)
    BY <2>6, <2>7 DEF Path
  <2> QED
    BY <2>8, <2>9, <2>10 DEF all
<1>4. AnswerInv /\ [DetailsNext]_detailsVars =>
        [outcome' = "done" /\ ~Cyclic => Full]_detailsVars
  BY <1>3
<1> QED
  BY <1>1, <1>2, <1>4, PTL DEF DetailsSpec, OriginsReached
=============================================================================
