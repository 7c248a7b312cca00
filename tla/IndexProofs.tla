---------------------------- MODULE IndexProofs -----------------------------
(***************************************************************************)
(* Theorems about main(): what the pass over the inputs has collected, and *)
(* that what is proved of the translation holds when it starts from there. *)
(*                                                                         *)
(* The pass is over when nothing is left to visit, so its claims are put   *)
(* for the types visited so far.  They are inductive because the files are *)
(* visited in order: no visited type lies in a file behind the current one.*)
(***************************************************************************)
EXTENDS Clayout, TranslatorProofs

Visited(t) == t[2] \notin left[t[1]]
Named(t) == Index!Indexed(t) /\ ~Index!IsAnon(t)
AskedFor(t) == Index!Indexed(t) /\ Index!IsDest(t)

FilesInOrder ==
  \A f, g \in Inputs : f < g /\ left[g] # Offsets => left[f] = {}

\* What is found under the name n is a definition of that name in the last file
\* visited that has one.
Latest(n) ==
  /\ typeDb[n] \in TypeIndex /\ Visited(typeDb[n])
  /\ Named(typeDb[n]) /\ types[typeDb[n]].path = n
  /\ \A t \in TypeIndex :
       Visited(t) /\ Named(t) /\ types[t].path = n => t[1] <= typeDb[n][1]

IndexInv ==
  /\ types \in [TypeIndex -> Type]
  /\ left \in [Inputs -> SUBSET Offsets]
  /\ FilesInOrder
  /\ \A t \in TypeIndex : Visited(t) /\ Named(t) => types[t].path \in DOMAIN typeDb
  /\ \A n \in DOMAIN typeDb : Latest(n)

DestInv ==
  /\ dest \in Seq(TypeIndex)
  /\ \A t \in TypeIndex :
       Visited(t) /\ AskedFor(t) <=> \E i \in 1..Len(dest) : dest[i] = t
  /\ \A i, j \in 1..Len(dest) : i < j => dest[i] # dest[j] /\ dest[i][1] <= dest[j][1]

\* The pass stands at a type of the first file that has any left.
Stands(f, off) ==
  /\ f \in Inputs /\ off \in left[f]
  /\ \A g \in Inputs : g < f => left[g] = {}

LEMMA CurrentFirst ==
  ASSUME \E f \in Inputs : left[f] # {}
  PROVE  /\ Index!CurrentFile \in Inputs /\ left[Index!CurrentFile] # {}
         /\ \A g \in Inputs : g < Index!CurrentFile => left[g] = {}
<1> DEFINE T == {f \in Inputs : left[f] # {}}
<1>1. T \subseteq Nat /\ T # {}
  BY InputsAssumption
<1>2. PICK m \in T : \A k \in T : m <= k
  BY <1>1, NatMin
<1>3. \A g \in Inputs : g < m => left[g] = {}
  <2> SUFFICES ASSUME NEW g \in Inputs, g < m, left[g] # {}
               PROVE  FALSE
    OBVIOUS
  <2>1. g \in T /\ g \in Nat /\ m \in Nat
    BY InputsAssumption
  <2>2. m <= g
    BY <1>2, <2>1
  <2> QED
    BY <2>1, <2>2
<1>4. m \in Inputs /\ left[m] # {}
  OBVIOUS
<1> QED
  BY <1>3, <1>4 DEF Index!CurrentFile

LEMMA VisitStands ==
  ASSUME Index!Visit
  PROVE  \E f, off : /\ Stands(f, off)
                     /\ left' = [left EXCEPT ![f] = @ \ {off}]
                     /\ dest' = IF AskedFor(<<f, off>>)
                                THEN Append(dest, <<f, off>>) ELSE dest
                     /\ typeDb' = IF Named(<<f, off>>)
                                  THEN Index!Inserted(typeDb, types[<<f, off>>].path, <<f, off>>)
                                  ELSE typeDb
                     /\ UNCHANGED <<types, asked>>
<1>1. \E f \in Inputs : left[f] # {}
  BY DEF Index!Visit
<1>2. PICK off \in left[Index!CurrentFile] :
        LET t == <<Index!CurrentFile, off>>
        IN  /\ left' = [left EXCEPT ![Index!CurrentFile] = @ \ {off}]
            /\ dest' = IF Index!Indexed(t) /\ Index!IsDest(t) THEN Append(dest, t) ELSE dest
            /\ typeDb' = IF Index!Indexed(t) /\ ~Index!IsAnon(t)
                         THEN Index!Inserted(typeDb, types[t].path, t) ELSE typeDb
  BY DEF Index!Visit
<1>3. UNCHANGED <<types, asked>>
  BY DEF Index!Visit
<1>4. Stands(Index!CurrentFile, off)
  BY <1>1, CurrentFirst DEF Stands
<1> QED
  BY <1>2, <1>3, <1>4 DEF AskedFor, Named

\* After a visit the types visited are those before and the one it stood at, and none
\* of those before lies in a later file.
LEMMA VisitedGrows ==
  ASSUME IndexInv, NEW f, NEW off, Stands(f, off), left' = [left EXCEPT ![f] = @ \ {off}]
  PROVE  /\ <<f, off>> \in TypeIndex /\ ~Visited(<<f, off>>)
         /\ \A u \in TypeIndex : Visited(u)' <=> Visited(u) \/ u = <<f, off>>
         /\ \A u \in TypeIndex : Visited(u) => u[1] <= f
         /\ (left \in [Inputs -> SUBSET Offsets] /\ FilesInOrder)'
<1>1. /\ f \in Inputs /\ off \in Offsets /\ f \in Nat /\ off \in left[f]
      /\ left \in [Inputs -> SUBSET Offsets]
  BY InputsAssumption DEF IndexInv, Stands
<1>2. <<f, off>> \in TypeIndex /\ ~Visited(<<f, off>>)
  BY <1>1 DEF TypeIndex, Visited
<1>3. ASSUME NEW u \in TypeIndex
      PROVE  Visited(u)' <=> Visited(u) \/ u = <<f, off>>
  <2>1. PICK g \in Inputs, o \in Offsets : u = <<g, o>>
    BY DEF TypeIndex
  <2>2. CASE g = f
    BY <1>1, <2>1, <2>2 DEF Visited
  <2>3. CASE g # f
    BY <1>1, <2>1, <2>3 DEF Visited
  <2> QED
    BY <2>2, <2>3
<1>4. ASSUME NEW u \in TypeIndex, Visited(u)
      PROVE  u[1] <= f
  <2>1. PICK g \in Inputs, o \in Offsets : u = <<g, o>>
    BY DEF TypeIndex
  <2>2. left[g] # Offsets /\ g \in Nat
    BY <1>4, <2>1, InputsAssumption DEF Visited
  <2>3. ~(f < g)
    BY <1>1, <2>2 DEF IndexInv, FilesInOrder
  <2> QED
    BY <1>1, <2>1, <2>2, <2>3
<1>5. (left \in [Inputs -> SUBSET Offsets])'
  BY <1>1
<1>6. ASSUME NEW g \in Inputs, NEW h \in Inputs, g < h, left'[h] # Offsets
      PROVE  left'[g] = {}
  <2>1. CASE h = f
    <3>1. left[g] = {} /\ g # f
      BY <1>1, <1>6, <2>1, InputsAssumption DEF Stands
    <3> QED
      BY <1>1, <3>1
  <2>2. CASE h # f
    <3>1. left[h] # Offsets
      BY <1>1, <1>6, <2>2
    <3>2. left[g] = {}
      BY <1>6, <3>1 DEF IndexInv, FilesInOrder
    <3> QED
      BY <1>1, <3>2
  <2> QED
    BY <2>1, <2>2
<1> QED
  BY <1>2, <1>3, <1>4, <1>5, <1>6 DEF FilesInOrder

LEMMA VisitIndexes ==
  ASSUME IndexInv, Index!Visit
  PROVE  IndexInv'
<1>1. PICK f, off :
        /\ Stands(f, off)
        /\ left' = [left EXCEPT ![f] = @ \ {off}]
        /\ typeDb' = IF Named(<<f, off>>)
                     THEN Index!Inserted(typeDb, types[<<f, off>>].path, <<f, off>>) ELSE typeDb
        /\ UNCHANGED <<types, asked>>
  BY VisitStands
<1> DEFINE t == <<f, off>>
<1>2. /\ t \in TypeIndex /\ ~Visited(t)
      /\ \A u \in TypeIndex : Visited(u)' <=> Visited(u) \/ u = t
      /\ \A u \in TypeIndex : Visited(u) => u[1] <= f
      /\ (left \in [Inputs -> SUBSET Offsets] /\ FilesInOrder)'
  BY <1>1, VisitedGrows
<1>3. \A u : Named(u)' <=> Named(u)
  BY <1>1 DEF Named, Index!Indexed, Index!HasTypeName, Index!IsAnon
<1>4. t[1] = f /\ f \in Int
  BY <1>1, InputsAssumption DEF Stands
<1>5. types' = types
  BY <1>1
<1>6. \A u \in TypeIndex : Visited(u) /\ Named(u) => types[u].path \in DOMAIN typeDb
  BY DEF IndexInv
<1>7. \A n \in DOMAIN typeDb : Latest(n)
  BY DEF IndexInv
<1>8. types \in [TypeIndex -> Type]
  BY DEF IndexInv
<1>9. typeDb' = IF Named(t) THEN Index!Inserted(typeDb, types[t].path, t) ELSE typeDb
  BY <1>1
<1> HIDE DEF t
<1>10. ASSUME NEW n, NEW w \in TypeIndex, typeDb'[n] = w,
              Visited(w)', Named(w), types[w].path = n,
              \A u \in TypeIndex :
                Visited(u)' /\ Named(u) /\ types[u].path = n => u[1] <= w[1]
       PROVE  Latest(n)'
  <2>1. Visited(typeDb[n])'
    BY <1>10 DEF Visited
  <2>2. Named(typeDb[n])'
    BY <1>5, <1>10 DEF Named, Index!Indexed, Index!HasTypeName, Index!IsAnon
  <2> QED
    BY <1>3, <1>5, <1>10, <2>1, <2>2 DEF Latest, TypeIndex
<1>11. \/ Named(t) /\ DOMAIN typeDb' = DOMAIN typeDb \union {types[t].path}
       \/ ~Named(t) /\ typeDb' = typeDb
  BY <1>9 DEF Index!Inserted
<1>12. ASSUME NEW n \in DOMAIN typeDb'
       PROVE  Latest(n)'
  <2>1. CASE Named(t) /\ types[t].path = n
    <3>1. typeDb'[n] = t
      BY <1>9, <1>12, <2>1 DEF Index!Inserted
    <3>2. \A u \in TypeIndex : Visited(u)' => u[1] <= t[1]
      BY <1>2, <1>4
    <3> QED
      BY <1>2, <1>10, <2>1, <3>1, <3>2
  <2>2. CASE ~(Named(t) /\ types[t].path = n)
    <3>1. n \in DOMAIN typeDb /\ typeDb'[n] = typeDb[n]
      BY <1>9, <1>12, <2>2 DEF Index!Inserted
    <3>2. PICK w \in TypeIndex : w = typeDb[n]
      BY <1>7, <3>1 DEF Latest
    <3>3. /\ Visited(w) /\ Named(w) /\ types[w].path = n
          /\ \A u \in TypeIndex :
               Visited(u) /\ Named(u) /\ types[u].path = n => u[1] <= w[1]
      <4>1. Latest(n)
        BY <1>7, <3>1
      <4> QED
        BY <3>2, <4>1 DEF Latest, Visited, Named
    <3>4. Visited(w)'
      BY <1>2, <3>3
    <3>5. \A u \in TypeIndex : Visited(u)' /\ Named(u) /\ types[u].path = n => u[1] <= w[1]
      BY <1>2, <2>2, <3>3
    <3> QED
      BY <1>10, <3>1, <3>2, <3>3, <3>4, <3>5
  <2> QED
    BY <2>1, <2>2
<1>13. ASSUME NEW u \in TypeIndex, Visited(u)', Named(u)'
       PROVE  types[u].path \in DOMAIN typeDb'
  BY <1>2, <1>3, <1>6, <1>11, <1>13
<1> QED
  BY <1>2, <1>5, <1>8, <1>12, <1>13 DEF IndexInv

LEMMA VisitCollects ==
  ASSUME IndexInv, DestInv, Index!Visit
  PROVE  DestInv'
<1>1. PICK f, off :
        /\ Stands(f, off)
        /\ left' = [left EXCEPT ![f] = @ \ {off}]
        /\ dest' = IF AskedFor(<<f, off>>) THEN Append(dest, <<f, off>>) ELSE dest
        /\ UNCHANGED <<types, asked>>
  BY VisitStands
<1> DEFINE t == <<f, off>>
<1>2. /\ t \in TypeIndex /\ ~Visited(t)
      /\ \A u \in TypeIndex : Visited(u)' <=> Visited(u) \/ u = t
      /\ \A u \in TypeIndex : Visited(u) => u[1] <= f
  BY <1>1, VisitedGrows
<1>3. \A u : AskedFor(u)' <=> AskedFor(u)
  BY <1>1 DEF AskedFor, Index!Indexed, Index!HasTypeName, Index!IsDest, Index!EndsWith,
              Index!StartsWith
<1>4. t[1] = f
  OBVIOUS
<1>5. dest' = IF AskedFor(t) THEN Append(dest, t) ELSE dest
  BY <1>1
<1> HIDE DEF t
<1>6. /\ dest \in Seq(TypeIndex)
      /\ \A u \in TypeIndex : Visited(u) /\ AskedFor(u) <=> \E i \in 1..Len(dest) : dest[i] = u
      /\ \A i, j \in 1..Len(dest) : i < j => dest[i] # dest[j] /\ dest[i][1] <= dest[j][1]
  BY DEF DestInv
<1>7. CASE ~AskedFor(t)
  <2>1. \A u \in TypeIndex : Visited(u)' /\ AskedFor(u)' <=> Visited(u) /\ AskedFor(u)
    BY <1>2, <1>3, <1>7
  <2>2. dest' = dest
    BY <1>5, <1>7
  <2> QED
    BY <1>6, <2>1, <2>2 DEF DestInv
<1>8. CASE AskedFor(t)
  <2>1. dest' = Append(dest, t)
    BY <1>5, <1>8
  <2>2. /\ dest' \in Seq(TypeIndex) /\ Len(dest) \in Nat /\ Len(dest') = Len(dest) + 1
        /\ \A i \in 1..Len(dest) : dest'[i] = dest[i]
        /\ dest'[Len(dest) + 1] = t
    BY <1>2, <1>6, <2>1, AppendProperties, LenProperties
  <2>3. \A i \in 1..Len(dest') : i \in 1..Len(dest) \/ i = Len(dest) + 1
    BY <2>2
  <2>4. ASSUME NEW u \in TypeIndex
        PROVE  Visited(u)' /\ AskedFor(u)' <=> \E i \in 1..Len(dest') : dest'[i] = u
    <3>1. (\E i \in 1..Len(dest') : dest'[i] = u)
             <=> (\E i \in 1..Len(dest) : dest[i] = u) \/ u = t
      BY <2>2, <2>3
    <3> QED
      BY <1>2, <1>3, <1>6, <1>8, <3>1
  <2>5. ASSUME NEW i \in 1..Len(dest'), NEW j \in 1..Len(dest'), i < j
        PROVE  dest'[i] # dest'[j] /\ dest'[i][1] <= dest'[j][1]
    <3>1. i \in 1..Len(dest)
      BY <2>2, <2>5
    <3>2. CASE j \in 1..Len(dest)
      BY <1>6, <2>2, <2>5, <3>1, <3>2
    <3>3. CASE j = Len(dest) + 1
      <4>1. dest[i] \in TypeIndex
        BY <1>6, <3>1
      <4>2. Visited(dest[i])
        BY <1>6, <3>1, <4>1
      <4> QED
        BY <1>2, <1>4, <2>2, <3>1, <3>3, <4>1, <4>2
    <3> QED
      BY <2>3, <3>2, <3>3
  <2> QED
    BY <2>2, <2>4, <2>5 DEF DestInv
<1> QED
  BY <1>7, <1>8
-----------------------------------------------------------------------------
(***************************************************************************)
(* The whole program.  The translation starts with a call stack, a memo    *)
(* and a header that are empty, and with the index the pass has made; from *)
(* there its own invariants hold.                                          *)
(***************************************************************************)
NothingTranslated == processed = <<>> /\ stack = <<>> /\ printer.header = <<>>

ProgramInv ==
  /\ IndexInv
  /\ status = "indexing" => NothingTranslated /\ DestInv
  /\ status # "indexing" => TypeInv /\ DefInv

LEMMA IndexStart ==
  ASSUME ProgramInit
  PROVE  ProgramInv
<1>1. /\ types \in [TypeIndex -> Type] /\ typeDb = <<>> /\ dest = <<>>
      /\ left = [f \in Inputs |-> Offsets] /\ NothingTranslated /\ status = "indexing"
  BY FilesAssumption DEF ProgramInit, Index!IndexInit, NothingTranslated
<1>2. \A t \in TypeIndex : ~Visited(t)
  BY <1>1 DEF TypeIndex, Visited
<1>3. IndexInv
  <2>1. DOMAIN typeDb = {}
    BY <1>1, SeqEmpty, SeqLen
  <2> QED
    BY <1>1, <1>2, <2>1 DEF IndexInv, FilesInOrder
<1>4. DestInv
  BY <1>1, <1>2, EmptySeq DEF DestInv
<1> QED
  BY <1>1, <1>3, <1>4 DEF ProgramInv

LEMMA StepRuns ==
  ASSUME Step
  PROVE  status = "running"
  BY DEF Step, StartDest, Call, ProcessOpaque, ProcessBase, ProcessEnum, Refuse,
         UnknownDeclaration, ProcessLink, ProcessPointer, ProcessArray, EmitStruct,
         EmitUnion, SkipEmpty, TakeBytes, TakeMember, InLoop, Running,
         DestAlreadyProcessed, AssertionFails, MemberUnderflows, Finish

LEMMA WriteRuns ==
  ASSUME WriteFails
  PROVE  status = "running"
  BY DEF WriteFails, Running

\* What the index holds does not depend on the translation.
LEMMA IndexKept ==
  ASSUME IndexInv, UNCHANGED <<types, typeDb, left>>
  PROVE  IndexInv'
<1>1. \A t : (Visited(t)' <=> Visited(t)) /\ (Named(t)' <=> Named(t))
  BY DEF Visited, Named, Index!Indexed, Index!HasTypeName, Index!IsAnon
<1>2. ASSUME NEW n \in DOMAIN typeDb
      PROVE  Latest(n)'
  <2>1. Latest(n)
    BY DEF IndexInv
  <2>2. Visited(typeDb[n])'
    BY <2>1 DEF Latest, Visited
  <2>3. Named(typeDb[n])'
    BY <2>1 DEF Latest, Named, Index!Indexed, Index!HasTypeName, Index!IsAnon
  <2> QED
    BY <1>1, <2>1, <2>2, <2>3 DEF Latest, TypeIndex
<1> QED
  BY <1>1, <1>2 DEF IndexInv, FilesInOrder

LEMMA DestKept ==
  ASSUME DestInv, UNCHANGED <<types, left, asked, dest>>
  PROVE  DestInv'
<1>1. \A t : (Visited(t)' <=> Visited(t)) /\ (AskedFor(t)' <=> AskedFor(t))
  BY DEF Visited, AskedFor, Index!Indexed, Index!HasTypeName, Index!IsDest, Index!EndsWith,
         Index!StartsWith
<1> QED
  BY <1>1 DEF DestInv

LEMMA IndexFixed ==
  ASSUME Step \/ WriteFails
  PROVE  UNCHANGED <<types, typeDb>>
  BY DEF Step, StartDest, Call, ProcessOpaque, ProcessBase, ProcessEnum, Refuse,
         UnknownDeclaration, ProcessLink, ProcessPointer, ProcessArray, EmitStruct,
         EmitUnion, SkipEmpty, TakeBytes, TakeMember, Advance, WriteFails,
         DestAlreadyProcessed, AssertionFails, MemberUnderflows, Panic, Finish

\* An empty call stack and an empty header are what the translation starts from.
LEMMA Started ==
  ASSUME IndexInv, NothingTranslated, DestInv
  PROVE  CallInv /\ DefInv /\ InputOK
         /\ DOMAIN processed = {} /\ Len(stack) = 0 /\ HeaderOK(printer.header)
<1>1. /\ processed = <<>> /\ stack = <<>> /\ printer.header = <<>>
      /\ DOMAIN processed = {} /\ Len(stack) = 0 /\ IsSeq(stack)
  BY SeqEmpty, SeqLen DEF NothingTranslated
<1>2. CallInv
  BY <1>1 DEF CallInv, Placeholders, NoReentry
<1>3. DefInv
  BY <1>1, <1>2, SeqEmpty DEF DefInv, InOrder, header
<1>4. InputOK
  BY DEF InputOK, IndexInv, Latest, DestInv
<1>5. HeaderOK(printer.header)
  BY <1>1, SeqEmpty DEF HeaderOK
<1> QED
  BY <1>1, <1>2, <1>3, <1>4, <1>5

LEMMA OpenStarts ==
  ASSUME ProgramInv, Open \/ OpenFails
  PROVE  ProgramInv'
<1>1. /\ status = "indexing" /\ status' \in {"running", "failed"}
      /\ UNCHANGED <<types, typeDb, dest, processed, stack, printer, left, asked>>
  BY DEF Open, OpenFails
<1>2. IndexInv /\ NothingTranslated /\ DestInv
  BY <1>1 DEF ProgramInv
<1>3. (IndexInv /\ NothingTranslated /\ DestInv)'
  <2>1. NothingTranslated'
    BY <1>1, <1>2 DEF NothingTranslated
  <2>2. DestInv'
    BY <1>1, <1>2, DestKept
  <2> QED
    BY <1>1, <1>2, <2>1, <2>2, IndexKept
<1>4. (CallInv /\ DefInv /\ InputOK
         /\ DOMAIN processed = {} /\ Len(stack) = 0 /\ HeaderOK(printer.header))'
  BY <1>3, Started, PTL
<1>5. TypeInv'
  BY <1>1, <1>4 DEF TypeInv
<1> QED
  BY <1>1, <1>3, <1>4, <1>5 DEF ProgramInv

LEMMA ProgramKeeps ==
  ASSUME ProgramInv, [ProgramNext]_programVars
  PROVE  ProgramInv'
<1>1. CASE IndexStep
  <2>1. status = "indexing" /\ Index!Visit /\ UNCHANGED <<processed, stack, printer, status>>
    BY <1>1 DEF IndexStep
  <2>2. IndexInv' /\ DestInv'
    BY <2>1, VisitIndexes, VisitCollects DEF ProgramInv
  <2> QED
    BY <2>1, <2>2 DEF ProgramInv, NothingTranslated
<1>2. CASE Open \/ OpenFails
  BY <1>2, OpenStarts
<1>3. CASE Translate \/ TranslateFails
  <2>1. status = "running" /\ (Step \/ WriteFails) /\ UNCHANGED left
    BY <1>3, StepRuns, WriteRuns DEF Translate, TranslateFails
  <2>2. IndexInv'
    BY <2>1, IndexKept, IndexFixed DEF ProgramInv
  <2>3. [Next]_vars
    BY <2>1 DEF Next
  <2>4. TypeInv' /\ DefInv'
    BY <2>1, <2>3, TypeStep, DefStep DEF ProgramInv
  <2>5. status' # "indexing"
    BY <2>4 DEF TypeInv
  <2> QED
    BY <2>2, <2>4, <2>5 DEF ProgramInv
<1>4. CASE UNCHANGED programVars
  <2>1. UNCHANGED vars /\ UNCHANGED <<left, asked>>
    BY <1>4 DEF programVars
  <2>2. UNCHANGED <<types, typeDb, dest, processed, stack, printer, status>>
    BY <2>1 DEF vars
  <2>3. IndexInv'
    BY <2>1, <2>2, IndexKept DEF ProgramInv
  <2>4. CASE status = "indexing"
    <3>1. DestInv'
      BY <2>1, <2>2, <2>4, DestKept DEF ProgramInv
    <3> QED
      BY <2>2, <2>3, <2>4, <3>1 DEF ProgramInv, NothingTranslated
  <2>5. CASE status # "indexing"
    <3>1. TypeInv' /\ DefInv'
      BY <2>1, <2>5, TypeStep, DefStep DEF ProgramInv
    <3> QED
      BY <2>2, <2>3, <2>5, <3>1 DEF ProgramInv
  <2> QED
    BY <2>4, <2>5
<1> QED
  BY <1>1, <1>2, <1>3, <1>4 DEF ProgramNext, ProgramStep, Ended

LEMMA ProgramInvHolds == ProgramSpec => []ProgramInv
  BY IndexStart, ProgramKeeps, PTL DEF ProgramSpec

\* For any inputs whatever: when the pass is over every named definition is found by
\* its name, and what is found is a definition of that name in the last file that has one.
THEOREM IndexIsComplete == ProgramSpec => []IndexComplete
<1>1. ProgramInv => IndexComplete
  <2> SUFFICES ASSUME IndexInv, Index!AllVisited
               PROVE  /\ \A t \in TypeIndex :
                           Named(t) => types[t].path \in DOMAIN typeDb
                      /\ \A n \in DOMAIN typeDb :
                           /\ types[typeDb[n]].path = n /\ ~types[typeDb[n]].decl
                           /\ \A t \in TypeIndex :
                                Named(t) /\ types[t].path = n => t[1] <= typeDb[n][1]
    BY DEF ProgramInv, IndexComplete, Index!IndexComplete, Named, TypeIndex, Index!TypeIndex
  <2>1. \A t \in TypeIndex : Visited(t)
    BY DEF Index!AllVisited, Visited, TypeIndex
  <2>2. \A n \in DOMAIN typeDb : ~types[typeDb[n]].decl
    BY DEF IndexInv, Latest, Named, Index!Indexed
  <2> QED
    BY <2>1, <2>2 DEF IndexInv, Latest
<1> QED
  BY <1>1, ProgramInvHolds, PTL

\* For any inputs and queries: the translation is handed every definition asked for, each
\* once, in the order of the files.
THEOREM DestsAreComplete == ProgramSpec => []DestsComplete
<1>1. ProgramInv => DestsComplete
  <2> SUFFICES ASSUME DestInv, Index!AllVisited
               PROVE  /\ ToSet(dest) = {t \in TypeIndex : AskedFor(t)}
                      /\ \A i, j \in 1..Len(dest) :
                           i < j => dest[i] # dest[j] /\ dest[i][1] <= dest[j][1]
    BY DEF ProgramInv, DestsComplete, Index!DestsComplete, AskedFor, TypeIndex,
           Index!TypeIndex, Index!ToSet, ToSet
  <2>1. \A t \in TypeIndex : Visited(t)
    BY DEF Index!AllVisited, Visited, TypeIndex
  <2>2. dest \in Seq(TypeIndex)
    BY DEF DestInv
  <2>3. DOMAIN dest = 1..Len(dest) /\ \A i \in 1..Len(dest) : dest[i] \in TypeIndex
    BY <2>2, LenProperties
  <2>4. ToSet(dest) = {t \in TypeIndex : AskedFor(t)}
    <3>1. \A t \in TypeIndex : AskedFor(t) <=> \E i \in 1..Len(dest) : dest[i] = t
      BY <2>1 DEF DestInv
    <3> QED
      BY <2>3, <3>1 DEF ToSet
  <2> QED
    BY <2>4 DEF DestInv
<1> QED
  BY <1>1, ProgramInvHolds, PTL

\* The program as a whole, from the files to the header: a compiler accepts the header,
\* the recursion ends at every cycle of types, and the translation is the walk.
THEOREM ProgramCompiles ==
  ProgramSpec => [](CompilesInOrder /\ NoReentry) /\ WalksOnce
<1>1. ProgramInv => CompilesInOrder /\ NoReentry
  <2>1. ASSUME IndexInv, NothingTranslated, DestInv
        PROVE  DefInv
    BY <2>1, Started
  <2>2. DefInv => CompilesInOrder /\ NoReentry
    BY DEF DefInv, InOrder, CompilesInOrder, header, CallInv
  <2> QED
    BY <2>1, <2>2 DEF ProgramInv
<1>2. ProgramInit => Walked!WalkInit
  <2> SUFFICES ASSUME ProgramInit
               PROVE  Walked!WalkInit
    OBVIOUS
  <2>1. stack = <<>> /\ printer.header = <<>> /\ processed = <<>>
    BY DEF ProgramInit
  <2>2. Len(stack) = 0 /\ Len(printer.header) = 0
    BY <2>1, SeqEmpty
  <2>3. OpenTypes = <<>> /\ Owners = <<>>
    BY <2>2 DEF OpenTypes, Owners
  <2> QED
    BY <2>1, <2>3 DEF Walked!WalkInit
<1>3. ProgramInv /\ [ProgramNext]_programVars => [Walked!WalkNext]_(Walked!walkVars)
  <2> SUFFICES ASSUME ProgramInv, [ProgramNext]_programVars
               PROVE  [Walked!WalkNext]_(Walked!walkVars)
    OBVIOUS
  <2>1. CASE UNCHANGED <<processed, stack, printer>>
    <3>1. UNCHANGED <<OpenTypes, Owners>>
      BY <2>1 DEF OpenTypes, Owners
    <3> QED
      BY <2>1, <3>1 DEF Walked!walkVars
  <2>2. CASE IndexStep \/ Open \/ OpenFails
    BY <2>1, <2>2 DEF IndexStep, Open, OpenFails
  <2>3. CASE Translate \/ TranslateFails
    <3>1. status = "running" /\ [Next]_vars
      BY <2>3, StepRuns, WriteRuns DEF Translate, TranslateFails, Next
    <3> QED
      BY <3>1, WalkStep DEF ProgramInv
  <2>4. CASE UNCHANGED programVars
    BY <2>1, <2>4 DEF programVars, vars
  <2> QED
    BY <2>2, <2>3, <2>4 DEF ProgramNext, ProgramStep, Ended
<1> QED
  BY <1>1, <1>2, <1>3, ProgramInvHolds, PTL DEF ProgramSpec, WalksOnce, Walked!WalkSpec
=============================================================================
