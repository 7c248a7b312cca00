------------------------------ MODULE MCLayout ------------------------------
(***************************************************************************)
(* Translating files of five types: a char, a long, and three types that   *)
(* hold earlier ones by value as members, bases, elements or alternatives. *)
(***************************************************************************)
EXTENDS Translator
C == INSTANCE Compiler

Scalars2 == <<C!Base("char", 1), C!Base("long int", 8)>>

\* Every shape that the type at offset k may have.
Simple(k, name) ==
  LET low == 1..(k - 1)
  IN  {C!Class(name, <<>>, m) : m \in {<<>>} \union (low \X low)}
        \union {C!Bits(name, <<i>>) : i \in low}
        \union {C!Union(name, <<2, 1>>)}

\* Each of the last two types holds the one before it: what does not is a smaller
\* program, which is among these too.
Compound(k, name) ==
  LET j == k - 1
  IN  {C!Class(name, <<>>, m) : m \in ((1..j) \X {j}) \union ({j} \X (1..j)) \union {<<j>>}}
        \union {C!Class(name, <<j>>, m) : m \in {<<>>, <<1>>, <<2>>}}
        \union {C!Union(name, <<1, j>>), C!Bits(name, <<j>>), C!Array(j, 2)}

\* An empty base beside a first member as small as it (EmptyBase in MCFindings).
EmptyBaseHidesMember(file) ==
  LET m == C!Metrics(file)
  IN  \E k \in 1..Len(file) :
        /\ file[k].shape = "struct" /\ file[k].bases # <<>> /\ file[k].members # <<>>
        /\ m[file[k].bases[1]].data = 0
        /\ m[file[k].members[1]].size = 1

BasesAreClasses(file) ==
  \A k \in 1..Len(file) :
    file[k].shape = "struct" =>
      \A i \in 1..Len(file[k].bases) : file[file[k].bases[i]].shape \in {"struct", "bits"}

Files == {Scalars2 \o <<a, b, c>> :
            a \in Simple(3, "A"), b \in Compound(4, "B"), c \in Compound(5, "C")}

MCPrograms ==
  {[types |-> C!Compile(<<f>>), typeDb |-> <<>>, dest |-> <<<<1, 5>>>>] :
     f \in {g \in Files : BasesAreClasses(g) /\ ~EmptyBaseHidesMember(g)}}

\* What AssertionsHold in TranslatorProofs is told of its input, these inputs satisfy.
ASSUME WellSizedAssumption == \A p \in MCPrograms : WellSized(p.types)
=============================================================================
