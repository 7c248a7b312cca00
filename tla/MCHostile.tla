------------------------------ MODULE MCHostile -----------------------------
(***************************************************************************)
(* Debug info that no model of a compiler promises: sizes and counts left  *)
(* out, items that overlap or reach past the end of their struct, items at *)
(* odd bits, a virtual base recorded at offset 0, structs that hold        *)
(* themselves, unresolvable offsets.  The types at the offsets 2 and 3 are *)
(* any two of these.                                                       *)
(***************************************************************************)
EXTENDS Translator
C == INSTANCE Compiler

At(off, size, ty) == [off |-> off, size |-> size, ty |-> ty]
Plain(k, path, size, ty, count) == C!Record(k, path, FALSE, size, ty, count, <<>>, <<>>)
Struct(size, members, inherits) ==
  C!Record("struct", C!Named("S"), FALSE, size, 0, None, members, inherits)
Union(size, members) ==
  C!Record("union", C!Named("U"), FALSE, size, 0, None, members, <<>>)
Opaque == Plain("opaque", <<>>, None, 0, None)
IntType == Plain("base", C!Named("int"), 4, 0, None)

\* What may stand at offset k; only members and pointers refer upwards.
Scalars1(k) ==
  {Opaque, Plain("base", C!Named(""), 4, 0, None), Plain("base", C!Named("odd"), None, 0, None)}
    \union {Plain("pointer", <<>>, size, 5 - k, None) : size \in {None, 8}}
    \union {Plain(kd, C!Named("T"), None, k - 1, None) : kd \in {"def", "const"}}
    \union {Plain("enum", C!Named("E"), size, off, None) : size \in {None, 3, 4}, off \in {0, 1}}
    \union {C!Record(kd, C!Named("X"), TRUE, None, 0, None, <<>>, <<>>) :
              kd \in {"struct", "union", "enum"}}

Arrays(k) == {Plain("array", <<>>, size, k - 1, n) : size \in {None, 8}, n \in {None, 0, 2}}

Structs(k) ==
  {Struct(size, m, <<>>) :
     size \in {None, 0, 4},
     m \in {<<>>, <<At(0, None, 1)>>, <<At(0, None, k)>>, <<At(0, None, 1), At(0, None, 5 - k)>>}}
    \union {Struct(8, m, <<>>) :
     m \in {<<At(4, 28, 1)>>, <<At(0, 32, 5 - k)>>, <<At(0, None, 5 - k), At(8, None, 1)>>,
            <<At(96, None, 1)>>, <<At(0, 3, 1), At(3, 32, 1), At(40, None, 5 - k)>>}}
    \union {Struct(8, <<At(0, None, 1)>>, <<At(0, size, 5 - k)>>) : size \in {None, 0}}
    \union {[Struct(8, <<At(32, None, 1)>>, <<>>) EXCEPT !.variants = <<At(0, size, 0)>>] :
              size \in {None, 32}}

Unions(k) ==
  {Union(size, m) : size \in {None, 4},
     m \in {<<>>, <<At(0, 3, 1), At(0, None, 5 - k)>>, <<At(0, None, 1), At(8, None, 1)>>}}

Entries(k) == Scalars1(k) \union Arrays(k) \union Structs(k) \union Unions(k)

MCPrograms ==
  {LET given == <<IntType, a, b>>
   IN  [types |-> Measured([t \in {1} \X (0..3) |->
                              IF t[2] = 0 THEN Opaque ELSE given[t[2]]]),
        typeDb |-> <<>>, dest |-> <<<<1, 3>>, <<1, 2>>>>] : a \in Entries(2), b \in Entries(3)}
=============================================================================
