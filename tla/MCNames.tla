------------------------------- MODULE MCNames ------------------------------
(***************************************************************************)
(* Three enumerations whose qualified names clash in every way short of a  *)
(* suffix the translator would add itself, and an                          *)
(* array of the last one, all translated in one run.                       *)
(***************************************************************************)
EXTENDS Translator
C == INSTANCE Compiler

Piece(text, ident, scope) == [text |-> text, ident |-> ident, scope |-> scope]
Space1 == Piece("a", "a", "namespace")
NoName == Piece("", "", "namespace")
Type1(text, ident) == Piece(text, ident, "type")

Paths == {<<Type1("A", "A")>>, <<Space1, Type1("A", "A")>>, <<Space1, Type1("A<int>", "A")>>,
          <<Type1("a_A", "a_A")>>, <<NoName, Type1("A", "A")>>, <<Space1, Type1("", "")>>,
          <<Piece("f", "f", "function"), Type1("A", "A")>>, <<Type1("A_Array2", "A_Array2")>>}

Enumeration(path) == C!Record("enum", path, FALSE, 4, 0, None, <<>>, <<>>)
Elements == C!Record("array", <<>>, FALSE, None, 3, 2, <<>>, <<>>)

Void == C!Record("opaque", <<>>, FALSE, 0, 0, None, <<>>, <<>>)
File(p, q, r) == <<Enumeration(p), Enumeration(q), Enumeration(r), Elements>>

NamePrograms ==
  {[types |-> Measured([t \in {1} \X (0..4) |->
                          IF t[2] = 0 THEN Void ELSE File(p, q, r)[t[2]]]),
    typeDb |-> <<>>, dest |-> <<<<1, 1>>, <<1, 2>>, <<1, 4>>>>] : p, q, r \in Paths}
=============================================================================
