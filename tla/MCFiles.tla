------------------------------- MODULE MCFiles ------------------------------
(***************************************************************************)
(* Two inputs that refer to each other's types: what one only declares the *)
(* other may define, at the same offset or not at all.  X has tail padding *)
(* that its derived class Y reuses, also in a file that only declares X.   *)
(***************************************************************************)
EXTENDS Clayout
C == INSTANCE Compiler

X == C!Class("X", <<>>, <<2, 1>>)
Y == C!Class("Y", <<3>>, <<1>>)
Aside == {C!Pointer(3), C!Enum("E", 4), C!Forward("enum", "E", C!Metric(4, 4, 4)),
          C!Union("U", <<2, 1>>), C!Forward("union", "U", C!Metric(8, 8, 8)),
          C!Enum("", 4), C!Union("", <<2>>)}

\* A char, a long, then X, one more type, and Y, which may hold the latter.
FileShapes ==
  {<<C!Base("char", 1), C!Base("long int", 8), x, z, y>> :
     x \in {X, C!Forward("struct", "X", C!Metric(16, 8, 9))},
     y \in {Y, C!Class("Y", <<3>>, <<4>>), C!Forward("struct", "Y", C!Metric(16, 8, 10))},
     z \in Aside}

MCFileSet == {C!Compile(<<f, g>>) : f, g \in FileShapes}
MCQueries == {{<<"Y">>}}
=============================================================================
