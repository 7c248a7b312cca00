------------------------------- MODULE MCGraph ------------------------------
(***************************************************************************)
(* Files of a long and three types that refer to each other in every way   *)
(* the language allows, through pointers in cycles too, translated for one *)
(* or two destinations in any order; and the files of MCNames.             *)
(***************************************************************************)
EXTENDS MCNames

\* What refers to an earlier type by value refers to the last ones.
Shapes(k, name) ==
  LET low == IF k = 2 THEN {1} ELSE 2..(k - 1)
  IN  {C!Pointer(j) : j \in 2..4} \union {C!Const(j) : j \in low}
        \union {C!Typedef(name, j) : j \in low} \union {C!Array(j, 2) : j \in low}
        \union {C!Class(name, <<>>, <<j>>) : j \in low}

Files == {<<C!Base("long int", 8), a, b, c>> :
            a \in Shapes(2, "A"), b \in Shapes(3, "B"), c \in Shapes(4, "C")}

Dests == {<<<<1, 4>>>>, <<<<1, 3>>, <<1, 4>>>>, <<<<1, 4>>, <<1, 2>>>>}

GraphPrograms ==
  UNION {LET compiled == C!Compile(<<f>>)
         IN  {[types |-> compiled, typeDb |-> <<>>, dest |-> d] : d \in Dests} : f \in Files}

MCPrograms == GraphPrograms \union NamePrograms
=============================================================================
