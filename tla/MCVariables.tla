---------------------------- MODULE MCVariables -----------------------------
(***************************************************************************)
(* Units of variables that refer to each other in every way.               *)
(***************************************************************************)
EXTENDS MCUnit

\* Variables of namespaces and static members: a definition may refer to a variable
\* before or after it, to one that is itself a definition, or to another unit.
VariableUnits ==
  {Unit([d \in 1..4 |->
           Given(c[1][d][1], c[1][d][2], IF c[2][d] = NoEntry THEN d ELSE NoEntry,
                 c[2][d], FALSE, c[1][d][1] = "member", NoEntry)], FALSE) :
     c \in Referring(Trees(4, {"namespace", "struct", "variable", "member"}),
                     {"variable"}, {"variable", "member"})}
=============================================================================
