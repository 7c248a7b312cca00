---------------------------- MODULE MCFunctions -----------------------------
(***************************************************************************)
(* Units of functions that refer to each other in every way.               *)
(***************************************************************************)
EXTENDS MCUnit

\* Functions and at least one local type: any function may refer to any other; one
\* that does has no name of its own.
FunctionUnits ==
  LET trees == {s \in Trees(4, {"function", "struct"}) : \E d \in 1..4 : s[d][1] = "struct"}
  IN  {Unit([d \in 1..4 |->
               Given(c[1][d][1], c[1][d][2], IF c[2][d] = NoEntry THEN d ELSE NoEntry,
                     c[2][d], FALSE, FALSE, NoEntry)], FALSE) :
         c \in Referring(trees, {"function"}, {"function"})}
=============================================================================
