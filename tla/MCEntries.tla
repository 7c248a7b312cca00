----------------------------- MODULE MCEntries ------------------------------
(***************************************************************************)
(* Units with every kind of entry: parameters that complete others, Rust   *)
(* enums, and everything inside everything that may hold it.               *)
(***************************************************************************)
EXTENDS MCUnit

\* An abstract function and an instance of it, in both orders, of two parameters
\* each; a parameter of the instance may complete one of the abstract function.
ParameterUnits ==
  {Unit([d \in 1..6 |->
           CASE d = i -> Given("function", 0, NoEntry, 5 - i, origin, FALSE, NoEntry)
             [] d = 5 - i -> Given("function", 0, d, NoEntry, FALSE, FALSE, NoEntry)
             [] d \in {i + 1, i + 2} ->
                  LET own == completes[d - i]
                  IN  Given("parameter", i, IF named[d - i] THEN d ELSE NoEntry,
                            IF own \in 1..2 THEN 5 - i + own ELSE own, own # NoEntry,
                            FALSE, NoEntry)
             [] OTHER -> Given("parameter", 5 - i, d, NoEntry, FALSE, FALSE, NoEntry)], FALSE) :
     i \in {1, 4}, origin \in BOOLEAN, named \in [1..2 -> BOOLEAN],
     completes \in [1..2 -> {NoEntry, 0, 1, 2}]}

\* Every kind of entry inside every other that may hold it.
KindUnits ==
  {Unit([d \in 1..3 |-> Given(s[d][1], s[d][2], d, NoEntry, FALSE, FALSE, NoEntry)], FALSE) :
     s \in Trees(3, Tags \ {"unit", "part", "variant"})}

\* An enum as Rust records it: a variant part whose variants wrap a struct.
EnumUnits ==
  {Unit(<<Given("struct", 0, 1, NoEntry, FALSE, FALSE, NoEntry),
          Given("part", 1, NoEntry, NoEntry, FALSE, FALSE, NoEntry),
          Given("member", 2, 3, NoEntry, FALSE, FALSE, NoEntry),
          Given("variant", 2, NoEntry, NoEntry, FALSE, FALSE, NoEntry),
          Given("member", 4, 5, NoEntry, FALSE, FALSE, ty),
          Given(held, 1, 6, NoEntry, FALSE, FALSE, NoEntry),
          Given("member", 6, 7, NoEntry, FALSE, FALSE, NoEntry),
          Given("member", 6, 8, NoEntry, FALSE, FALSE, NoEntry)>>, rust) :
     ty \in {NoEntry, 0, 6}, held \in {"struct", "union"}, rust \in BOOLEAN}

EntryUnits == ParameterUnits \union KindUnits \union EnumUnits
=============================================================================
