------------------------------ MODULE MCStatic ------------------------------
(***************************************************************************)
(* One C++ file whose unit does not keep all its variables.                *)
(***************************************************************************)
EXTENDS MCUnit

\* struct S { static int x; }; int S::x;  as DWARF 5 records it.
StaticMember ==
  {Unit(<<Given("struct", 0, 1, NoEntry, FALSE, FALSE, NoEntry),
          Given("variable", 1, 2, NoEntry, FALSE, TRUE, NoEntry),
          Given("variable", 0, NoEntry, 2, FALSE, FALSE, NoEntry)>>, FALSE)}
=============================================================================
