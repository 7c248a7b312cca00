-------------------------------- MODULE MCCfi --------------------------------
(***************************************************************************)
(* Lookups: descriptions that overlap, nest, begin together, are empty or  *)
(* cannot be parsed, in any order.  Programs: any three instructions of    *)
(* the kinds that differ, with a change of the location between them.      *)
(***************************************************************************)
EXTENDS Cfi

Instr(name, reg, n) == [name |-> name, reg |-> reg, n |-> n, factored |-> FALSE]
Factored(name, reg, n) == [name |-> name, reg |-> reg, n |-> n, factored |-> TRUE]
Advance == Instr("advance_loc", 0, 1)

Cie(program) == [code |-> 2, data |-> -4, program |-> program]
WholeCie == Cie(<<Instr("def_cfa", 7, 8), Factored("offset", 16, 1), Instr("nop", 0, 0)>>)
CutCie == Cie(<<Instr("def_cfa", 7, 8), Instr("unreadable", 0, 0), Factored("offset", 16, 1)>>)

Fde(begin, len, readable, has, cie, program) ==
  [begin |-> begin, len |-> len, parses |-> readable # "never", usable |-> readable = "always",
   has |-> has, cie |-> cie, program |-> program]

Plain(begin, len, readable) == Fde(begin, len, readable, {}, WholeCie, <<Advance>>)
Plains == {Plain(b, l, r) : b \in {1, 3, 4}, l \in {0, 2, 4}, r \in {"always", "once", "never"}}
AskedAt(a) == [begin |-> a, end |-> a + 1]

Lookups ==
  {[eh |-> <<x, y>>, debug |-> <<z>>, asked |-> AskedAt(a)] :
     x \in Plains, y \in Plains, z \in {Plain(3, 2, "always"), Plain(1, 4, "once")},
     a \in {0, 3, 4}}
  \union {[eh |-> [k \in 1..3 |-> Plain(b[k], 1, "always")], debug |-> <<>>,
           asked |-> AskedAt(a)] : a \in 0..3, b \in [1..3 -> 0..3]}

Instructions ==
  {Advance, Instr("set_loc", 0, 14), Instr("def_cfa", 6, 16), Factored("def_cfa", 6, -2),
   Instr("def_cfa_offset", 0, 24), Factored("offset", 6, 2), Instr("restore", 16, 0),
   Factored("val_offset", 16, 3), Instr("remember_state", 0, 0), Instr("restore_state", 0, 0),
   Instr("unreadable", 0, 0), Instr("def_cfa_register", 5, 0), Instr("undefined", 16, 0),
   Instr("expression", 16, 0), Instr("def_cfa_expression", 0, 0), Instr("register", 16, 5)}

OneFde(has, cie, program) ==
  [eh |-> <<Fde(10, 6, "always", has, cie, program)>>, debug |-> <<>>, asked |-> AskedAt(10)]

\* The same set: TLC sorts what it filters, and joins sorted sets in no time.
Sorted(S) == {x \in S : TRUE}

LongPrograms ==
  {OneFde({"lsda"}, WholeCie, IF late THEN <<x, y, Advance, z>> ELSE <<x, Advance, y, z>>) :
     late \in BOOLEAN, x \in Instructions, y \in Instructions, z \in Instructions}
CutPrograms ==
  {OneFde({}, Cie(<<x>>), <<Instr(n, 3, 8)>>) :
     x \in Instructions, n \in {"args_size", "val_expression", "restore"}}
  \union
  {OneFde(h, CutCie, <<x, y>>) : x \in Instructions, y \in Instructions,
                                 h \in SUBSET {"lsda", "signal", "personality"}}

MCInputs == Sorted(LongPrograms) \union (Sorted(CutPrograms) \union Lookups)
=============================================================================
