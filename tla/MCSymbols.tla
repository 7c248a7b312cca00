----------------------------- MODULE MCSymbols -----------------------------
(***************************************************************************)
(* Files of up to three symbols and one or two units, whose functions and  *)
(* variables begin at the symbols' addresses, at others or nowhere.        *)
(***************************************************************************)
EXTENDS Symbols

Sym(address, size, kind, name) ==
  [address |-> address, size |-> size, kind |-> kind, name |-> name]
SymbolTable == {Sym(4, 2, "Text", "a"), Sym(4, 3, "Data", "b"), Sym(8, 4, "Text", "a"),
          Sym(8, 4, "Text", "c"), Sym(9, 1, "Unknown", "b"), Sym(4, 2, "Label", "a"),
          Sym(0, 4, "Text", "b")}
SymbolTables == {<<a, b, c>> : a \in SymbolTable, b \in SymbolTable, c \in SymbolTable} \union {<<a>> : a \in SymbolTable}

Fun(low, high, ranges, name) == [low |-> low, high |-> high, ranges |-> ranges, name |-> name]
Functions1 ==
  {Fun(4, 6, Absent, "a"), Fun(Absent, Absent, <<Span(8, 10), Span(5, 5), Span(4, 7)>>, "b"),
   Fun(0, 3, Absent, "c"), Fun(Absent, Absent, <<>>, Absent), Fun(9, Absent, Absent, Absent)}
Variables1 ==
  {<<>>, <<[address |-> 8, size |-> 2, name |-> "a"]>>,
   <<[address |-> Absent, size |-> 4, name |-> "b"], [address |-> 4, size |-> 0, name |-> "c"]>>}

UnitOf(rows, ranges, low, high, functions, variables) ==
  [rows |-> rows, ranges |-> ranges, low |-> low, high |-> high,
   functions |-> functions, variables |-> variables]
Loadable == <<[address |-> 0, size |-> 9], [address |-> 10, size |-> 7], [address |-> 2, size |-> 5]>>

SymbolInputs ==
  {[symbols |-> t, sections |-> Loadable,
    units |-> <<UnitOf(<<<<0, FALSE>>, <<3, TRUE>>, <<4, FALSE>>, <<6, FALSE>>, <<11, TRUE>>>>,
                       Absent, 0, 3, <<f>>, v)>>] :
      t \in SymbolTables, f \in Functions1, v \in Variables1}
  \union
  {[symbols |-> t, sections |-> Loadable,
    units |-> <<UnitOf(Absent, <<Span(8, 12), Span(2, 7)>>, Absent, Absent, <<f, g>>, <<>>),
                UnitOf(Absent, Absent, low, 15, <<>>, v)>>] :
      t \in {<<a, b>> : a \in SymbolTable, b \in SymbolTable}, f \in Functions1, g \in Functions1,
      v \in Variables1, low \in {0, Absent}}

\* Two bytes of a unit that no function has, around one that a function has, which
\* ends where the next piece is aligned.
Hole ==
  {[symbols |-> <<>>, sections |-> <<>>,
    units |-> <<UnitOf(Absent, <<Span(1, 12)>>, Absent, Absent, <<Fun(2, 4, Absent, "a")>>, <<>>)>>]}
=============================================================================
