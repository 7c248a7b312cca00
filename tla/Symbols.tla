------------------------------ MODULE Symbols ------------------------------
(***************************************************************************)
(* What a file is made of when it is opened: parse_object and normalize of *)
(* file/mod.rs.  The units of the debug info are matched with the symbol   *)
(* table, one get_symbol call a step; the symbols that no unit claims      *)
(* become a unit `<symtab>', and what is left of the sections a unit       *)
(* `<unknown>'.                                                            *)
(***************************************************************************)
EXTENDS RangeLists

CONSTANTS SymbolFiles, \* the inputs: records [symbols, sections, units]
          Absent       \* an attribute that is not there

\* A unit: its line program (<<address, whether the sequence ends there>>), ranges,
\* low and high pc; its functions and variables with the same attributes.
OptAddress == Nat \union {Absent}
OptSpans == Seq([begin : Nat, end : Nat]) \union {Absent}

FunctionInputOK(f) == f.low \in OptAddress /\ f.high \in OptAddress /\ f.ranges \in OptSpans
VariableInputOK(v) == v.address \in OptAddress /\ v.size \in OptAddress
UnitInputOK(u) ==
  /\ u.rows \in Seq(Nat \X BOOLEAN) \union {Absent} /\ u.ranges \in OptSpans
  /\ u.low \in OptAddress /\ u.high \in OptAddress
  /\ u.functions \in Seq(ToSet(u.functions))
  /\ u.variables \in Seq(ToSet(u.variables))
  /\ \A k \in DOMAIN u.functions : FunctionInputOK(u.functions[k])
  /\ \A k \in DOMAIN u.variables : VariableInputOK(u.variables[k])

ASSUME AbsentAssumption == Absent \notin Nat
ASSUME SymbolFilesAssumption ==
  \A f \in SymbolFiles :
    /\ f.symbols \in Seq(ToSet(f.symbols))
    /\ f.sections \in Seq(ToSet(f.sections))
    /\ f.units \in Seq(ToSet(f.units))
    /\ \A k \in DOMAIN f.symbols : f.symbols[k].address \in Nat /\ f.symbols[k].size \in Nat
    /\ \A k \in DOMAIN f.sections : f.sections[k].address \in Nat /\ f.sections[k].size \in Nat
    /\ \A k \in DOMAIN f.units : UnitInputOK(f.units[k])

VARIABLES opened,   \* the input
          symbols,  \* File::symbols, sorted
          used,     \* used_symbols
          units,    \* File::units
          lookups,  \* the get_symbol calls that normalize still makes
          opening   \* "parse", "names", "symtab", "unknown" or "opened"

symbolsVars == <<opened, symbols, used, units, lookups, opening>>

SymbolsInit ==
  /\ opened \in SymbolFiles
  /\ symbols = <<>> /\ used = <<>> /\ units = <<>> /\ lookups = <<>>
  /\ opening = "parse"

-----------------------------------------------------------------------------
(***************************************************************************)
(* The ranges of units and functions, from the attributes in the order in  *)
(* which the parser prefers them.                                          *)
(***************************************************************************)
\* parse_unit: the sequences of the line program, but one that begins at 0.
Row(acc, row) ==
  IF row[2] THEN [from |-> Absent,
                  out |-> IF acc.from \in {Absent, 0} THEN acc.out
                          ELSE Append(acc.out, Span(acc.from, row[1]))]
  ELSE IF acc.from = Absent THEN [acc EXCEPT !.from = row[1]] ELSE acc

Sequences(rows) ==
  LET at[n \in 0..Len(rows)] == IF n = 0 THEN [from |-> Absent, out |-> <<>>]
                                ELSE Row(at[n - 1], rows[n])
  IN  at[Len(rows)].out

UnitRanges(u) ==
  SortRanges(PushAll(<<>>,
    CASE u.rows # Absent -> Sequences(u.rows)
      [] u.rows = Absent /\ u.ranges # Absent -> u.ranges
      [] u.rows = Absent /\ u.ranges = Absent /\ u.low # Absent /\ u.high # Absent ->
           <<Span(u.low, u.high)>>
      [] OTHER -> <<>>))

\* A function with ranges is where the first one is; one that the linker dropped
\* has its low pc at 0.
ParsedFunction(f, unit) ==
  LET kept == Picked(f.ranges, {k \in DOMAIN f.ranges : f.ranges[k].end > f.ranges[k].begin})
      atZero == f.low = 0 /\ (unit = <<>> \/ unit[1].begin # 0)
      address == CASE f.ranges # Absent -> IF kept = <<>> THEN 0 ELSE kept[1].begin
                   [] f.ranges = Absent /\ ~atZero -> f.low
                   [] OTHER -> Absent
  IN  [name |-> f.name, address |-> address, symbol |-> Absent,
       ranges |-> CASE f.ranges # Absent -> kept
                    [] /\ f.ranges = Absent /\ address # Absent /\ f.high # Absent
                       /\ f.high > f.low -> <<Span(f.low, f.high)>>
                    [] OTHER -> <<>>]

ParsedUnit(u) ==
  LET ranges == UnitRanges(u)
  IN  [ranges |-> ranges,
       functions |-> [k \in DOMAIN u.functions |-> ParsedFunction(u.functions[k], ranges)],
       variables |-> [k \in DOMAIN u.variables |->
                        [name |-> u.variables[k].name, address |-> u.variables[k].address,
                         symbol |-> Absent, size |-> u.variables[k].size]]]

-----------------------------------------------------------------------------
\* The places in the file's table of the symbols that parse_object keeps.
Kept(table) ==
  {k \in DOMAIN table : /\ table[k].address # 0 /\ table[k].size # 0
                        /\ table[k].kind \in {"Text", "Data", "Unknown"}}

\* Mutant: symbols at one address do not keep their order.
ByAddressUnstable(table) ==
  LET I == Kept(table)
      order == Arrange(I, {p \in I \X I :
                             \/ table[p[1]].address < table[p[2]].address
                             \/ table[p[1]].address = table[p[2]].address /\ p[1] > p[2]})
  IN  [n \in DOMAIN order |-> table[order[n]]]

\* sort_by, a stable sort, of what is kept.
ByAddress(table) ==
  LET I == Kept(table)
      order == Arrange(I, {p \in I \X I :
                             \/ table[p[1]].address < table[p[2]].address
                             \/ table[p[1]].address = table[p[2]].address /\ p[1] < p[2]})
  IN  [n \in DOMAIN order |-> table[order[n]]]

\* The calls for a function: one for its address, which may name it, and one for
\* each later range; and for a variable.
LookupAt(u, list, k, address, name) ==
  [unit |-> u, list |-> list, nth |-> k, address |-> address, name |-> name]

OfFunction(u, k, f) ==
  LET later == IF f.ranges = <<>> THEN <<>> ELSE Tail(f.ranges)
  IN  IF f.address = Absent THEN <<>>
      ELSE <<LookupAt(u, "functions", k, f.address, f.name)>>
             \o [j \in DOMAIN later |-> LookupAt(u, "none", k, later[j].begin, Absent)]

OfVariable(u, k, v) ==
  IF v.address = Absent THEN <<>> ELSE <<LookupAt(u, "variables", k, v.address, v.name)>>

LookupsOf(parsed) ==
  Flattened([u \in DOMAIN parsed |->
    Flattened([k \in DOMAIN parsed[u].functions |-> OfFunction(u, k, parsed[u].functions[k])])
      \o Flattened([k \in DOMAIN parsed[u].variables |->
                       OfVariable(u, k, parsed[u].variables[k])])])

ParseFile ==
  /\ opening = "parse"
  /\ LET table == ByAddress(opened.symbols)
         parsed == [u \in DOMAIN opened.units |-> ParsedUnit(opened.units[u])]
     IN  /\ symbols' = table
         /\ used' = [k \in DOMAIN table |-> FALSE]
         /\ units' = parsed
         /\ lookups' = LookupsOf(parsed)
  /\ opening' = "names"
  /\ UNCHANGED opened

\* Mutant: the search stops at the first symbol of the name, and does not mark the
\* aliases behind it.
SymbolsUpToName(address, name) ==
  LET all == {k \in DOMAIN symbols : symbols[k].address = address}
      same == {k \in all : symbols[k].name = name}
  IN  {k \in all : \A j \in same : k <= j}

\* get_symbol: all symbols at the address are found.
SymbolsAt(address, name) == {k \in DOMAIN symbols : symbols[k].address = address}

\* A function or variable gets the name of the first symbol at its address, unless
\* one there has its own name.
GetSymbol ==
  /\ opening = "names" /\ lookups # <<>>
  /\ LET call == Head(lookups)
         found == SymbolsAt(call.address, call.name)
         known == found = {} \/ \E k \in found : symbols[k].name = call.name
         first == CHOOSE k \in found : \A j \in found : k <= j
     IN  /\ used' = [k \in DOMAIN used |-> used[k] \/ k \in found]
         /\ units' = CASE known -> units
                       [] ~known /\ call.list = "functions" ->
                            [units EXCEPT ![call.unit].functions[call.nth].symbol =
                                            symbols[first].name]
                       [] ~known /\ call.list = "variables" ->
                            [units EXCEPT ![call.unit].variables[call.nth].symbol =
                                            symbols[first].name]
                       [] OTHER -> units
  /\ lookups' = Tail(lookups)
  /\ UNCHANGED <<opened, symbols, opening>>

-----------------------------------------------------------------------------
(***************************************************************************)
(* The two units that normalize adds.                                      *)
(***************************************************************************)
Extent(s) == Span(s.address, s.address + s.size)

SymtabUnit ==
  LET free == {k \in DOMAIN symbols : ~used[k]}
      all == Picked(symbols, free)
      funs == Picked(symbols, {k \in free : symbols[k].kind = "Text"})
      vars == Picked(symbols, {k \in free : symbols[k].kind # "Text"})
  IN  [ranges |-> SortRanges(PushAll(<<>>, [k \in DOMAIN all |-> Extent(all[k])])),
       functions |-> [k \in DOMAIN funs |->
          [name |-> funs[k].name, address |-> funs[k].address, symbol |-> Absent,
           ranges |-> <<Extent(funs[k])>>]],
       variables |-> [k \in DOMAIN vars |->
          [name |-> vars[k].name, address |-> vars[k].address, symbol |-> Absent,
           size |-> vars[k].size]]]

AddSymtab ==
  /\ opening = "names" /\ lookups = <<>>
  /\ units' = Append(units, SymtabUnit)
  /\ opening' = "symtab"
  /\ UNCHANGED <<opened, symbols, used, lookups>>

\* Unit::ranges: a variable without an address or a size has no range.
VariableRanges(u) ==
  LET vs == u.variables
      ranged == Picked(vs, {k \in DOMAIN vs : vs[k].address # Absent
                                             /\ vs[k].size \notin {Absent, 0}})
  IN  [k \in DOMAIN ranged |-> Span(ranged[k].address, ranged[k].address + ranged[k].size)]

FunctionRanges(u) == Flattened([k \in DOMAIN u.functions |-> u.functions[k].ranges])

Claimed(u) == SortRanges(PushAll(PushAll(<<>>, FunctionRanges(u)), VariableRanges(u)))

\* Unit::unknown_ranges.
Unclaimed(u) == Subtract(SortRanges(PushAll(<<>>, u.ranges)), Claimed(u))

\* Mutant: only what is known of the units.
FileRangesKnown(list) ==
  LET at[n \in 0..Len(list)] == IF n = 0 THEN <<>> ELSE PushAll(at[n - 1], Claimed(list[n]))
  IN  SortRanges(at[Len(list)])

\* File::ranges.
FileRanges(list) ==
  LET at[n \in 0..Len(list)] ==
        IF n = 0 THEN <<>>
        ELSE PushAll(PushAll(at[n - 1], Claimed(list[n])), Unclaimed(list[n]))
  IN  SortRanges(at[Len(list)])

\* Section::address: a section at 0 is not loaded.
Loaded(table) ==
  LET at == Picked(table, {k \in DOMAIN table : table[k].address # 0 /\ table[k].size # 0})
  IN  [k \in DOMAIN at |-> Extent(at[k])]

\* File::unknown_ranges.
Unknowns(list) ==
  Subtract(SortRanges(PushAll(<<>>, Loaded(opened.sections))), FileRanges(list))

AddUnknown ==
  /\ opening = "symtab"
  /\ units' = Append(units, [ranges |-> Unknowns(units), functions |-> <<>>, variables |-> <<>>])
  /\ opening' = "opened"
  /\ UNCHANGED <<opened, symbols, used, lookups>>

SymbolsNext == ParseFile \/ GetSymbol \/ AddSymtab \/ AddUnknown
SymbolsSpec == SymbolsInit /\ [][SymbolsNext]_symbolsVars

-----------------------------------------------------------------------------
Named == opening \in {"symtab", "opened"}
DebugUnits == DOMAIN opened.units
symtab == units[Len(opened.units) + 1]

\* The addresses where the debug info says that something begins.
Begins ==
  UNION {{f.address : f \in ToSet(units[u].functions)}
           \union {r.begin : r \in ToSet(FunctionRanges(units[u]))}
           \union {v.address : v \in ToSet(units[u].variables)} : u \in DebugUnits}

\* "Create a unit for symbols that don't have debuginfo": a symbol of the file is in
\* `<symtab>', with its kind and as often as the file has it, if and only if nothing
\* of the debug info begins at its address.
SymbolsAccountedFor ==
  Named =>
    \A s \in ToSet(opened.symbols) :
      LET all == {k \in Kept(opened.symbols) :
                    LET t == opened.symbols[k]
                    IN  /\ t.address = s.address /\ t.name = s.name /\ t.size = s.size
                        /\ t.kind = "Text" <=> s.kind = "Text"}
          funs == {k \in DOMAIN symtab.functions :
                     LET f == symtab.functions[k]
                     IN  f.name = s.name /\ f.ranges = <<Extent(s)>>}
          vars == {k \in DOMAIN symtab.variables :
                     LET v == symtab.variables[k]
                     IN  v.name = s.name /\ v.address = s.address /\ v.size = s.size}
          expected == IF s.address \in Begins THEN 0 ELSE Cardinality(all)
      IN  s.address # 0 /\ s.size # 0 =>
            Cardinality(IF s.kind = "Text" THEN funs ELSE vars) = expected

\* "There may be multiple symbols for the same address. If none match the given name,
\* then return the first one" (file/mod.rs): the first of the file's table.
NamedByTable ==
  Named =>
    \A u \in DebugUnits :
      \A x \in ToSet(units[u].functions) \union ToSet(units[u].variables) :
        LET table == opened.symbols
            there == {k \in Kept(table) : table[k].address = x.address}
            first == CHOOSE k \in there : \A j \in there : k <= j
        IN  x.symbol = IF there = {} \/ (\E k \in there : table[k].name = x.name)
                       THEN Absent ELSE table[first].name

\* "After creation of that unit this will return an empty range list": every address
\* that a section loads is in some unit, whatever the lists merge and fill.
UnknownExhausted ==
  opening = "opened" =>
    /\ Unknowns(units) = <<>>
    /\ Covered(Loaded(opened.sections)) \subseteq Covered(FileRanges(units))

\* "The address ranges ... covered by the unit, but which are not known to be
\* associated with any functions or variables" (unit.rs).
UnknownIsUnknown ==
  opening = "opened" =>
    \A u \in DOMAIN units :
      Covered(Unclaimed(units[u]))
        \intersect Covered(FunctionRanges(units[u]) \o VariableRanges(units[u])) = {}
=============================================================================
