--------------------------------- MODULE Cfi ---------------------------------
(***************************************************************************)
(* Call frame information on demand: the tables of frame descriptions      *)
(* (FDEs) that DwarfFrame::new builds of .debug_frame and .eh_frame, and   *)
(* File::cfi, which looks an address range up in them and converts the     *)
(* instructions of the description it finds to assembler directives, one   *)
(* instruction a step.                                                     *)
(***************************************************************************)
EXTENDS Integers, Sequences, FiniteSets, SequencesExt, StableSort

CONSTANTS FrameInputs  \* the inputs: records [eh, debug, asked]

\* A description: the addresses it is about, whether it can be parsed when the table
\* is built and again when it is used, what its common part (CIE) says of alignment
\* and initial rules, its program, and its pointers to a personality and an LSDA.
Sections == {"eh", "debug"}

\* An instruction; what moves the location has no sign (u32, u64).
Instruction ==
  {i \in [name : STRING, reg : Nat, n : Int, factored : BOOLEAN] :
     i.name \in {"advance_loc", "set_loc"} => i.n \in Nat}

ASSUME FrameInputsAssumption ==
  \A i \in FrameInputs :
    /\ i.asked.begin \in Nat /\ i.asked.begin <= i.asked.end
    /\ \A s \in Sections :
         /\ IsFiniteSet(DOMAIN i[s])
         /\ \A k \in DOMAIN i[s] :
              /\ k \in Nat /\ i[s][k].begin \in Nat /\ i[s][k].len \in Nat
              /\ {i[s][k].parses, i[s][k].usable} \subseteq BOOLEAN
              /\ i[s][k].cie.code \in Nat
              /\ {i[s][k].cie.program, i[s][k].program} \subseteq Seq(Instruction)

VARIABLES section,  \* the descriptions of each section, in their order, and the range asked for
          tables,   \* FdeOffsetTable of each section
          phase,    \* "load", "eh", "debug", "cie", "fde" or "done"
          found,    \* the description that was found: its section and index
          rest,     \* the instructions still to convert
          loc,      \* the address the program has reached
          cfi       \* Vec<Cfi>

cfiVars == <<section, tables, phase, found, rest, loc, cfi>>

NoAddress == -1
NotFound == <<"none", 0>>

CfiInit ==
  /\ section \in FrameInputs
  /\ tables = [s \in Sections |-> <<>>]
  /\ phase = "load" /\ found = NotFound
  /\ rest = <<>> /\ loc = 0 /\ cfi = <<>>

-----------------------------------------------------------------------------
RangeBefore(x, y) == \/ x.begin < y.begin
                     \/ x.begin = y.begin /\ x.end < y.end

\* Mutant: the descriptions are left in the order of the section.
TableUnsorted(s) ==
  LET kept == SelectSeq([k \in DOMAIN section[s] |-> k], LAMBDA k : section[s][k].parses)
  IN  [j \in DOMAIN kept |-> [begin |-> section[s][kept[j]].begin,
                              end |-> section[s][kept[j]].begin + section[s][kept[j]].len,
                              fde |-> kept[j]]]

\* FdeOffsetTable::new: a description that cannot be parsed is left out. The section is
\* what the iterator yields, which ends at an error. The sort by range is stable.
Table(s) ==
  LET parsed == {k \in DOMAIN section[s] : section[s][k].parses}
      range(k) == [begin |-> section[s][k].begin,
                   end |-> section[s][k].begin + section[s][k].len]
      order == Arrange(parsed, {p \in parsed \X parsed :
                                  \/ RangeBefore(range(p[1]), range(p[2]))
                                  \/ range(p[1]) = range(p[2]) /\ p[1] < p[2]})
  IN  [j \in DOMAIN order |-> [begin |-> range(order[j]).begin, end |-> range(order[j]).end,
                               fde |-> order[j]]]

Load ==
  /\ phase = "load"
  /\ tables' = [s \in Sections |-> Table(s)]
  /\ phase' = "eh"
  /\ UNCHANGED <<section, found, rest, loc, cfi>>

\* Where binary_search_by_key may end: at any entry that begins at the address, or
\* at the last one before it.
Hits(table, address) ==
  LET at == {k \in DOMAIN table : table[k].begin = address}
      before == {k \in DOMAIN table : table[k].begin < address}
  IN  IF at # {} THEN at
      ELSE {k \in before : \A j \in before : j <= k}

Covers(x, address) == x.begin <= address /\ address < x.end

\* find gives the entry only if it covers the address; fde_from_offset may fail.
Usable(s, k) ==
  /\ Covers(tables[s][k], section.asked.begin)
  /\ section[s][tables[s][k].fde].usable

\* get_cfi of one section: the directives of the whole function come first.
Find(s) ==
  /\ phase = s
  /\ \E k \in Hits(tables[s], section.asked.begin) :
       LET f == section[s][tables[s][k].fde]
           flag(name) == IF name \in f.has THEN <<[at |-> NoAddress, name |-> name]>> ELSE <<>>
       IN  /\ Usable(s, k)
           /\ found' = <<s, tables[s][k].fde>>
           /\ rest' = f.cie.program
           /\ cfi' = <<[at |-> NoAddress, name |-> "startproc"]>>
                       \o flag("personality") \o flag("lsda") \o flag("signal")
  /\ loc' = 0
  /\ phase' = "cie"
  /\ UNCHANGED <<section, tables>>

\* .debug_frame is only asked when .eh_frame has no answer.
Misses(s) ==
  /\ phase = s
  /\ \/ Hits(tables[s], section.asked.begin) = {}
     \/ \E k \in Hits(tables[s], section.asked.begin) : ~Usable(s, k)
  /\ phase' = IF s = "eh" THEN "debug" ELSE "done"
  /\ UNCHANGED <<section, tables, found, rest, loc, cfi>>

-----------------------------------------------------------------------------
fde == section[found[1]][found[2]]
next == Head(rest)

\* The instructions that become CfiDirective::Other, of which nothing else is kept.
Unsupported == {"args_size", "def_cfa_expression", "expression", "val_expression"}

\* Mutant: a factored offset is taken as it is.
UnfactoredDirective(i, at) ==
  IF i.name \in Unsupported THEN [at |-> at, name |-> "other"]
  ELSE [at |-> at, name |-> i.name, reg |-> i.reg, n |-> i.n]

\* The directive of an instruction: an offset in units of data_alignment_factor
\* becomes one in bytes.
Directive(i, at) ==
  IF i.name \in Unsupported THEN [at |-> at, name |-> "other"]
  ELSE [at |-> at, name |-> i.name, reg |-> i.reg,
        n |-> IF i.factored THEN i.n * fde.cie.data ELSE i.n]

\* convert_cfi: set_loc and advance_loc move the location, a nop is dropped.
Convert(at, to) ==
  /\ CASE next.name = "set_loc" -> loc' = next.n /\ UNCHANGED cfi
       [] next.name = "advance_loc" -> loc' = loc + next.n * fde.cie.code /\ UNCHANGED cfi
       [] next.name = "nop" -> UNCHANGED <<loc, cfi>>
       [] OTHER -> cfi' = Append(cfi, Directive(next, at)) /\ UNCHANGED loc
  /\ rest' = Tail(rest)
  /\ phase' = to

\* The initial rules; they have no address.
ConvertInitial ==
  /\ phase = "cie" /\ rest # <<>> /\ next.name # "unreadable"
  /\ Convert(NoAddress, "cie")
  /\ UNCHANGED <<section, tables, found>>

\* An instruction that cannot be read ends the program without an error.
Ends == rest # <<>> => next.name = "unreadable"

BeginProgram ==
  /\ phase = "cie" /\ Ends
  /\ phase' = "fde"
  /\ rest' = fde.program
  /\ loc' = fde.begin
  /\ UNCHANGED <<section, tables, found, cfi>>

ConvertNext ==
  /\ phase = "fde" /\ ~Ends
  /\ Convert(loc, "fde")
  /\ UNCHANGED <<section, tables, found>>

EndProc ==
  /\ phase = "fde" /\ Ends
  /\ cfi' = Append(cfi, [at |-> fde.begin + fde.len, name |-> "endproc"])
  /\ phase' = "done"
  /\ UNCHANGED <<section, tables, found, rest, loc>>

CfiNext ==
  \/ Load \/ \E s \in Sections : Find(s) \/ Misses(s)
  \/ ConvertInitial \/ BeginProgram \/ ConvertNext \/ EndProc

CfiSpec == CfiInit /\ [][CfiNext]_cfiVars

-----------------------------------------------------------------------------
(***************************************************************************)
(* What the descriptions say.                                              *)
(***************************************************************************)
\* The descriptions of a section as a linker leaves them: none is empty, none
\* overlaps another.
WellFormed(s) ==
  \A j, k \in DOMAIN section[s] :
    LET x == section[s][j]
        y == section[s][k]
    IN  x.parses /\ y.parses =>
          /\ x.len > 0
          /\ j # k => x.begin + x.len <= y.begin \/ y.begin + y.len <= x.begin

Describes(s, k) ==
  LET x == section[s][k]
  IN  x.parses /\ x.usable /\ Covers([begin |-> x.begin, end |-> x.begin + x.len],
                                     section.asked.begin)

\* What is found is about the address asked for, whatever the section holds; and if
\* no description hides another, one that is about the address is found, that of
\* .eh_frame before that of .debug_frame.
FindsTheDescription ==
  phase \in {"cie", "fde", "done"} =>
    /\ found # NotFound => Describes(found[1], found[2])
    /\ \A s \in Sections : \A k \in DOMAIN section[s] :
         Describes(s, k) /\ WellFormed(s) =>
           found = <<s, k>> \/ (s = "debug" /\ found[1] = "eh")

(***************************************************************************)
(* The rules for unwinding at an address, as the standard defines them     *)
(* of the program and as an assembler does of the directives.              *)
(***************************************************************************)
NoRules == [cfa |-> <<0, 0>>, regs |-> <<>>]
ByExpression == <<-1, 0>>
With(f, r, v) == [x \in DOMAIN f \union {r} |-> IF x = r THEN v ELSE f[x]]

\* What an instruction or directive does to the rules, with its offset in bytes;
\* `saved' are the remembered ones.
Apply(m, i, n) ==
  LET rule(v) == [m EXCEPT !.row.regs = With(@, i.reg, v)]
  IN  CASE i.name = "def_cfa" -> [m EXCEPT !.row.cfa = <<i.reg, n>>]
        [] i.name = "def_cfa_expression" -> [m EXCEPT !.row.cfa = ByExpression]
        [] i.name = "def_cfa_offset" -> [m EXCEPT !.row.cfa = <<@[1], n>>]
        [] i.name = "def_cfa_register" -> [m EXCEPT !.row.cfa = <<i.reg, @[2]>>]
        [] i.name \in {"offset", "val_offset", "register"} -> rule(<<i.name, n>>)
        [] i.name \in {"undefined", "same_value", "expression", "val_expression"} ->
             rule(<<i.name, 0>>)
        [] i.name = "restore" ->
             [m EXCEPT !.row.regs = IF i.reg \in DOMAIN m.initial.regs
                                    THEN With(@, i.reg, m.initial.regs[i.reg])
                                    ELSE [x \in DOMAIN @ \ {i.reg} |-> @[x]]]
        [] i.name = "remember_state" -> [m EXCEPT !.saved = Append(@, m.row)]
        [] i.name = "restore_state" /\ m.saved # <<>> ->
             [m EXCEPT !.row = m.saved[Len(m.saved)], !.saved = Front(@)]
        [] OTHER -> m

\* What the steps do, in their order, that take effect at a location in `when'. A step is
\* an instruction with its offset in bytes and its location; one without an offset
\* (startproc) is about the whole function and, like "other", leaves the rules alone.
Turn(m, i, when) == IF i.at \in when /\ "n" \in DOMAIN i THEN Apply(m, i, i.n) ELSE m
Run(m, steps, when) ==
  LET after[k \in 0..Len(steps)] == IF k = 0 THEN m ELSE Turn(after[k - 1], steps[k], when)
  IN  after[Len(steps)]

\* The rules after the initial steps and those after the later ones that are given.
Fresh(row) == [row |-> row, initial |-> row, saved |-> <<>>]
Rules(initial, later, address) ==
  LET start == Run(Fresh(NoRules), initial, {NoAddress})
  IN  Run(Fresh(start.row), later, 0..address).row

Step(f, i, at) ==
  [at |-> at, name |-> i.name, reg |-> i.reg, n |-> IF i.factored THEN i.n * f.cie.data ELSE i.n]

\* The instructions of a program that can be read.
Legible(program) ==
  {k \in DOMAIN program : \A j \in 1..k : program[j].name # "unreadable"}

\* The location after each instruction.
Moved(f, i, at) == CASE i.name = "advance_loc" -> at + i.n * f.cie.code
                     [] i.name = "set_loc" -> i.n
                     [] OTHER -> at
Locations(f) ==
  LET after[k \in 0..Len(f.program)] ==
        IF k = 0 THEN f.begin ELSE Moved(f, f.program[k], after[k - 1])
  IN  after

\* The standard makes the row of an address of the instructions before the location
\* first passes it.
RulesOf(f, address) ==
  LET at == Locations(f)
      row == {k \in Legible(f.program) : \A j \in 1..k : at[j] <= address}
  IN  Rules([k \in Legible(f.cie.program) |-> Step(f, f.cie.program[k], NoAddress)],
            [k \in row |-> Step(f, f.program[k], at[k])], address)

\* An assembler has directives for an address.
RulesFrom(directives, address) == Rules(directives, directives, address)

\* "The new location value is always greater than the current one" (DWARF 5, 6.4.2.1).
NeverBack(f) ==
  LET at == Locations(f)
  IN  \A j, k \in DOMAIN f.program : j < k => at[j] <= at[k]

\* The registers of the instructions of a description that have one of the names.
RegistersOf(f, names) ==
  {f.cie.program[k].reg : k \in {j \in Legible(f.cie.program) : f.cie.program[j].name \in names}}
  \union {f.program[k].reg : k \in {j \in Legible(f.program) : f.program[j].name \in names}}

\* Rules that differ at most in what the description says by an expression.
SameRules(x, y, f) ==
  /\ RegistersOf(f, {"def_cfa_expression"}) = {} => x.cfa = y.cfa
  /\ \A r \in DOMAIN x.regs \union DOMAIN y.regs :
       \/ r \in RegistersOf(f, {"expression", "val_expression"})
       \/ r \in DOMAIN x.regs \intersect DOMAIN y.regs /\ x.regs[r] = y.regs[r]

\* convert_cfi (dwarf.rs:4136) and get_cfi: at every address of the function the
\* directives give the rules that its description gives, and stand between one startproc
\* and one endproc at its end.  What the description says by an expression has no
\* directive: that it does shows as an Other, and no rule of anything else is lost.
RulesKept ==
  phase = "done" /\ found # NotFound =>
    /\ cfi[1].name = "startproc"
    /\ cfi[Len(cfi)] = [at |-> fde.begin + fde.len, name |-> "endproc"]
    /\ RegistersOf(fde, Unsupported) # {} => \E k \in DOMAIN cfi : cfi[k].name = "other"
    /\ NeverBack(fde) =>
         \A a \in fde.begin..(fde.begin + fde.len - 1) :
           SameRules(RulesFrom(cfi, a), RulesOf(fde, a), fde)
=============================================================================
