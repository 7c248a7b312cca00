# clayout, specified and verified in TLA+

clayout reads the DWARF debug info of ELF files and translates the C++ or Rust
types a user asks for into packed C types with the same memory layout: a `.h`
file with the definitions and a `.c` file of assertions on their sizes and
offsets. This directory holds TLA+ models of the program, what TLC checks about
them on small instances and what TLAPS proves about them for every input.

## 1. Inventory

The program has one thread and no shared state: what is hard about it is not
interleaving but a long recursion over cyclic data that reads and writes one
memo table, the order of hash maps, numbers at boundaries, and input that no
type system constrains.

| Component | Source | State | Operations | Correct when |
|---|---|---|---|---|
| Main program | `main/src/main.rs` `main` | `inputs_hash`, `type_db`, `dest`, `processed`, `printer` | index all inputs, open the outputs, translate every destination, finish | every destination is translated, and the program ends |
| Type index | `main` 1180-1202, `TypeName` | `type_db`, `dest` | visit a type | every named definition can be found; exactly the types asked for are translated |
| Type translation | `process_type`, `process_*`, `get_type_info`, `handle_sym_link` | `processed`, the call stack | one handler per kind of type | same layout; no double or endless processing; no failing assertion |
| Identifiers | `Printer::alloc_ident` | `used_idents`, `ID_GENERATOR` | allocate | no identifier is defined twice |
| Output | `Printer::add_type`, `add_eq_assert`, `finish` | the two files | append | a C compiler accepts the header; the assertions hold |
| Sizes and layout | `parser/src/types.rs` | none | `byte_size`, `bit_size`, `count`, `layout` | the items of a struct in memory order, with every gap |
| Command line | `Args`, `parse_typename` | none | parse | a qualified name is split at its `::` |
| DWARF units | `parser/src/file/dwarf.rs` `parse_unit`, `parse_*` | the unit being built, lists of deferred entries | one function per DIE tag | every entry is stored once, in its namespace |
| Specification fix-up | `fixup_*_specifications` | deferred subprograms and variables | passes until nothing is deferred | it ends, no entry is lost, the order of entries does not matter |
| Location expressions | `evaluate_simple`, `evaluate_local_variable_location` | an operand stack, pieces, locations | one per operation | what it claims to know of the stack and of a piece is what DWARF says |
| Frame information | `FdeOffsetTable`, `get_cfi`, `convert_cfi` | sorted tables of offsets, the directives | build, find, convert | the entry that covers an address; directives that give its rules |
| Symbols, normalisation | `File::parse_object`, `normalize`, `get_symbol` | sorted symbols, used flags, units | match, add units | every symbol and every loaded address is in one unit or another |
| Address ranges | `RangeList` | a list of ranges | push, sort, subtract | sorted, disjoint, the same set of addresses |
| Qualified names | `namespace.rs`, `TypeName` | none | compare, hash | an order, and equality that agrees with the hash |
| Function details | `get_function_details`, `parse_*_details`, `parse_parameter`, `parse_local_variable` | the details being built, one call per function | fetch the origin, merge an entry, return | an instance has every entry of its origins once, completed by its own |
| Functions, variables, sources | `function.rs`, `variable.rs`, `source.rs` | records | accessors | nothing to get wrong beside what fills them |
| PDB | `file/pdb.rs` | | | not part of the build |

How they interact: `main` parses every input (`File::parse`, which runs the
DWARF parser and keeps units, functions, variables and types), builds a
`FileHash` per input, indexes the types by qualified name, and calls
`process_type` for each destination. `process_type` asks `types.rs` for sizes
and layouts, calls itself through `get_type_info` for every type a type
mentions, looks declarations up in `type_db`, which may lead into another
input, and writes to the `Printer`. Symbols are matched with the units as part of
`File::parse`. Locations, function details and frame information are parsed when
a client of the library asks for them; clayout never does. Each such request
reads what parsing built and leaves it as it was.

The behaviours a test hardly reaches are the `hazards` of `PROJECT.json`, each
with the line where it bites and the properties that would catch it.

## 2. The modules

| Module | Models | Stands for |
|---|---|---|
| `Types` | types, sizes, `layout()` | `parser/src/types.rs`, `Size` |
| `Idents` | identifier allocation | `alloc_ident` |
| `Translator` | the translation, a state machine | `process_type` and all it calls |
| `TypeDb` | the indexing pass | the first loop of `main` |
| `Clayout` | the whole program: `TypeDb`, then `Translator` | `main` |
| `Compiler` | external: what a C++ compiler records for a file | the Itanium C++ ABI |
| `UnitParser` | one compilation unit: the walk over its tree of entries and the two passes that follow | `parse_unit`, `parse_namespace_children` and the parsers it reaches, `fixup_*_specifications` |
| `Walk` | what the translation promises, abstractly: a walk over the types, depth first, that remembers what it found | `get_type_info` and `process_type` seen from outside |
| `StableSort` | external: the stable sort of the standard library | `sort_by`, `sort_by_key` |
| `RangeLists` | push, sort and subtract as operators on sequences of ranges | `RangeList` |
| `Ranges` | the loops of sort and subtract, over lists filled in any order | `RangeList`, as `unknown_ranges` uses it |
| `Location` | the locations of a local variable, beside the stack machine of the DWARF standard | `evaluate_simple`, `evaluate_local_variable_location` |
| `Details` | the details of a function, with an explicit call stack | `get_function_details` and what it reaches |
| `Answers` | what the lists of the details are compared with, in the answer and in all that is inlined in it | |
| `Cfi` | frame descriptions: tables, lookup, conversion | `DwarfFrame`, `FdeOffsetTable`, `get_cfi`, `convert_cfi` |
| `Symbols` | opening a file: symbols, units, what is left over | `parse_object`, `normalize`, `get_symbol`, `ranges` |
| `Requests` | the library's client: one request of any of the last four kinds | `File::parse`, `Function::details`, `File::cfi` |
| `MC...` | instances for TLC (`MCUnit` holds what the instances of `UnitParser` share) | |
| `SeqLemmas` | facts about sequences, sets of numbers and the stable sort | |
| `TranslatorProofs` | theorems about `Translator` | |
| `IndexProofs` | theorems about `TypeDb` and `Clayout` | |
| `UnitProofs` | the theorem about `UnitParser` | |
| `RangeProofs` | theorems about `RangeLists` and `Ranges` | |
| `SymbolProofs` | theorems about `Symbols`, with those of `RangeProofs` | |
| `LocationProofs` | theorems about `Location` | |
| `RequestProofs` | theorems about `Cfi`, `Details` and `Answers` | |

`Translator` extends `Idents`, which extends `Types`; `Clayout` extends
`Translator` and instantiates `TypeDb` on the same variables; `Translator`
instantiates `Walk` on its own state. `UnitParser` stands alone: a unit is parsed
before anything is indexed. `Ranges` and `Symbols` extend `RangeLists`, and `RangeLists`,
`Cfi` and `UnitParser` (for the keys of its maps) extend `StableSort`. `Requests` extends `Location`, `Answers` (which extends
`Details`), `Cfi` and `Symbols`, which share no variable.

### How the code maps to the state

* `types` is what every input holds at every `TypeOffset`, `void` and
  unresolvable offsets included. It never changes. A type carries its
  `byte_size()` and its `layout()` worked out (`Measured`), because both are
  functions of the input.
* `processed` is `ProcessState`; `NoInfo` is the `None` that `process_type` puts
  there first.
* `stack` holds one frame per active call of `process_type`: its type, its
  `ty_max_size`, the turn of the loop over members it is at (0 outside the
  loop) and the members collected (`tymems`). `Call` pushes a frame, the
  handlers that return pop it. Between two steps the handler has read nothing
  that it uses later except what the frame holds, so a step is what the code
  does between two calls.
* `Wanted` is the next `get_type_info` call of the innermost handler. If its
  type is in `processed`, the handler's own action reads the answer (`Got`), and
  the assertions of `get_type_info` are guards (`Fits`), with `AssertionFails`
  the other way out.
* `printer.header` lists the definitions in the order they are written, each
  with the members and the sizes that the `.c` file asserts. `used` and `uniq`
  are `used_idents` and `ID_GENERATOR`.
* `status` is how the program stands; a panic or a failed write ends it.

Of `UnitParser`:

* `unit` is the tree of debug information entries (DIEs). An entry has a tag, a
  parent, a name, and possibly a reference to its specification or abstract
  origin, in the unit or outside it (0).
* `stack` holds one frame per active `parse_*` call: the entry, the namespace its
  children are parsed in, the children not met yet, and the item it builds. One
  step is one turn of the innermost loop over children, or the return of its
  function, which is where `parse_type` and `parse_subprogram` store their entry.
* `subprograms` and `laterVariables` are the vectors `subprograms` and
  `variables` that `parse_unit` hands down; `variables` is `unit.variables`.
* `known` is the `BTreeMap` of the pass that runs, `defer` its vector of the same
  name, `pass` whether it resolves specifications (`inherit`) or has given up on
  them (`force`), `progress` the flag of the code. A pass that parses the children
  of a deferred subprogram uses the same `stack`.
* Attributes other than those in `IsUnit` (sizes, addresses, locations, sources)
  are copied and never decide which step is taken. `name` stands for all that are
  inherited when absent.

Of `Ranges`: `lists` holds the range lists, `rest` the vector that `sort` pushes
back or the ranges `subtract` has still to look at, `others` the iterator over the
ranges to subtract. `given` only records what was pushed.

Of `Location`: `stack`, `placed` and `pieces` are the locals `stack`, `location` and
`pieces` of `evaluate_simple`; `placed` is carried from an operation to the piece
that must follow it, which the code reads in the same turn; `nextBit` is
`next_bit_offset`. An expression is made up
as it is read, so that every sequence of operations is tried. `variable` is the
`LocalVariable`, `expression` the entry of its location list. `real` runs the same
operations on numbers, for a frame whose registers `frame` gives.

Of `Details`: `calls` holds one frame per active `get_function_details` or
`parse_inlined_subroutine_details`, with the children still to come (those of a
lexical block are put in front: it fills the lists of the function around it) and
the `FunctionDetails` it builds. A call waits for its origin in phase `waiting`.
`MaxCalls` is the room on the thread's stack. `chain` and `from` only record where
entries came from. An error unwinds to the last `get_function_details`, whose
caller sees a function without details.

Of `Cfi`: `tables` are the two `FdeOffsetTable`s, `phase` and `rest` the place in
`get_cfi`, `loc` its `address`, `cfi` the vector it returns. A section is what gimli's
iterator yields of it: an error of `entries.next()` ends the table, what is behind it is
in no input. An instruction that `convert_cfi` does not support is a directive `other`
without operands, as `CfiDirective::Other` is.

Of `Symbols`: `symbols` and `used` are the sorted table and `used_symbols`, `units`
is `File::units`, `lookups` the calls of `get_symbol` that the loops of `normalize`
still make. Function ranges, unit ranges and low pc come from the attributes in the
order in which the parser prefers them.

`Requests` starts with one of the four requests and leaves the variables of the
other three at rest.

Under the mapping to `Walk`, `open` is the types on `stack`, `memo` is `processed`
and `written` the owner of each definition in `printer.header`.

Abstractions of `Translator`, and why they lose nothing the properties speak of: a C type is
its name, the number of its stars and whether the header must define it; the
names of members, paddings and placeholders are left out (C sees each struct by
itself and the code numbers them); comments and enumerators are left out; the
number of a generated name only advances for anonymous types. `u64` subtraction
wraps at `Modulus` in a release build and panics in a debug build; sizes in the
instances are far from both.

## 3. What TLC checks

| Run | Question | Instance |
|---|---|---|
| `layout` | Does a compiled file keep its layout, and do the generated assertions hold? | 1239 files of `char`, `long` and three compound types, each holding the one before: classes with bases and members, bit-fields, unions, arrays; debug build |
| `graph` | Does the recursion stay bounded and the header ordered on cyclic references and repeated destinations? Is it the walk of `Walk`? Do clashing names get distinct identifiers? | 539 files of a long and three types that refer to each other by pointer in any direction, by value downwards; three destination lists; 512 triples of eight qualified names (`MCNames`); release build |
| `hostile` | And on debug info that no compiler promises? | any two of 49 entries: sizes and counts missing, overlapping and misaligned items, types that hold themselves, unresolved offsets; debug build |
| `files` | Does the whole program find and translate what several inputs declare and define? | every pair of 30 files, each visited in every order; release build |
| `units` | Does a unit keep all its entries, under the names of their declarations? | functions and local types, namespaces, variables and static members, four to a unit, nested in any way, with references in any direction, in cycles and to other units; each tag inside each tag inside each tag; instances with parameters of abstract origins; Rust enums with variant parts |
| `ranges` | Do sorting and subtracting keep the addresses they should? | two lists of two ranges each over addresses 0 to 7, pushed in any order, an alignment of 4 |
| `requests` | Is what the library answers to a client what the debug info says? | every sequence of four of 22 operations, split over up to two expressions, on machines with addresses as wide as `u64` and half of it; 13 entries in three functions, whose origins, blocks and unreadable entries vary, room for 13 calls; frame descriptions that overlap, nest, are empty or unreadable, and every program of three of 16 instructions around a step of the location; up to three symbols at shared addresses beside one or two units |

The properties:

* `SameLayout`: the scalars of a translated type, found by following the printed
  definitions, lie at the offsets the debug info gives them. This is the
  program's purpose, stated without reference to its algorithm.
* `AssertsHold`: what a C compiler computes from the header (a packed struct's
  members follow each other) is what the `.c` file asserts.
* `NoPanic`, `NoReentry`, `MemoStable`, `CompilesInOrder`, `UniqueIdents`,
  `IndexComplete`, `DestsComplete`, `DeclarationsResolved`: see the comments in
  the modules.
* `EntriesKept`: functions, types and members are stored exactly once, although
  the passes rebuild `unit.functions` from a map while parsing adds to it.
* `Qualified`, `VariablesResolved`: names and namespaces are those of the
  declaration. They are stated over the tree (`Resolved`, `NameOf`,
  `NamespaceOf`), without walk or passes, so the result cannot depend on the order
  of entries. An entry counts as resolved if a chain of references inside the unit
  leads from it to an entry without one, and the functions around it are resolved.
* `ParametersMerged`: an instance's parameters are those of its abstract origin,
  completed in place, and then its own.
* `SortedAndComplete`, `Difference`: against plain sets of addresses (`Covered`),
  up to the padding that `push` may fill in. `LoopSubtracts`: the loop over two
  iterators computes what taking every hole out of every range does, which is how
  `Symbols` uses it.
* `WalksOnce`: `Translator` implements `Walk`. A type is opened once and left once,
  what was found of it stays, definitions are only added at the end, by the type that
  is being left. A release build may restart at a destination it has already left.
* `StackFollows`, `PiecesWhereTheyAre`: a location that `evaluate_simple` does not
  give up on denotes the address that the DWARF machine computes, at every depth of
  the stack and in every piece that reaches the variable, whatever the width of an
  address. `WholeStandsAlone`: a piece that claims to be the whole value is alone.
* `EntriesMerged`, `OriginsReached`: the lists a client gets are stated over the tree
  (`Accounts`): all entries of the functions in the chain of origins, each in the
  entry its origin names, with the locations of this instance. `AllOrNothing`: an
  error empties what it belongs to and leaves nothing half filled.
  `OverflowsOnlyOnCycles`, `Answered`: the recursion the source marks with "FIXME:
  limit recursion" ends, or fills the stack, and the latter only for debug info in
  which a function is abstracted from or inlined in itself.
* `FindsTheDescription`: what is found covers the address, and is found unless another
  description hides it. `RulesKept`: running the directives like an assembler gives
  the rules that the program gives by the standard, at every address of the function,
  if the program's location never goes back (`NeverBack`), as the standard has it. Rules
  by an expression are left out of it (`SameRules`), because they have no directive: a
  register keeps the rule it had, and all that `RulesKept` says is that an `other` shows
  it and that the rules of everything else are kept, also across `remember_state`,
  `restore_state` and `restore`.
* `SymbolsAccountedFor`, `NamedByTable`, `UnknownExhausted`: no symbol is lost or
  reported twice, aliases included, a name comes from the first symbol of the table
  unless one has the right name, and a second call of `unknown_ranges` finds nothing.
* `Termination`, `EndsEventually`, `Ends`, `Answered`: under weak fairness of the program's own steps.
  The justification is that the program is one thread that never waits: a step
  that is enabled is taken. Nothing is assumed about failing writes and unreadable
  entries, which have actions of their own outside the fair one; in `Requests` the
  fairness is that of fetching details, whose end is the only one that depends on
  the input.

Every property is also checked against a plausible bug (`mutants` in
`PROJECT.json`, the operators commented as such in the modules), which must
violate it.

Why the bounds are enough. The translation only ever looks at a type, its
layout and the answers for the types it mentions. Three levels of types by
value cover a base class whose padding is reused inside a class that is itself
an element or a base; two types are enough for a reference cycle and three for
one that is entered in its middle. Two inputs give every way in which a
declaration and a definition can be distributed; anonymous enums and unions are among
their types, as an enum without a name is indexed (under the empty name, where a later
one replaces it) and other anonymous types are not. Four entries make the shortest
chain in which a pass meets a reference before its target twice, with one entry
nested in another; two ranges against two holes give a hole in front of, inside,
across and behind a range and one range with two holes, and eight addresses give
two aligned ones. Four operations reach the one that takes three operands, and two pieces with an
operand each; two expressions
show that nothing is carried from one to the next. Three functions make a chain of
two origins and every cycle of up to three, and 13 calls are more than any acyclic
instance needs. An entry's origin has no origin itself in `MCDetails`, as a compiler
writes it: the third of a chain would be listed apart, since the second has lost its offset. Three
descriptions of one section give every outcome of the binary search. Within an instance every order
of a `HashMap` and every point at which a write may fail is tried.

### What the code does not keep

Five runs expect a violation. Each is a small input that a compiler writes
(`MCFindings`, `MCStatic`, `MCSymbols`) or an expression of few operations
(`MCLocation`):

| Run | Property | What happens |
|---|---|---|
| `empty_base` | `SameLayout` | `struct E {}; struct S : E { char c; };` loses `c`: it is sorted before the base at the same address and skipped as empty |
| `cycle` | `LinksAgree` | `struct Node { const Node *next; };`: the const type copies the placeholder of `Node`, and `next` stays `void*` |
| `static_member` | `VariablesKept` | a DWARF 5 static data member is skipped in the struct, and its definition, whose specification is then never found, is left in `defer` |
| `plus` | `PiecesWhereTheyAre` | the sum of `Plus` and the difference of `Minus` are computed and dropped; what lay below the operands becomes the address of the piece |
| `hole` | `UnknownIsUnknown` | a function of two bytes inside a unit is reported as unknown, because `subtract` joins the ranges around it as if it were padding |

More limits are known without a run of their own:

* A suffixed identifier is not recorded as used (`main.rs` 259), so that `A`, a second
  `A` and a type named `A_1` end up with two definitions of `A_1`.
* A destination that is part of an earlier one is translated twice (`main.rs` 1207): a
  debug build panics at the assertion of `process_type`, a release build prints the
  type again. `DebugCalls` shows that the comment holds in a debug build, for no
  other reason than the assertion; `Walk` allows the restart in a release build.
* The offset of a virtual base cannot be evaluated and stays 0 (`dwarf.rs` 1694-1730);
  the base has no room and the assertion of `get_type_info` fails in any build.
* Rules by an expression, of a register or of the frame address, are lost
  (`dwarf.rs` 4216-4222). `cfi.rs` 63 says of `Other` only that it is "An unsupported
  instruction"; the entries of a procedure linkage table, for one, are described so.
* "A CFI directive and the function offset it applies to" (`cfi.rs` 4): `get_cfi` gives the
  address, not the offset in the function (`dwarf.rs` 4121-4126), and the model, and with
  it `RulesKept`, does as the code does.
* A typedef `X` of a later input replaces `struct X` in `type_db` (`main.rs` 1199), and
  a declaration of `struct X` there resolves to the typedef, that is to itself.

The passing runs leave these inputs out where they have to: `layout` has no
empty base beside a one-byte first member (`EmptyBaseHidesMember`), `graph` no
name that looks like a suffix, `files` no two kinds of type of one name, `requests`
no `Plus` and no `Minus`; `VariablesResolved` only speaks of variables whose
specification is found, `Difference` allows for padding and `UnknownExhausted`
speaks of what is covered, not of what is known; `RulesKept` allows for the rules by an
expression; `LinksAgree` and `CalledOncePerType`
are not claimed of a release build. The hostile run has virtual bases, and there
`NoPanic` is not claimed.

## 4. What is proved

Of `Translator` and the program around it, for every set of inputs, offsets and
programs, every pointer size and modulus, and for both builds, from the named
assumptions of `Types`, `Translator` and `Clayout` (inputs and offsets are finite, a
program's types are well-formed):

| Theorem | Statement | Argument |
|---|---|---|
| `Recursion` | `Spec => []NoReentry` | the inductive invariant `CallInv`: every type on the stack is in `processed` and still the placeholder, unless a destination is being translated again, and no type is on the stack twice. A call is only made for a type outside `processed` |
| `DebugMemo` | `DebugBuild` implies `Spec => MemoStable` | only the frame on top returns, and its entry is a placeholder by `CallInv` |
| `DebugCalls` | `DebugBuild` implies `Spec => CalledOncePerType` | the assertion of `process_type` |
| `HeaderOrder` | `Spec => []CompilesInOrder` | the inductive invariant `DefInv`: every C type in `processed`, in a frame's members or in the header's definitions names a definition already in the header. `CompilesInOrder` alone is not inductive: it says nothing of the types that will be used next |
| `TypeCorrect` | `Spec => []TypeOK` | the inductive invariant `TypeInv`: a loop's turn stays within its layout, members lie at natural offsets, `find_next_idx` returns an index it was given |
| `ImplementsWalk` | `Spec => WalksOnce` | a refinement under the mapping of section 2: entering a type is a `Visit`, a handler that returns is a `Leave`, a panic after a definition was written a `BreakOff`, everything else a stutter. It needs `TypeInv`, for the shapes of the frames and of the header, and `CallInv`, for the type not being open already |
| `AssertionsHold` | `DebugBuild`, and `WellSized` of every program's types, imply `Spec => [](UniqueIdents => AssertsHold)` | the inductive invariant `SizedInv`; see below |
| `IndexIsComplete` | `ProgramSpec => []IndexComplete` | the inductive invariant `IndexInv`: no type of a file behind the current one is visited (`FilesInOrder`), every visited definition has its name in `type_db`, and what is there is a definition of that name in the last file visited that has one (`Latest`) |
| `DestsAreComplete` | `ProgramSpec => []DestsComplete` | `DestInv`: `dest` holds the visited types asked for, each once, by file. It is dropped when the translation starts to take from `dest` |
| `ProgramCompiles` | `ProgramSpec => [](CompilesInOrder /\ NoReentry) /\ WalksOnce` | the translation starts from the index that the pass leaves, with nothing translated (`Started`), so its own invariants and the refinement carry over to the whole program |

and of the parts of the library, for all their inputs:

| Theorem | Statement | Argument |
|---|---|---|
| `SortKeepsEveryAddress` | `Spec => []SortedAndComplete` of `Ranges` | the inductive invariant `RangeInv`; see below |
| `SubtractLeavesTheRest` | `Spec => []Difference` of `Ranges` | the same |
| `SubtractComputes` | `Spec => []LoopSubtracts` of `Ranges` | the inductive invariant `LoopInv`: taking the rest of the holes out of the rest of the ranges, onto the result so far, gives what taking all of them out of all gives |
| `SectionsAccountedFor` | `SymbolsSpec => []UnknownExhausted` | `FileInv`, for the shapes of the units, and the lemmas about lists; see below |
| `NamesFromTable` | `SymbolsSpec => []NamedByTable` | the inductive invariant `FileInv`; see below |
| `SymbolsCounted` | `SymbolsSpec => []SymbolsAccountedFor` | the same |
| `LookupIsRight` | `CfiSpec => []FindsTheDescription` | the inductive invariant `CfiInv`: a table has every description that can be parsed, sorted (`Sorts`). Where ranges are disjoint the last one that does not begin behind the address is the only one that may cover it; where they overlap the search may miss one and never takes a wrong one |
| `RulesConverted` | `CfiSpec => []RulesKept` | the inductive invariant `RulesInv`; see below |
| `OverflowNeedsCycle` | `DetailsSpec => []OverflowsOnlyOnCycles` if there is room for a call per entry | the inductive invariant `DetailsInv`: every active call is for an entry that is reached, through origins and inlined functions, from all entries with a call below it. More calls than entries are two calls for one, which is then reached from itself |
| `DetailsAllOrNothing` | `DetailsSpec => []AllOrNothing` | the inductive invariant `AnswerInv`; see below |
| `DetailsEntriesMerged` | `DetailsSpec => [](WellMade => EntriesMerged)` | the same |
| `DetailsOriginsReached` | `DetailsSpec => OriginsReached` | the same, for the step in which the answer is given |
| `UnitKeepsItsEntries` | `Spec => []EntriesKept` of `UnitParser` if all units are `WellPlaced` | the inductive invariant `UnitInv`; see below |
| `StackIsFollowed` | `NoSums` implies `LocationSpec => []StackFollows` | the inductive invariant `LocationInv`; see below |
| `PiecesArePlaced` | `NoSums` implies `LocationSpec => []PiecesWhereTheyAre` | the same invariant: what was placed, and every piece so far, denotes what the standard's machine has there, and `next_bit_offset` is the end of the standard's last piece |
| `WholeAlone` | `LocationSpec => []WholeStandsAlone` | the inductive invariant `WholeInv`: while an expression is read all its pieces have a size, and what the variable has comes from earlier entries of the list |

The steps of the specification are first sorted into those that enter a call,
leave one, move within one and change nothing (`StepShape`), so that each
invariant is shown once per sort and only then per handler.

How many definitions a handler writes is counted apart (`Prints`).

`AssertionsHold` is about the sizes and offsets of the header. `AssertsHold` alone is not
inductive: the members of a definition are collected over many calls, each of which may
print definitions of its own. `SizedInv` says that the type of everything in `processed`
takes, in C, the packed size recorded there (`Known`, `Takes`); that the members an open
struct has collected lie one behind the other from 0 to the byte where its next turn
begins, and an open union's at 0 within its size (`FrameHolds`, `Tiled`); and the same of
every definition in the header (`DefHolds`). What a type takes does not change while the
header grows (`Taken`). A debug build is a hypothesis because a release build wraps
around where a member overlaps the next and compares no sizes. `WellSized` says what a
compiler writes of sizes (all pointers have one size, base types of one name another,
everything fits a machine word) and what `layout` computes (it begins at bit 0 and its
paddings have sizes); the second part is a hypothesis because `layout` sorts and folds,
which the provers cannot follow, and `MCLayout` assumes it of all its inputs so that TLC
checks it there. `UniqueIdents` is needed because a C compiler goes by names: with two
definitions of one name `sizeof` is that of the first or an error.

The theorems about `Location` hold for every set of operations and frames, every
width of an address that divides `Word`, and any number of operations and list
entries, from `FramesAssumption` and `OperationsAssumption`. The first two need
`NoSums`, that no operation is a `Plus` or a `Minus`: with one they are false, which
is what the run `plus` shows, and `requests` checks them on operations without.
`StackFollows` is not inductive: a location has to stand for its value in a way that
adding a constant keeps (`Stands`: base plus offset, modulo the machine's addresses,
is the value). That the offset is added as a `u64`, cut to an address and read as an
`i64` again loses nothing is `ValueMasked` and `ValueSigned`, from the lemma that two
numbers which differ by a multiple have the same remainder; that `swap`, `rot` and
`pick` move location and value alike is `FollowEffect`.

The theorems about `Ranges` hold for every alignment and any two lists, filled in any
order. What a list covers is compared with the addresses pushed, up to padding
(`Padded`), and neither property is inductive: `Push` may join a range to the one before
it over a gap shorter than the alignment, and only because a range begins and ends at
addresses that were pushed (`Fits`) is what the gap holds padding. `Sorting` says of a
sort that is under way what is in the list already and what is still to come, in order;
that the arrangement by `begin` is in order and loses nothing is `ByBeginSorts`, from the
lemma `ArrangeSorts` about every stable sort. `Subtracting` says the same of the loop
over two iterators: what was passed of the holes ends before the next range begins, and
what is left of the ranges is still covered by the result and the rest. The last
sort, of the result, goes by the same lemmas. `SubtractComputes` needs more: the loop
passes a hole for good, which is right only because both lists are in order, so a passed
hole touches no range to come (`WithoutPassed`), and a range that was cut is pushed in the
same pieces as the definition pushes them (`WithoutCut`).

The theorems about `Symbols` hold for every file: any symbol table, any number of units,
functions and variables with attributes of any values, any alignment. `FileInv` says
that the calls of `get_symbol` still to make are the last of those of the parsed units
(`CallsMatch`), that a symbol is used exactly if a call that was made asked for its
address (`UsedMatch`), and that the units are as they were parsed except for the names,
which are those due (`NamesMatch`). None of the three properties speaks of a file that
is still opened. At the end all calls were made; that they ask for whatever begins, and
for nothing else, is `CalledBegins`. From there:

* `NamesFromTable`: the first symbol of an address in the sorted table is the first of
  the file's, because the sort is stable (`FirstByTable`).
* `SymbolsCounted`: sorting and picking neither lose nor double a place (`SameCount`), and
  of the symbols like one symbol all are used or none (`FreeCount`).
* `SectionsAccountedFor`: a difference covers what the first list covers and the second
  does not, and begins only there (`SubtractIs`). So `<unknown>`, of which nothing is
  claimed, covers together with the other units all that the sections cover, and the
  difference, computed again, begins nowhere: it is empty, although push fills padding
  in both computations (`UnknownIsKnown`).

`FileInv` was model-checked on a part of the inputs of `MCSymbols` before it was proved.

`RulesConverted` holds for any two programs of a description, with any factors. `RulesInv`
says that a run over the directives so far does, from any rules and for any address, what
a run over the instructions so far does (`Says`), where an instruction that gives no
directive or an `other` does nothing (`NeutralTurn`, `WholeTurn`): it does not speak of the
rules themselves, which `remember_state` and `restore` make depend on all that came before.
It also says that an unsupported instruction has left an `other`. What such instructions
do to the rules is compared apart, a run over all instructions with one over those that
have a directive (`RunAlike`): their rules, the remembered ones and the initial ones are
alike but for what an expression is given for, and every instruction keeps them so
(`TurnAlike`). From there the
standard's way to stop at the first location past the address is an assembler's way to
pick the directives up to it, because locations do not go back (`RowIs`). That a run is
taken step by step although `Run` is a recursive function is `RunsExist` and `RunMore`.

The theorems about the details hold for any tree of entries and any references between
them, also those that form a cycle. What a client gets is nested, and none of the
properties speaks of a request that is under way; `AnswerInv` says what each call on the
stack has. A call that is in the children of its function has details which started from
a path of functions, each the origin of the next (`Path`), the details of every inlined
entry of these and of the entries it has done (`Traversed`), and, for each of their
parameters and variables, the one element of the list that stands for it (`Accounted`). A call that waits for another has nothing yet, and what it
waits for is the call above it (`Link`). So what a call returns, when it has met all its
children, is whole, and so is all that is inlined in it (`Sound`). Only where an entry
cannot be read is there nothing, or a path that begins later. That an
element is completed by the entry that is abstracted from it, and not doubled, is
`MergeAccounts`. That `AllOrNothing` and `EntriesMerged` look at what is
inlined at any depth needs no induction over the answer: `Sound` says that there is a set
of details, closed under what is inlined in them and as they should be, with this one in
it, and what a call returns adds one to the sets of those it inlined (`SoundParts`).

`DetailsEntriesMerged` needs `WellMade`. `TreeShaped` says that the children of a function
and of its blocks are met once, which in debug info they are, by being nested.
`WellAbstracted` says that an entry belongs to one function and that what it is abstracted
from belongs to another, which is not abstracted from the first, and is not abstracted
again itself. A compiler writes it so: it abstracts the entries of an instance
from those of its abstract function. Without it what an entry stands for depends on the
order in which a list is filled. 7488 of the 7776 trees
of `MCRequests` satisfy it, cyclic ones among them, and on the others TLC checks
`EntriesMerged` all the same. The other two theorems need no hypothesis.

The theorem about `UnitParser` holds for any tree of entries, of any size, and any
references between its functions, also those that form a cycle or leave the unit. The
invariant says where every entry is that is to be kept or may hold one that is
(`Places`): done with, on the stack, not met yet by a call on the stack, or put aside. An
entry is done, on the stack or aside exactly if its parent is done, or is on the stack
and has met it; and never is it two of these. `FunctionsOK` and `TypesOK` say that what
is stored is what is done, each once, where a function is either in `unit.functions` or
in the map of the pass; `AsideOK` that what is aside is in `subprograms` or `defer`,
never in both. `MembersOK` says that a call on the stack has collected the members it
has met, in order, a variant part's for the class around it. `EntriesKept` says nothing
of a unit that is still parsed and is far from inductive. At the end nothing is on the
stack and nothing aside; were an entry not done, the first such entry would have a
parent that is (`AllDone`), which is the induction down the tree. The theorem needs
`WellPlaced`: a function or a type stands below a tag whose parser looks for it, members
below classes, parts and variants. An entry in another place is skipped by the code with
all that is below it. `MCUnits` has the hypothesis as an assumption, so that TLC checks it
of every unit of the run `units`; the entries of the unit itself need no order but that
of debug info, parents first and depth first (`IsUnit`).

Only model-checked:

* `SameLayout`, `NoPanic` and `DeclarationsResolved`: the first is defined by following
  types to any depth, the others hold of what a compiler writes (`Compiler`), which is
  built by recursion: induction over the data in each case.
* `UniqueIdents`: identifiers are strings put together, and it needs inputs without a
  name that looks like a suffix.
* `EntriesMerged` of trees that are not `WellMade`.
* `Qualified`, `VariablesResolved` and `ParametersMerged` of `UnitParser`: they compare
  the result with recursive functions over the tree and over chains of references
  (`NameOf`, `NamespaceOf`, `Resolved`), again induction over data.
* `Termination`, `EndsEventually`, `Ends`, `Answered`: liveness under
  fairness.

## 5. Not modelled

`PROJECT.json` lists every component with its status. The text of the output,
logging, the command line, the attributes of entries that are only copied and everything of `gimli` and `object` are out of
scope; `file/pdb.rs` is not compiled. A stack overflow of the real recursion is
not a state of the models: `Recursion` bounds the depth of `process_type` by
the number of types, but `byte_size` recurses without a bound through typedefs
that form a cycle, which no compiler writes. `Details` does model the stack it may
fill, because there the source names the recursion as a problem.

`Printer::add_type` writes a definition line by line (`main.rs` 265-272), and a write that
fails may leave half of one at the end of the file; in `Translator` a definition is
written whole or not at all.

Of the parser library: `evaluate`, which hands the expressions of globals and members
to `gimli`; the accessors that filter a list of pieces; relocations and segments; the
maps of `FileHash` by address. The order of namespaces (`Namespace::cmp`) is used by
other clients than clayout only. `parse_typename` splits text, and its result is an
input of the index here.

## 6. Plan

Done: `Types`, `Idents`, `Translator`, `TypeDb`, `Clayout` with the theorems
above, the refinement of `Walk`, `UnitParser`, `Ranges`, and the requests a client
of the library makes: `Location`, `Details`, `Cfi`, `Symbols`.

Left to model: `Names`, the order and equality of qualified names, which `ends_with`
and the hash of a `TypeName` have to agree with, together with `parse_typename`.

Refinement: an abstract index, implemented by `TypeDb`; an abstract unit, a set of
resolved entries that grows, implemented by the passes of `UnitParser`.

Theorems to come: the packed size of a finished type is at most its size in a debug
build; a form of `Qualified` that relates each entry to its
parent and its reference only, over the invariant of `UnitKeepsItsEntries`.
