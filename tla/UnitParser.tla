----------------------------- MODULE UnitParser -----------------------------
(***************************************************************************)
(* parse_unit of parser/src/file/dwarf.rs: one walk over the tree of debug *)
(* information entries (DIEs) of a compilation unit collects its types,    *)
(* functions and variables; what refers to a declaration that may come     *)
(* later is put aside, and two fix-up passes complete it afterwards.  The  *)
(* recursion of the parse_* functions is an explicit stack; one step is    *)
(* one DIE met, one function that returns, or one turn of a fix-up loop.   *)
(*                                                                         *)
(* Entries are numbered in the order they are stored, 0 being the unit.    *)
(***************************************************************************)
EXTENDS Integers, Sequences, FiniteSets, SequencesExt, StableSort

CONSTANTS Units,    \* the inputs
          NoEntry   \* None, for a reference or a name

Tags == {"unit", "namespace", "function", "struct", "union", "enum", "named",
         "unnamed", "part", "variant", "member", "inheritance", "variable",
         "parameter", "block", "other"}

\* "named" is a base, typedef or unspecified type, which is stored; "unnamed" a
\* type that is parsed but not stored: a modifier, an array, a subroutine.
TypeTags == {"struct", "union", "enum", "named", "unnamed"}

\* An entry: `refers' is its specification or abstract origin, 0 if that lies in
\* another unit; `origin' tells which of the two; `name' stands for every attribute
\* that is inherited when absent (name, linkage name, source, type); `decl' is
\* DW_AT_declaration, on a member a static one; `ty' is the type of a member.
\* DIEs are stored in the order of the walk: each behind its parent, and what stands
\* between the two is below the parent too.
IsUnit(u) ==
  LET n == Cardinality(DOMAIN u.die) - 1
  IN  /\ u.rust \in BOOLEAN
      /\ IsFiniteSet(DOMAIN u.die) /\ 0 \in DOMAIN u.die
      /\ u.die \in [0..n -> [tag : Tags, parent : 0..n, name : Nat \union {NoEntry},
                             refers : (0..n) \union {NoEntry}, origin : BOOLEAN,
                             decl : BOOLEAN, ty : (0..n) \union {NoEntry}]]
      /\ u.die[0].tag = "unit"
      /\ \A d \in 1..n : u.die[d].parent < d /\ u.die[d].tag # "unit"
      /\ \A c, d \in 1..n : u.die[d].parent < c /\ c < d => u.die[d].parent <= u.die[c].parent

ASSUME UnitsAssumption == \A u \in Units : IsUnit(u)
ASSUME NoEntryAssumption == NoEntry \notin Nat

VARIABLES unit,         \* dwarf_unit, what the file holds
          stack,        \* the active parse_* calls, the innermost last
          types, functions, variables,  \* the Unit that is built
          subprograms, laterVariables,  \* put aside (DwarfSubprogram, DwarfVariable)
          known,        \* the map of the fix-up that runs, by offset
          defer,        \* what the current pass still has to look at, or has kept
          pass,         \* "none", or the pass over subprograms: "inherit", "force"
          progress,
          phase         \* "walk", "functions", "variables", "done" or "failed"

vars == <<unit, stack, types, functions, variables, subprograms, laterVariables,
          known, defer, pass, progress, phase>>

Die == unit.die
Entry == DOMAIN Die
\* Numbers in order: the children of an entry, the keys of a BTreeMap.
Sorted(ds) == Arrange(ds, {p \in ds \X ds : p[1] < p[2]})
Children(d) == Sorted({c \in Entry \ {0} : Die[c].parent = d})

\* The tags that the parsers of children handle; they skip the others.
NamespaceTakes == {"namespace", "function", "variable"} \union TypeTags
FunctionTakes == {"parameter", "block", "function"} \union TypeTags
BlockTakes == {"block", "function"} \union TypeTags
StructTakes == {"function", "member", "inheritance", "part"} \union TypeTags
UnionTakes == {"function", "member"} \union TypeTags
EnumTakes == {"function"}
PartTakes == {"member", "variant"}
VariantTakes == {"member"}

Takes(t) ==
  CASE t \in {"unit", "namespace"} -> NamespaceTakes
    [] t = "function" -> FunctionTakes
    [] t = "block"    -> BlockTakes
    [] t = "struct"   -> StructTakes
    [] t = "union"    -> UnionTakes
    [] t = "enum"     -> EnumTakes
    [] t = "part"     -> PartTakes
    [] t = "variant"  -> VariantTakes
    [] OTHER -> {}

-----------------------------------------------------------------------------
\* What is built for an entry met in the namespace `ns'.
Function(c, ns) == [die |-> c, name |-> Die[c].name, ns |-> ns, params |-> <<>>]
Variable(c, ns) == [die |-> c, name |-> Die[c].name, ns |-> ns]
Type(c, ns) ==
  [die |-> c, name |-> Die[c].name, ns |-> ns, members |-> <<>>, inherits |-> <<>>,
   parts |-> <<>>]
Part == [members |-> <<>>, variants |-> <<>>]

\* Namespace::new: the namespace of the children of an entry.
Within(ns, name, kind) == Append(ns, [name |-> name, kind |-> kind])

\* `rest' are the children not met yet, `item' is what the call builds.
Frame(c, ns, item) == [die |-> c, ns |-> ns, rest |-> Children(c), item |-> item]

FunctionFrame(f) == Frame(f.die, Within(f.ns, f.name, "function"), f)
TypeFrame(c, ns) == Frame(c, Within(ns, Die[c].name, "type"), Type(c, ns))
NamespaceFrame(c, ns) == Frame(c, Within(ns, Die[c].name, "namespace"), Part)

top   == stack[Len(stack)]
child == Head(top.rest)
tag   == Die[child].tag

\* The innermost loop meets `child', which is passed to its parser.
Meets(tags) ==
  /\ stack # <<>> /\ top.rest # <<>>
  /\ tag \in tags \intersect Takes(Die[top.die].tag)

\* The loop is past `child'; its own item may have grown.
Past(item) == [stack EXCEPT ![Len(stack)] = [top EXCEPT !.rest = Tail(@), !.item = item]]

fixups == <<known, defer, pass, progress, phase>>

\* Tags that the loop ignores, and types that are parsed only to be validated.
Skip ==
  /\ stack # <<>> /\ top.rest # <<>>
  /\ tag \notin Takes(Die[top.die].tag) \ {"unnamed"}
  /\ stack' = Past(top.item)
  /\ UNCHANGED <<unit, types, functions, variables, subprograms, laterVariables, fixups>>

\* parse_namespace, and the other parsers that only walk their children.
EnterScope ==
  /\ Meets({"namespace", "block", "part", "variant", "struct", "union", "enum"})
  /\ stack' = Append(Past(top.item),
                     CASE tag = "namespace" -> NamespaceFrame(child, top.ns)
                       [] tag \in TypeTags -> TypeFrame(child, top.ns)
                       [] OTHER -> Frame(child, top.ns, Part))
  /\ UNCHANGED <<unit, types, functions, variables, subprograms, laterVariables, fixups>>

NamedType ==
  /\ Meets({"named"})
  /\ types' = Append(types, Type(child, top.ns))
  /\ stack' = Past(top.item)
  /\ UNCHANGED <<unit, functions, variables, subprograms, laterVariables, fixups>>

\* parse_subprogram: one that refers to a declaration is put aside, children and
\* all, because its name and its namespace are not known yet.
Subprogram ==
  /\ Meets({"function"})
  /\ LET f == Function(child, top.ns)
     IN  IF Die[child].refers # NoEntry
         THEN /\ subprograms' = Append(subprograms, f)
              /\ stack' = Past(top.item)
         ELSE /\ stack' = Append(Past(top.item), FunctionFrame(f))
              /\ UNCHANGED subprograms
  /\ UNCHANGED <<unit, types, functions, variables, laterVariables, fixups>>

\* parse_variable, met in a namespace.
NamespaceVariable ==
  /\ Meets({"variable"})
  /\ LET v == Variable(child, top.ns)
     IN  IF Die[child].refers # NoEntry
         THEN /\ laterVariables' = Append(laterVariables, v)
              /\ UNCHANGED variables
         ELSE /\ variables' = Append(variables, v)
              /\ UNCHANGED laterVariables
  /\ stack' = Past(top.item)
  /\ UNCHANGED <<unit, types, functions, subprograms, fixups>>

\* parse_member: a static member is a variable, which nothing defers.
Member ==
  /\ Meets({"member"})
  /\ IF Die[child].decl
     THEN /\ variables' = Append(variables, Variable(child, top.ns))
          /\ stack' = Past(top.item)
     ELSE /\ stack' = Past([top.item EXCEPT !.members = Append(@, child)])
          /\ UNCHANGED variables
  /\ UNCHANGED <<unit, types, functions, subprograms, laterVariables, fixups>>

Inheritance ==
  /\ Meets({"inheritance"})
  /\ stack' = Past([top.item EXCEPT !.inherits = Append(@, child)])
  /\ UNCHANGED <<unit, types, functions, variables, subprograms, laterVariables, fixups>>

\* Mutant: a parameter is listed anew even if it only adds to an inherited one.
AlwaysListed(params, c) == Append(params, [die |-> c, name |-> Die[c].name])

\* parse_parameter_type: a parameter with an abstract origin completes the one it
\* refers to, which keeps its own offset; any other is a parameter of its own.
WithParameter(params, c) ==
  LET same == {k \in DOMAIN params : params[k].die = Die[c].refers}
  IN  IF same = {} THEN Append(params, [die |-> c, name |-> Die[c].name])
      ELSE LET k == CHOOSE k \in same : \A j \in same : k <= j
           IN  IF Die[c].name = NoEntry THEN params
               ELSE [params EXCEPT ![k].name = Die[c].name]

Parameter ==
  /\ Meets({"parameter"})
  /\ stack' = Past([top.item EXCEPT !.params = WithParameter(@, child)])
  /\ UNCHANGED <<unit, types, functions, variables, subprograms, laterVariables, fixups>>

-----------------------------------------------------------------------------
(* A parser of children has met them all and returns.                      *)
(***************************************************************************)

\* The call the fix-up made itself returns by FixedSubprogram.
Returns(tags) ==
  /\ stack # <<>> /\ top.rest = <<>>
  /\ Die[top.die].tag \in tags
  /\ phase = "functions" => Len(stack) > 1

\* The caller goes on, its own item changed by what was parsed.
Below(item) ==
  [Front(stack) EXCEPT ![Len(stack) - 1] = [@ EXCEPT !.item = item]]
caller == stack[Len(stack) - 1]

\* parse_type and parse_subprogram append their entry after its children.
Close ==
  /\ Returns({"struct", "union", "enum", "function", "namespace", "block"})
  /\ types' = IF Die[top.die].tag \in TypeTags THEN Append(types, top.item) ELSE types
  /\ functions' = IF Die[top.die].tag = "function" THEN Append(functions, top.item)
                  ELSE functions
  /\ stack' = Front(stack)
  /\ UNCHANGED <<unit, variables, subprograms, laterVariables, fixups>>

\* Mutant: the members of a variant part are left to the variant part.
ClosePartAlone ==
  /\ Returns({"part"})
  /\ stack' = Below([caller.item EXCEPT !.parts = Append(@, top.item.variants)])
  /\ UNCHANGED <<unit, types, functions, variables, subprograms, laterVariables, fixups>>

\* The members of a variant part are members of the struct.
ClosePart ==
  /\ Returns({"part"})
  /\ stack' = Below([caller.item EXCEPT !.members = @ \o top.item.members,
                                        !.parts = Append(@, top.item.variants)])
  /\ UNCHANGED <<unit, types, functions, variables, subprograms, laterVariables, fixups>>

\* A variant of a Rust enum has one member, a struct: its members are parsed
\* again as the variant's own.
Held(members) ==
  IF unit.rust /\ Len(members) = 1 /\ Die[members[1]].ty \in Entry
     /\ Die[Die[members[1]].ty].tag = "struct"
  THEN {Die[members[1]].ty} ELSE {}

MembersOf(s, static) ==
  SelectSeq(Children(s), LAMBDA c : Die[c].tag = "member" /\ Die[c].decl = static)

CloseVariant ==
  /\ Returns({"variant"})
  /\ LET held == Held(top.item.members)
     IN  IF held = {}
         THEN /\ stack' = Below([caller.item EXCEPT !.variants =
                                   Append(@, top.item.members)])
              /\ UNCHANGED variables
         ELSE \E s \in held :
              /\ stack' = Below([caller.item EXCEPT !.variants =
                                   Append(@, MembersOf(s, FALSE))])
              /\ variables' = variables \o
                   [k \in DOMAIN MembersOf(s, TRUE) |->
                      Variable(MembersOf(s, TRUE)[k], top.ns)]
  /\ UNCHANGED <<unit, types, functions, subprograms, laterVariables, fixups>>

-----------------------------------------------------------------------------
(* fixup_subprogram_specifications                                         *)
(***************************************************************************)
ByOffset(items) ==
  [d \in {items[k].die : k \in DOMAIN items} |->
     LET k == CHOOSE k \in DOMAIN items :
                 items[k].die = d /\ \A j \in DOMAIN items : items[j].die = d => j <= k
     IN  items[k]]
InOrder(map) == LET ds == Sorted(DOMAIN map) IN [k \in DOMAIN ds |-> map[ds[k]]]

\* BTreeMap::insert, and the insertion of all entries of another map.
Inserted(map, d, x) == [e \in DOMAIN map \union {d} |-> IF e = d THEN x ELSE map[e]]
AllInserted(map, more) ==
  [e \in DOMAIN map \union DOMAIN more |-> IF e \in DOMAIN more THEN more[e] ELSE map[e]]

\* The walk ends; the functions found so far go into the map.
EndWalk ==
  /\ phase = "walk" /\ top.die = 0 /\ top.rest = <<>>
  /\ phase' = "functions"
  /\ stack' = <<>>
  /\ known' = ByOffset(functions)
  /\ functions' = <<>>
  /\ UNCHANGED <<unit, types, variables, subprograms, laterVariables, defer, pass, progress>>

BeginPass ==
  /\ phase = "functions" /\ pass = "none" /\ subprograms # <<>>
  /\ defer' = subprograms
  /\ subprograms' = <<>>
  /\ pass' = "inherit"
  /\ progress' = FALSE
  /\ UNCHANGED <<unit, stack, types, functions, variables, laterVariables, known, phase>>

\* inherit_subprogram, once its specification is found.
Inherit(f, spec) ==
  [f EXCEPT !.ns = spec.ns,
            !.name = IF @ = NoEntry THEN spec.name ELSE @,
            !.params = IF Die[f.die].origin THEN spec.params ELSE @]

\* One subprogram of a pass: its children are parsed now, or it waits.
NextDeferred ==
  /\ phase = "functions" /\ pass # "none" /\ stack = <<>> /\ defer # <<>>
  /\ LET f == Head(defer)
         spec == Die[f.die].refers
     IN  IF pass = "inherit" /\ spec \notin DOMAIN known
         THEN /\ subprograms' = Append(subprograms, f)
              /\ UNCHANGED stack
         ELSE /\ stack' = <<FunctionFrame(IF pass = "inherit" THEN Inherit(f, known[spec])
                                          ELSE f)>>
              /\ UNCHANGED subprograms
  /\ defer' = Tail(defer)
  /\ UNCHANGED <<unit, types, functions, variables, laterVariables, known, pass,
                 progress, phase>>

\* Mutant: the functions nested in the one just parsed are not added to the map.
FixedAlone ==
  /\ phase = "functions" /\ Len(stack) = 1 /\ top.rest = <<>>
  /\ known' = Inserted(known, top.die, top.item)
  /\ functions' = <<>>
  /\ stack' = <<>>
  /\ progress' = (progress \/ pass = "inherit")
  /\ UNCHANGED <<unit, types, variables, subprograms, laterVariables, defer, pass, phase>>

\* Its children are parsed: it joins the map, and so do the functions among them.
FixedSubprogram ==
  /\ phase = "functions" /\ Len(stack) = 1 /\ top.rest = <<>>
  /\ known' = AllInserted(Inserted(known, top.die, top.item), ByOffset(functions))
  /\ functions' = <<>>
  /\ stack' = <<>>
  /\ progress' = (progress \/ pass = "inherit")
  /\ UNCHANGED <<unit, types, variables, subprograms, laterVariables, defer, pass, phase>>

\* Mutant: a pass without progress is followed by another one of its kind.
EndPassNeverForces ==
  /\ phase = "functions" /\ pass # "none" /\ stack = <<>> /\ defer = <<>>
  /\ pass' = "none"
  /\ UNCHANGED <<unit, stack, types, functions, variables, subprograms, laterVariables,
                 known, defer, progress, phase>>

\* Mutant: what a pass could not resolve is parsed as it is, progress or not.
EndPassForces ==
  /\ phase = "functions" /\ pass # "none" /\ stack = <<>> /\ defer = <<>>
  /\ IF pass = "inherit" /\ subprograms # <<>>
     THEN /\ pass' = "force"
          /\ defer' = subprograms
          /\ subprograms' = <<>>
     ELSE pass' = "none" /\ UNCHANGED <<defer, subprograms>>
  /\ UNCHANGED <<unit, stack, types, functions, variables, laterVariables, known,
                 progress, phase>>

\* After a pass that got nowhere, all that are left are parsed without their
\* specification.  This may put more aside, so the loop goes on.
EndPass ==
  /\ phase = "functions" /\ pass # "none" /\ stack = <<>> /\ defer = <<>>
  /\ IF pass = "inherit" /\ ~progress
     THEN /\ pass' = "force"
          /\ defer' = subprograms
          /\ subprograms' = <<>>
     ELSE pass' = "none" /\ UNCHANGED <<defer, subprograms>>
  /\ UNCHANGED <<unit, stack, types, functions, variables, laterVariables, known,
                 progress, phase>>

EndFunctions ==
  /\ phase = "functions" /\ pass = "none" /\ subprograms = <<>>
  /\ phase' = "variables"
  /\ functions' = InOrder(known)
  /\ known' = ByOffset(variables)
  /\ variables' = <<>>
  /\ progress' = FALSE
  /\ UNCHANGED <<unit, stack, types, subprograms, laterVariables, defer, pass>>

-----------------------------------------------------------------------------
(* fixup_variable_specifications                                           *)
(***************************************************************************)
InheritVariable(v, spec) ==
  [v EXCEPT !.ns = spec.ns, !.name = IF @ = NoEntry THEN spec.name ELSE @]

NextVariable ==
  /\ phase = "variables" /\ laterVariables # <<>>
  /\ LET v == Head(laterVariables)
         spec == Die[v.die].refers
     IN  IF spec \in DOMAIN known
         THEN /\ known' = Inserted(known, v.die, InheritVariable(v, known[spec]))
              /\ progress' = TRUE
              /\ UNCHANGED defer
         ELSE /\ defer' = Append(defer, v)
              /\ UNCHANGED <<known, progress>>
  /\ laterVariables' = Tail(laterVariables)
  /\ UNCHANGED <<unit, stack, types, functions, variables, subprograms, pass, phase>>

\* Mutant: one pass over the variables has to do.
OnePassOnly ==
  /\ phase = "variables" /\ laterVariables = <<>>
  /\ phase' = "done"
  /\ variables' = InOrder(known)
  /\ UNCHANGED <<unit, stack, types, functions, subprograms, laterVariables, known,
                 defer, pass, progress>>

\* Mutant: a pass is made until no variable is left, progress or not.
EndWhenEmpty ==
  /\ phase = "variables" /\ laterVariables = <<>>
  /\ IF defer # <<>>
     THEN /\ laterVariables' = defer
          /\ defer' = <<>>
          /\ progress' = FALSE
          /\ UNCHANGED <<variables, phase>>
     ELSE /\ phase' = "done"
          /\ variables' = InOrder(known)
          /\ UNCHANGED <<laterVariables, defer, progress>>
  /\ UNCHANGED <<unit, stack, types, functions, subprograms, known, pass>>

\* After a pass that got nowhere the code drains `variables', which is empty by
\* now: what is in `defer' is dropped.
EndVariablePass ==
  /\ phase = "variables" /\ laterVariables = <<>>
  /\ IF defer # <<>> /\ progress
     THEN /\ laterVariables' = defer
          /\ defer' = <<>>
          /\ progress' = FALSE
          /\ UNCHANGED <<variables, phase>>
     ELSE /\ phase' = "done"
          /\ variables' = InOrder(known)
          /\ UNCHANGED <<laterVariables, defer, progress>>
  /\ UNCHANGED <<unit, stack, types, functions, subprograms, known, pass>>

-----------------------------------------------------------------------------
\* The next entry cannot be read: parse_unit and with it File::parse give up.
ReadError ==
  /\ stack # <<>>
  /\ phase' = "failed"
  /\ stack' = <<>>
  /\ UNCHANGED <<unit, types, functions, variables, subprograms, laterVariables, known,
                 defer, pass, progress>>

Init ==
  /\ unit \in Units
  /\ stack = <<Frame(0, <<>>, Part)>>
  /\ types = <<>> /\ functions = <<>> /\ variables = <<>>
  /\ subprograms = <<>> /\ laterVariables = <<>> /\ defer = <<>>
  /\ known = <<>>
  /\ pass = "none"
  /\ progress = FALSE
  /\ phase = "walk"

Walk == \/ Skip \/ EnterScope \/ NamedType \/ Subprogram \/ NamespaceVariable
        \/ Member \/ Inheritance \/ Parameter \/ Close \/ ClosePart \/ CloseVariant
Fixup == \/ EndWalk \/ BeginPass \/ NextDeferred \/ FixedSubprogram \/ EndPass
         \/ EndFunctions \/ NextVariable \/ EndVariablePass
Step == Walk \/ Fixup
Next == Step \/ ReadError

Spec == Init /\ [][Next]_vars
FairSpec == Spec /\ WF_vars(Step)

-----------------------------------------------------------------------------
(* What the unit holds at the end, said of its entries and not of the      *)
(* order in which they were met.                                           *)
(***************************************************************************)
Tagged(tags) == {d \in Entry : Die[d].tag \in tags}

Above[d \in Entry] == IF d = 0 THEN {} ELSE {Die[d].parent} \union Above[Die[d].parent]

\* The entries among `ds' whose declaration the unit holds: what they refer to is
\* such an entry, and so are the functions they are in.
Resolved(ds) ==
  LET stage[k \in 0..Cardinality(ds)] ==
        LET found == IF k = 0 THEN {} ELSE stage[k - 1]
        IN  {d \in ds : /\ Above[d] \intersect Tagged({"function"}) \intersect ds \subseteq found
                        /\ Die[d].refers \in found \union {NoEntry}}
  IN  stage[Cardinality(ds)]

\* Entries that parse_namespace_children and parse_member make variables of.
GlobalVariables ==
  {d \in Tagged({"variable", "member"}) :
     IF Die[d].tag = "member" THEN Die[d].decl
     ELSE Die[Die[d].parent].tag \in {"unit", "namespace"}}

ResolvedFunctions == Resolved(Tagged({"function"}))
ResolvedVariables == Resolved(GlobalVariables)

\* The name and the namespace of an entry are those of its declaration.
NameOf[d \in Entry] ==
  IF Die[d].name # NoEntry \/ Die[d].refers = NoEntry
     \/ d \notin ResolvedFunctions \union ResolvedVariables
  THEN Die[d].name ELSE NameOf[Die[d].refers]

Kind(t) == CASE t = "function" -> "function" [] t = "namespace" -> "namespace" [] OTHER -> "type"

NamespaceOf[d \in Entry] ==
  LET p == Die[d].parent
  IN  IF d \in ResolvedFunctions \union ResolvedVariables /\ Die[d].refers # NoEntry
      THEN NamespaceOf[Die[d].refers]
      ELSE IF p = 0 THEN <<>>
      ELSE IF Die[p].tag \in {"block", "part", "variant"} THEN NamespaceOf[p]
      ELSE Append(NamespaceOf[p], [name |-> NameOf[p], kind |-> Kind(Die[p].tag)])

Dies(items) == {items[k].die : k \in DOMAIN items}

\* What is kept, and what may hold some of it, stands where its parser looks for it.
WellPlaced(u) ==
  \A d \in DOMAIN u.die \ {0} :
    \/ u.die[d].tag \in {"unnamed", "inheritance", "variable", "parameter", "other"}
    \/ u.die[d].tag \in Takes(u.die[u.die[d].parent].tag)

\* Every function and every type of the unit is stored exactly once, and so is
\* every member, in the type it belongs to; none is lost between the walk and the
\* passes, whatever refers to what.
EntriesKept ==
  phase = "done" =>
    /\ Dies(functions) = Tagged({"function"}) /\ Len(functions) = Cardinality(Dies(functions))
    /\ Dies(types) = Tagged(TypeTags \ {"unnamed"}) /\ Len(types) = Cardinality(Dies(types))
    /\ \A k \in DOMAIN types :
         LET t == types[k].die
         IN  types[k].members =
               Sorted({m \in Tagged({"member"}) :
                         ~Die[m].decl /\ LET p == Die[m].parent
                                        IN  p = t \/ (Die[p].tag = "part" /\ Die[p].parent = t)})

\* The qualified name of a function, and of every type declared in one, is that of
\* the function's declaration, wherever in the unit the declaration stands: this
\* is the name by which a type is looked up and asked for.
Qualified ==
  phase = "done" =>
    /\ \A f \in ToSet(functions) :
         f.die \in ResolvedFunctions => f.name = NameOf[f.die] /\ f.ns = NamespaceOf[f.die]
    /\ \A t \in ToSet(types) :
         Above[t.die] \intersect Tagged({"function"}) \subseteq ResolvedFunctions =>
           t.ns = NamespaceOf[t.die]

\* Every variable whose declaration the unit holds is stored once, with the name
\* and the namespace of its declaration.
VariablesResolved ==
  phase = "done" =>
    /\ ResolvedVariables \subseteq Dies(variables)
    /\ Len(variables) = Cardinality(Dies(variables))
    /\ \A v \in ToSet(variables) :
         v.die \in ResolvedVariables /\ Die[v.die].tag = "variable" =>
           v.name = NameOf[v.die] /\ v.ns = NamespaceOf[v.die]

\* "The variables declared or defined by this unit" (parser/src/unit.rs:136): all
\* of them are stored.
VariablesKept == phase = "done" => Tagged({"variable"}) \subseteq Dies(variables)

\* The out-of-line instance of a function has the parameters of its abstract
\* origin, in their order and completed by its own, and then those it adds.
ParametersMerged ==
  phase = "done" =>
    \A f \in ToSet(functions) :
      LET g == Die[f.die].refers
          Params(d) == Sorted({c \in Tagged({"parameter"}) : Die[c].parent = d})
          Completing(p) == {c \in ToSet(Params(f.die)) : Die[c].refers = p /\ Die[c].name # NoEntry}
      IN  (f.die \in ResolvedFunctions /\ g # NoEntry /\ Die[f.die].origin /\ ~Die[g].origin) =>
            /\ [k \in DOMAIN f.params |-> f.params[k].die] =
                 Params(g) \o SelectSeq(Params(f.die), LAMBDA c : Die[c].refers \notin ToSet(Params(g)))
            /\ \A k \in DOMAIN Params(g) :
                 f.params[k].name =
                   LET by == Completing(Params(g)[k])
                   IN  IF by = {} THEN Die[Params(g)[k]].name
                       ELSE Die[CHOOSE c \in by : \A b \in by : b <= c].name

\* The passes end, also when declarations are missing or refer to each other.
Ends == <>(phase \in {"done", "failed"})
=============================================================================
