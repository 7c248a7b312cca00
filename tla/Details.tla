------------------------------- MODULE Details -------------------------------
(***************************************************************************)
(* FunctionDetails, parsed when a client asks for them: get_function_      *)
(* details of file/dwarf.rs and the functions it calls.  The details of an *)
(* abstract origin are fetched first, by a call of get_function_details of *)
(* its own, and completed by the entries of the function that refers to    *)
(* it.  The recursion is an explicit call stack; one step is one call, one *)
(* child entry, or one return.                                             *)
(***************************************************************************)
EXTENDS Integers, Sequences, FiniteSets, SequencesExt

CONSTANTS Trees,     \* the inputs: records [die, asked]
          MaxCalls,  \* what the thread's stack has room for
          NoDie      \* no entry: an attribute that is not there

\* An entry: its tag, its children, its abstract origin, whether it has a name (a
\* name, type or line) and a location, and whether it can be read at all.
DieTags == {"subprogram", "inlined", "block", "parameter", "variable", "other"}
ASSUME TreesAssumption ==
  \A t \in Trees :
    /\ t.asked \in DOMAIN t.die /\ t.die[t.asked].tag = "subprogram"
    /\ \A d \in DOMAIN t.die : /\ t.die[d].tag \in DieTags
                               /\ t.die[d].kids \in Seq(DOMAIN t.die)
                               /\ {t.die[d].named, t.die[d].placed, t.die[d].bad} \subseteq BOOLEAN
                               \* a function is abstracted from a function
                               /\ t.die[d].tag \in {"subprogram", "inlined"} =>
                                    \/ t.die[d].origin \notin DOMAIN t.die
                                    \/ t.die[t.die[d].origin].tag = "subprogram"
ASSUME MaxCallsAssumption == MaxCalls \in Nat

VARIABLES die,     \* the entries, by offset
          calls,   \* the active calls, the innermost last
          answer,  \* what the client gets: the details of its function
          outcome  \* "running", "done" or "overflow"

detailsVars == <<die, calls, answer, outcome>>

\* FunctionDetails and InlinedFunction.  `chain' is no part of it: the entries whose
\* children went into it.
NoDetails == [parameters |-> <<>>, variables |-> <<>>, inlined |-> <<>>, chain |-> <<>>]

\* A call: what it parses, whether it waits for its origin, and the entries below
\* it that are still to come, each with whether it stands in a lexical block.
CallOf(d) == [at |-> d, phase |-> "origin", todo |-> <<>>, details |-> NoDetails]

inner  == calls[Len(calls)]
outer  == calls[Len(calls) - 1]
item   == Head(inner.todo)
entry  == die[item.at]
Active == outcome = "running" /\ calls # <<>>
InChildren == Active /\ inner.phase = "children"

SetInner(call) == calls' = [calls EXCEPT ![Len(calls)] = call]
Items(d, block) == [k \in DOMAIN die[d].kids |-> [at |-> die[d].kids[k], block |-> block]]

DetailsInit ==
  /\ \E t \in Trees : die = t.die /\ calls = <<CallOf(t.asked)>>
  /\ answer = NoDetails
  /\ outcome = "running"

\* A call that does not fit on the thread's stack ends the program.
Descend(d) ==
  IF Len(calls) < MaxCalls
  THEN calls' = Append(calls, CallOf(d)) /\ UNCHANGED <<die, answer, outcome>>
  ELSE outcome' = "overflow" /\ UNCHANGED <<die, calls, answer>>

-----------------------------------------------------------------------------
\* Mutant: an offset in no unit is taken for the one it is looked up for.
TreeGuesses(offset) ==
  IF offset \in DOMAIN die \/ offset = NoDie THEN {offset} \ {NoDie} ELSE {inner.at}

\* Mutant: the recursion is limited to one level.
TreeOneLevel(offset) == IF Len(calls) > 1 THEN {} ELSE {offset} \intersect DOMAIN die

\* tree(): the entry at an offset, in whatever unit, if there is one.
Tree(offset) == {offset} \intersect DOMAIN die

\* get_function_details of the abstract origin.
FetchOrigin ==
  /\ Active /\ inner.phase = "origin"
  /\ \E o \in Tree(die[inner.at].origin) :
       IF Len(calls) < MaxCalls
       THEN /\ calls' = Append([calls EXCEPT ![Len(calls)].phase = "waiting"], CallOf(o))
            /\ UNCHANGED <<die, answer, outcome>>
       ELSE outcome' = "overflow" /\ UNCHANGED <<die, calls, answer>>

BeginChildren(call) ==
  [call EXCEPT !.phase = "children", !.todo = Items(call.at, FALSE),
               !.details.chain = Append(@, call.at)]

\* Mutant: an origin that is in no unit is waited for.
NoAttribute ==
  /\ Active /\ inner.phase = "origin"
  /\ die[inner.at].origin = NoDie
  /\ SetInner(BeginChildren(inner))
  /\ UNCHANGED <<die, answer, outcome>>

\* A function without an origin, or with one that is not there, starts from nothing.
NoOrigin ==
  /\ Active /\ inner.phase = "origin"
  /\ Tree(die[inner.at].origin) = {}
  /\ SetInner(BeginChildren(inner))
  /\ UNCHANGED <<die, answer, outcome>>

\* The details of the origin, in the call that waits for them.  An inlined function
\* leaves out what its origin inlined.
Received(call, got) ==
  BeginChildren([call EXCEPT !.details =
    IF die[call.at].tag = "inlined" THEN [got EXCEPT !.inlined = <<>>] ELSE got])

-----------------------------------------------------------------------------
\* parse_parameter, parse_local_variable: an entry with an abstract origin completes
\* the one that its list has at the origin's offset.
EntryOf(d) ==
  [offset |-> d, name |-> IF die[d].named THEN d ELSE NoDie,
   places |-> IF die[d].placed THEN <<d>> ELSE <<>>, from |-> {d}]

\* Mutant: an entry merged into its origin's takes over the offset.
MergeMoves(list, d) ==
  LET k == SelectInSeq(list, LAMBDA x : x.offset = die[d].origin)
  IN  IF k = 0 THEN Append(list, EntryOf(d))
      ELSE [list EXCEPT ![k] =
             [offset |-> d, name |-> IF die[d].named THEN d ELSE @.name,
              places |-> @.places \o EntryOf(d).places, from |-> @.from \union {d}]]

Merge(list, d) ==
  LET k == SelectInSeq(list, LAMBDA x : x.offset = die[d].origin)
  IN  IF k = 0 THEN Append(list, EntryOf(d))
      ELSE [list EXCEPT ![k] =
             [offset |-> @.offset, name |-> IF die[d].named THEN d ELSE @.name,
              places |-> @.places \o EntryOf(d).places, from |-> @.from \union {d}]]

Past(call) == [call EXCEPT !.todo = Tail(@)]

\* A lexical block's own parameters are not looked at.
TakeParameter ==
  /\ InChildren /\ inner.todo # <<>> /\ ~entry.bad
  /\ entry.tag = "parameter" /\ ~item.block
  /\ SetInner([Past(inner) EXCEPT !.details.parameters = Merge(@, item.at)])
  /\ UNCHANGED <<die, answer, outcome>>

TakeVariable ==
  /\ InChildren /\ inner.todo # <<>> /\ ~entry.bad
  /\ entry.tag = "variable"
  /\ SetInner([Past(inner) EXCEPT !.details.variables = Merge(@, item.at)])
  /\ UNCHANGED <<die, answer, outcome>>

\* parse_lexical_block_details fills the lists of the function around the block.
OpenBlock ==
  /\ InChildren /\ inner.todo # <<>> /\ ~entry.bad
  /\ entry.tag = "block"
  /\ SetInner([inner EXCEPT !.todo = Items(item.at, TRUE) \o Tail(@)])
  /\ UNCHANGED <<die, answer, outcome>>

CallInlined ==
  /\ InChildren /\ inner.todo # <<>> /\ ~entry.bad
  /\ entry.tag = "inlined"
  /\ Descend(item.at)

SkipEntry ==
  /\ InChildren /\ inner.todo # <<>> /\ ~entry.bad
  /\ \/ entry.tag \in {"other", "subprogram"}
     \/ entry.tag = "parameter" /\ item.block
  /\ SetInner(Past(inner))
  /\ UNCHANGED <<die, answer, outcome>>

-----------------------------------------------------------------------------
Complete == InChildren /\ inner.todo = <<>>

ReturnInlined ==
  /\ Complete /\ die[inner.at].tag = "inlined"
  /\ calls' = Append(SubSeq(calls, 1, Len(calls) - 2),
                     [Past(outer) EXCEPT !.details.inlined =
                        Append(@, [at |-> inner.at, details |-> inner.details])])
  /\ UNCHANGED <<die, answer, outcome>>

\* get_function_details returns to the caller below it, or to the client.
Deliver(below, got) ==
  IF below = <<>> THEN calls' = <<>> /\ answer' = got /\ outcome' = "done"
  ELSE /\ calls' = [below EXCEPT ![Len(below)] = Received(@, got)]
       /\ UNCHANGED <<answer, outcome>>

ReturnDetails ==
  /\ Complete /\ die[inner.at].tag # "inlined"
  /\ Deliver(SubSeq(calls, 1, Len(calls) - 1), inner.details)
  /\ UNCHANGED die

\* Mutant: an error only ends the innermost call.
EntryFailsAlone ==
  /\ InChildren /\ inner.todo # <<>> /\ entry.bad
  /\ IF die[inner.at].tag = "inlined"
     THEN /\ calls' = Append(SubSeq(calls, 1, Len(calls) - 2), Past(outer))
          /\ UNCHANGED <<answer, outcome>>
     ELSE Deliver(SubSeq(calls, 1, Len(calls) - 1), NoDetails)
  /\ UNCHANGED die

\* An entry that cannot be read is an error: `?' unwinds every call up to the last
\* get_function_details, which returns None.
EntryFails ==
  /\ InChildren /\ inner.todo # <<>> /\ entry.bad
  /\ LET k == SelectLastInSeq(calls, LAMBDA c : die[c.at].tag # "inlined")
     IN  Deliver(SubSeq(calls, 1, k - 1), NoDetails)
  /\ UNCHANGED die

DetailsNext ==
  \/ FetchOrigin \/ NoOrigin
  \/ TakeParameter \/ TakeVariable \/ OpenBlock \/ CallInlined \/ SkipEntry
  \/ ReturnInlined \/ ReturnDetails \/ EntryFails

DetailsSpec == DetailsInit /\ [][DetailsNext]_detailsVars

-----------------------------------------------------------------------------
(***************************************************************************)
(* What a function has, read off the tree.                                 *)
(***************************************************************************)
Kids(d) == ToSet(die[d].kids)

\* The lexical blocks of d and those nested in them: the least such set.
BlocksOf(d) ==
  LET blocks == {b \in DOMAIN die : die[b].tag = "block"}
      nested == [x \in blocks \union {d} |-> Kids(x) \intersect blocks]
  IN  {b \in blocks : \A S \in SUBSET blocks :
         (\A x \in S \union {d} : nested[x] \subseteq S) => b \in S}

\* The entries below d down to inlined functions, in lexical blocks or not.
Below(d) ==
  {[at |-> c, block |-> FALSE] : c \in Kids(d)}
    \union {[at |-> c, block |-> TRUE] : c \in UNION {Kids(b) : b \in BlocksOf(d)}}

Own(d, tag) == {x.at : x \in {y \in Below(d) : /\ die[y.at].tag = tag
                                               /\ tag = "parameter" => ~y.block}}

\* A list accounts for the entries of all functions in the chain: each stands for
\* itself or for the one it names as its origin, none is lost or there twice, and
\* those of the chain's end come first in what they complete.
Accounts(list, chain, tag) ==
  LET own == [d \in ToSet(chain) |-> Own(d, tag)]
      all == UNION {own[d] : d \in ToSet(chain)}
      target(d) == IF die[d].origin \in all THEN die[d].origin ELSE d
      level(d) == CHOOSE k \in 1..Len(chain) : d \in own[chain[k]]
  IN  /\ {list[k].offset : k \in DOMAIN list} = {target(d) : d \in all}
      /\ \A j, k \in DOMAIN list : list[j].offset = list[k].offset => j = k
      /\ \A k \in DOMAIN list :
           LET x == list[k]
               mine == {d \in all : target(d) = x.offset}
               names == {d \in mine : die[d].named}
           IN  /\ x.from = mine
               /\ ToSet(x.places) = {d \in mine : die[d].placed}
               /\ \A i, j \in DOMAIN x.places : i < j => level(x.places[i]) <= level(x.places[j])
               /\ IF names = {} THEN x.name = NoDie
                  ELSE x.name \in names /\ \A d \in names : level(d) <= level(x.name)

AccountsFor(details) ==
  /\ Accounts(details.parameters, details.chain, "parameter")
  /\ Accounts(details.variables, details.chain, "variable")

FunctionDies == {d \in DOMAIN die : die[d].tag \in {"subprogram", "inlined"}}

\* The functions whose details those of d are made of: its origin and what it inlines.
OriginOf(d) == {die[d].origin} \intersect DOMAIN die
Needs == [d \in FunctionDies |-> OriginOf(d) \union Own(d, "inlined")]

\* The functions that parsing one may come to: the least set with what its members need.
Reached ==
  LET needs == Needs
  IN  [d \in FunctionDies |->
        {e \in FunctionDies : \A S \in SUBSET FunctionDies :
           (\A x \in S \union {d} : needs[x] \subseteq S) => e \in S}]
Cyclic == LET reached == Reached IN \E d \in FunctionDies : d \in reached[d]

\* "FIXME: limit recursion": with room for a call per entry the stack overflows only
\* if a function is, through origins and what it inlines, abstracted from itself.
OverflowsOnlyOnCycles == outcome = "overflow" => Cyclic

\* Without errors the client gets the details of its function and of all its origins.
OriginsReached ==
  [][outcome' = "done" /\ ~Cyclic =>
       LET asked == calls[1].at
           all == Reached[asked] \union {asked}
           readable == \A d \in all : \A x \in Below(d) : ~die[x.at].bad
       IN  readable =>
             /\ ToSet(answer'.chain) \subseteq all
             /\ \A d \in ToSet(answer'.chain) : OriginOf(d) \subseteq ToSet(answer'.chain)
             /\ asked \in ToSet(answer'.chain)]_detailsVars
=============================================================================
