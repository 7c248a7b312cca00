-------------------------- MODULE TranslatorProofs --------------------------
(***************************************************************************)
(* Theorems about the Translator, for every input and every build.         *)
(*                                                                         *)
(* Seen from the call stack and `processed', a step is one of four: it     *)
(* enters a type, leaves one, moves within one, or does neither.           *)
(* get_type_info is not entered twice and the header is in order; then the *)
(* state keeps its shape, get_type_info and process_type implement the     *)
(* walk over the types that Walk describes, and in a debug build every     *)
(* assertion of the .c file holds.                                         *)
(***************************************************************************)
EXTENDS Translator, SeqLemmas

Enters == \E t, max : /\ Enter(t, max)
                      /\ stack # <<>> \/ DebugBuild => t \notin DOMAIN processed
Leaves == stack # <<>> /\ (ReturnNothing \/ \E info : Return(info))
Moves  == /\ stack # <<>>
          /\ \E max, at, mems :
               stack' = Append(Callers, [ty |-> top.ty, max |-> max, at |-> at, mems |-> mems])
          /\ UNCHANGED processed
Stays  == UNCHANGED <<processed, stack>>

LEMMA StepShape ==
  ASSUME [Next]_vars
  PROVE  Enters \/ Leaves \/ Moves \/ Stays
<1>1. CASE StartDest
  BY <1>1 DEF StartDest, Enters
<1>2. CASE Call
  BY <1>2 DEF Call, Enters, Running
<1>3. CASE ProcessOpaque \/ ProcessBase \/ ProcessEnum \/ Refuse \/ UnknownDeclaration
             \/ ProcessLink \/ ProcessPointer
  BY <1>3 DEF ProcessOpaque, ProcessBase, ProcessEnum, Refuse, UnknownDeclaration,
              ProcessLink, ProcessPointer, Leaves, Running
<1>4. CASE ProcessArray
  BY <1>4 DEF ProcessArray, Leaves, Stays, Running
<1>5. CASE EmitStruct \/ EmitUnion
  BY <1>5 DEF EmitStruct, EmitUnion, Emit, Leaves, Running
<1>6. CASE SkipEmpty \/ TakeBytes \/ TakeMember
  BY <1>6 DEF SkipEmpty, TakeBytes, TakeMember, Advance, InLoop, Running, Moves
<1>7. CASE DestAlreadyProcessed \/ AssertionFails \/ MemberUnderflows
  BY <1>7 DEF DestAlreadyProcessed, AssertionFails, MemberUnderflows, Panic, Stays
<1>8. CASE Finish \/ WriteFails \/ Terminated \/ UNCHANGED vars
  BY <1>8 DEF Finish, WriteFails, Terminated, vars, Stays
<1> QED
  BY <1>1, <1>2, <1>3, <1>4, <1>5, <1>6, <1>7, <1>8 DEF Next, Step

-----------------------------------------------------------------------------
(***************************************************************************)
(* The placeholder that process_type leaves in `processed' stays there     *)
(* until its handler returns, so an active type is never entered again.    *)
(***************************************************************************)
Placeholders ==
  \A i \in 1..Len(stack) :
    stack[i].ty \in DOMAIN processed /\ processed[stack[i].ty] = NoInfo

CallInv == IsSeq(stack) /\ Placeholders /\ NoReentry

LEMMA CallInit == Init => CallInv
  BY SeqEmpty DEF Init, CallInv, Placeholders, NoReentry

\* Entering t adds it to `processed' and puts it on top of the stack.
LEMMA EnterFacts ==
  ASSUME NEW t, NEW max, Enter(t, max), IsSeq(stack)
  PROVE  /\ IsSeq(stack')
         /\ Len(stack') = Len(stack) + 1
         /\ \A i \in 1..Len(stack) : stack'[i] = stack[i]
         /\ stack'[Len(stack) + 1].ty = t
         /\ DOMAIN processed' = DOMAIN processed \union {t}
         /\ processed'[t] = NoInfo
         /\ \A u \in DOMAIN processed : u # t => processed'[u] = processed[u]
<1>1. /\ DOMAIN processed' = DOMAIN processed \union {t}
      /\ processed'[t] = NoInfo
      /\ \A u \in DOMAIN processed : u # t => processed'[u] = processed[u]
  BY DEF Enter
<1>2. stack' = Append(stack, Frame(t, max)) /\ Frame(t, max).ty = t
  BY DEF Enter, Frame
<1> QED
  BY <1>1, <1>2, SeqAppend

\* Leaving takes the top off the stack, and changes `processed' for it at most.
LEMMA LeaveFacts ==
  ASSUME Leaves, IsSeq(stack)
  PROVE  /\ IsSeq(stack')
         /\ Len(stack) \in 1..Len(stack)
         /\ Len(stack') = Len(stack) - 1
         /\ \A i \in 1..Len(stack') : stack'[i] = stack[i]
         /\ DOMAIN processed' = DOMAIN processed
         /\ \A u \in DOMAIN processed : u # stack[Len(stack)].ty => processed'[u] = processed[u]
<1>1. Len(stack) \in Nat /\ Len(stack) \in 1..Len(stack)
  BY SeqLen DEF Leaves
<1>2. stack' = SubSeq(stack, 1, Len(stack) - 1) /\ Len(stack) - 1 \in 0..Len(stack)
  BY <1>1 DEF Leaves, Return, ReturnNothing, Callers
<1>3. /\ DOMAIN processed' = DOMAIN processed
      /\ \A u \in DOMAIN processed : u # stack[Len(stack)].ty => processed'[u] = processed[u]
  BY DEF Leaves, Return, ReturnNothing, top
<1> QED
  BY <1>1, <1>2, <1>3, SeqPrefix

\* Moving keeps every type where it is on the stack.
LEMMA MoveFacts ==
  ASSUME Moves, IsSeq(stack)
  PROVE  /\ IsSeq(stack')
         /\ Len(stack') = Len(stack)
         /\ \A i \in 1..Len(stack) : stack'[i].ty = stack[i].ty
         /\ processed' = processed
<1>1. Len(stack) \in Nat /\ Len(stack) \in 1..Len(stack)
  BY SeqLen DEF Moves
<1>2. PICK x : stack' = Append(Callers, x) /\ x.ty = stack[Len(stack)].ty
  BY DEF Moves, top
<1>3. /\ IsSeq(Callers)
      /\ Len(Callers) = Len(stack) - 1
      /\ \A i \in 1..(Len(stack) - 1) : Callers[i] = stack[i]
  BY <1>1, SeqPrefix, Len(stack) - 1 \in 0..Len(stack) DEF Callers
<1>4. /\ IsSeq(stack')
      /\ Len(stack') = Len(stack)
      /\ \A i \in 1..(Len(stack) - 1) : stack'[i] = stack[i]
      /\ stack'[Len(stack)] = x
  BY <1>1, <1>2, <1>3, SeqAppend
<1>5. \A i \in 1..Len(stack) : i \in 1..(Len(stack) - 1) \/ i = Len(stack)
  BY <1>1
<1> QED
  BY <1>2, <1>4, <1>5 DEF Moves

LEMMA CallStep ==
  ASSUME CallInv, [Next]_vars
  PROVE  CallInv'
<1>1. Len(stack) \in Nat
  BY SeqLen DEF CallInv
<1>2. CASE Enters
  <2>1. PICK t, max : Enter(t, max) /\ (stack # <<>> => t \notin DOMAIN processed)
    BY <1>2 DEF Enters
  <2>2. \A i \in 1..Len(stack) : stack[i].ty # t
    <3>1. CASE stack = <<>>
      BY <3>1, SeqEmpty
    <3>2. CASE stack # <<>>
      BY <3>2, <2>1 DEF CallInv, Placeholders
    <3> QED
      BY <3>1, <3>2
  <2>3. /\ IsSeq(stack') /\ Len(stack') = Len(stack) + 1
        /\ \A i \in 1..Len(stack) : stack'[i] = stack[i]
        /\ stack'[Len(stack) + 1].ty = t
        /\ DOMAIN processed' = DOMAIN processed \union {t}
        /\ processed'[t] = NoInfo
        /\ \A u \in DOMAIN processed : u # t => processed'[u] = processed[u]
    BY <2>1, EnterFacts DEF CallInv
  <2>4. \A i \in 1..Len(stack') : i \in 1..Len(stack) \/ i = Len(stack) + 1
    BY <2>3, <1>1
  <2>5. Placeholders'
    BY <2>2, <2>3, <2>4 DEF CallInv, Placeholders
  <2>6. NoReentry'
    BY <2>2, <2>3, <2>4 DEF CallInv, NoReentry
  <2> QED
    BY <2>3, <2>5, <2>6 DEF CallInv
<1>3. CASE Leaves
  <2>1. \A i \in 1..Len(stack') : i \in 1..Len(stack) /\ i # Len(stack)
    BY <1>3, <1>1, LeaveFacts DEF CallInv
  <2>2. \A i \in 1..Len(stack') : stack[i].ty # stack[Len(stack)].ty
    BY <1>3, <2>1, LeaveFacts DEF CallInv, NoReentry
  <2>3. Placeholders'
    BY <1>3, <2>1, <2>2, LeaveFacts DEF CallInv, Placeholders
  <2>4. NoReentry'
    BY <1>3, <2>1, LeaveFacts DEF CallInv, NoReentry
  <2> QED
    BY <1>3, <2>3, <2>4, LeaveFacts DEF CallInv
<1>4. CASE Moves
  BY <1>4, MoveFacts DEF CallInv, Placeholders, NoReentry
<1>5. CASE Stays
  BY <1>5 DEF Stays, CallInv, Placeholders, NoReentry
<1> QED
  BY <1>2, <1>3, <1>4, <1>5, StepShape

LEMMA CallInvHolds == Spec => []CallInv
  BY CallInit, CallStep, PTL DEF Spec

\* process_type is never active twice for one type, whatever the input is.
THEOREM Recursion == Spec => []NoReentry
<1>1. CallInv => NoReentry
  BY DEF CallInv
<1> QED
  BY <1>1, CallInvHolds, PTL

\* In a debug build what get_type_info returned for a type never changes: only a
\* placeholder is ever overwritten.
THEOREM DebugMemo ==
  ASSUME DebugBuild
  PROVE  Spec => MemoStable
<1>1. ASSUME CallInv, [Next]_vars
      PROVE  [\A t \in DOMAIN processed :
                processed[t] # NoInfo => processed'[t] = processed[t]]_vars
  <2> SUFFICES ASSUME NEW t \in DOMAIN processed, processed[t] # NoInfo
               PROVE  processed'[t] = processed[t]
    OBVIOUS
  <2>1. CASE Enters
    BY <2>1, <1>1, EnterFacts DEF Enters, CallInv
  <2>2. CASE Leaves
    BY <2>2, <1>1, LeaveFacts DEF CallInv, Placeholders
  <2>3. CASE Moves \/ Stays
    BY <2>3 DEF Moves, Stays
  <2> QED
    BY <1>1, <2>1, <2>2, <2>3, StepShape
<1> QED
  BY <1>1, CallInvHolds, PTL DEF Spec, MemoStable

\* In a debug build process_type enters a type once at most.
THEOREM DebugCalls ==
  ASSUME DebugBuild
  PROVE  Spec => CalledOncePerType
<1>1. ASSUME CallInv, [Next]_vars
      PROVE  [\A t \in TypeIndex :
                Len(stack') > Len(stack) /\ stack'[Len(stack')].ty = t
                  => t \notin DOMAIN processed]_vars
  <2>1. CASE Enters
    BY <2>1, <1>1, EnterFacts DEF Enters, CallInv
  <2>2. CASE Leaves
    BY <2>2, <1>1, LeaveFacts DEF CallInv
  <2>3. CASE Moves
    BY <2>3, <1>1, MoveFacts, SeqLen DEF CallInv
  <2>4. CASE Stays
    BY <2>4, <1>1, SeqLen DEF Stays, CallInv
  <2> QED
    BY <1>1, <2>1, <2>2, <2>3, <2>4, StepShape
<1> QED
  BY <1>1, CallInvHolds, PTL DEF Spec, CalledOncePerType

-----------------------------------------------------------------------------
(***************************************************************************)
(* The header can be compiled from top to bottom: what a definition uses   *)
(* stands above it.  This is inductive only together with the same fact    *)
(* for what the next definitions will use, the types in `processed' and    *)
(* those of the members that the active handlers have collected.           *)
(***************************************************************************)
NamedIn(h, c) == c.def => \E j \in 1..Len(h) : h[j].ident = c.name
UsesNamed(h, d) == \A c \in Uses(d) : NamedIn(h, c)
InOrder(h) ==
  /\ IsSeq(h)
  /\ \A i \in 1..Len(h) : \A c \in Uses(h[i]) :
       c.def => \E j \in 1..(i - 1) : h[j].ident = c.name
MemsIn(h, mems) == IsSeq(mems) /\ \A k \in 1..Len(mems) : NamedIn(h, mems[k].type)
Grows(h, g) == \A c : NamedIn(h, c) => NamedIn(g, c)

header == printer.header

DefInv ==
  /\ CallInv
  /\ InOrder(header)
  /\ \A t \in DOMAIN processed :
       processed[t] # NoInfo => NamedIn(header, processed[t].type)
  /\ \A i \in 1..Len(stack) : MemsIn(header, stack[i].mems)

\* Appending a definition whose members are known keeps the order, and makes its
\* own name known.
LEMMA AddDef ==
  ASSUME NEW h, InOrder(h), NEW d, UsesNamed(h, d)
  PROVE  /\ InOrder(Append(h, d))
         /\ Grows(h, Append(h, d))
         /\ \A c : c.name = d.ident => NamedIn(Append(h, d), c)
<1> DEFINE g == Append(h, d)
<1>1. Len(h) \in Nat
  BY SeqLen DEF InOrder
<1>2. /\ IsSeq(g)
      /\ Len(g) = Len(h) + 1
      /\ \A i \in 1..Len(h) : g[i] = h[i]
      /\ g[Len(h) + 1] = d
  BY SeqAppend DEF InOrder
<1> HIDE DEF g
<1>3. \A i \in 1..Len(g) : i \in 1..Len(h) \/ i = Len(h) + 1
  BY <1>1, <1>2
<1>4. Grows(h, g)
  <2> SUFFICES ASSUME NEW c, c.def, NEW j \in 1..Len(h), h[j].ident = c.name
               PROVE  \E k \in 1..Len(g) : g[k].ident = c.name
    BY DEF Grows, NamedIn
  <2>1. j \in 1..Len(g) /\ g[j] = h[j]
    BY <1>1, <1>2
  <2> QED
    BY <2>1
<1>5. ASSUME NEW c, c.name = d.ident
      PROVE  NamedIn(g, c)
  <2>1. Len(h) + 1 \in 1..Len(g)
    BY <1>1, <1>2
  <2> QED
    BY <2>1, <1>2, <1>5 DEF NamedIn
<1>6. ASSUME NEW i \in 1..Len(g), NEW c \in Uses(g[i]), c.def
      PROVE  \E j \in 1..(i - 1) : g[j].ident = c.name
  <2>1. CASE i \in 1..Len(h)
    <3>1. PICK j \in 1..(i - 1) : h[j].ident = c.name
      BY <2>1, <1>2, <1>6 DEF InOrder
    <3>2. j \in 1..Len(h)
      BY <2>1, <1>1
    <3> QED
      BY <3>1, <3>2, <1>2
  <2>2. CASE i = Len(h) + 1
    <3>1. PICK j \in 1..Len(h) : h[j].ident = c.name
      BY <2>2, <1>2, <1>6 DEF UsesNamed, NamedIn
    <3>2. j \in 1..(i - 1)
      BY <2>2, <1>1
    <3> QED
      BY <3>1, <3>2, <1>2
  <2> QED
    BY <2>1, <2>2, <1>3
<1>7. InOrder(g)
  BY <1>2, <1>6 DEF InOrder
<1> QED
  BY <1>4, <1>5, <1>7 DEF g

LEMMA GrowsSame == \A h : Grows(h, h)
  BY DEF Grows

LEMMA GrowsTwice ==
  ASSUME NEW f, NEW g, NEW h, Grows(f, g), Grows(g, h)
  PROVE  Grows(f, h)
  BY DEF Grows

\* The ways a step may go on from DefInv.
Writes == InOrder(header') /\ Grows(header, header')
Returns ==
  /\ Leaves /\ Writes
  /\ \/ ReturnNothing
     \/ \E info : Return(info) /\ (info # NoInfo => NamedIn(header', info.type))
Collects ==
  /\ stack # <<>>
  /\ header' = header /\ processed' = processed
  /\ \E max, at, mems :
       /\ stack' = Append(Callers, [ty |-> top.ty, max |-> max, at |-> at,
                                    mems |-> top.mems \o mems])
       /\ MemsIn(header, mems)

LEMMA NamedGrows ==
  ASSUME NEW g, NEW h, Grows(g, h), NEW mems, MemsIn(g, mems)
  PROVE  MemsIn(h, mems)
  BY DEF MemsIn, Grows

LEMMA MemsConcat ==
  ASSUME NEW h, NEW a, MemsIn(h, a), NEW b, MemsIn(h, b)
  PROVE  MemsIn(h, a \o b)
<1>1. IsSeq(a) /\ IsSeq(b)
  BY DEF MemsIn
<1>2. /\ IsSeq(a \o b)
      /\ \A i \in 1..Len(a \o b) :
           \/ i \in 1..Len(a) /\ (a \o b)[i] = a[i]
           \/ i - Len(a) \in 1..Len(b) /\ (a \o b)[i] = b[i - Len(a)]
  BY <1>1, SeqConcat
<1>3. ASSUME NEW i \in 1..Len(a \o b)
      PROVE  NamedIn(h, (a \o b)[i].type)
  <2>1. CASE i \in 1..Len(a) /\ (a \o b)[i] = a[i]
    BY <2>1 DEF MemsIn
  <2>2. CASE i - Len(a) \in 1..Len(b) /\ (a \o b)[i] = b[i - Len(a)]
    BY <2>2 DEF MemsIn
  <2> QED
    BY <1>2, <2>1, <2>2
<1> QED
  BY <1>2, <1>3 DEF MemsIn

LEMMA ReturnsKeeps ==
  ASSUME DefInv, Returns, CallInv'
  PROVE  DefInv'
<1>1. \A i \in 1..Len(stack') : i \in 1..Len(stack) /\ stack'[i] = stack[i]
  <2>1. Len(stack) \in Nat
    BY SeqLen DEF DefInv, CallInv
  <2> QED
    BY <2>1, LeaveFacts DEF Returns, DefInv, CallInv
<1>2. \A i \in 1..Len(stack') : MemsIn(header', stack'[i].mems)
  BY <1>1, NamedGrows DEF DefInv, Returns, Writes
<1>3. ASSUME NEW t \in DOMAIN processed', processed'[t] # NoInfo
      PROVE  NamedIn(header', processed'[t].type)
  <2>1. t \in DOMAIN processed
    BY <1>3, LeaveFacts DEF Returns, DefInv, CallInv
  <2>2. CASE processed'[t] = processed[t]
    BY <2>1, <2>2, <1>3 DEF DefInv, Returns, Writes, Grows
  <2>3. CASE processed'[t] # processed[t]
    BY <2>1, <2>3, <1>3 DEF Returns, Return, ReturnNothing
  <2> QED
    BY <2>2, <2>3
<1> QED
  BY <1>2, <1>3 DEF DefInv, Returns, Writes

LEMMA CollectsKeeps ==
  ASSUME DefInv, Collects, CallInv'
  PROVE  DefInv'
<1>1. Len(stack) \in Nat /\ Len(stack) \in 1..Len(stack)
  BY SeqLen DEF DefInv, CallInv, Collects
<1>2. PICK max, at, mems :
        /\ stack' = Append(Callers, [ty |-> top.ty, max |-> max, at |-> at,
                                     mems |-> top.mems \o mems])
        /\ MemsIn(header, mems)
  BY DEF Collects
<1>3. /\ IsSeq(Callers)
      /\ Len(Callers) = Len(stack) - 1
      /\ \A i \in 1..(Len(stack) - 1) : Callers[i] = stack[i]
  BY <1>1, SeqPrefix, Len(stack) - 1 \in 0..Len(stack) DEF Callers, DefInv, CallInv
<1>4. /\ Len(stack') = Len(stack)
      /\ \A i \in 1..(Len(stack) - 1) : stack'[i] = stack[i]
      /\ stack'[Len(stack)].mems = top.mems \o mems
  BY <1>1, <1>2, <1>3, SeqAppend
<1>5. MemsIn(header, top.mems)
  BY <1>1 DEF DefInv, top
<1>6. MemsIn(header, top.mems \o mems)
  BY <1>2, <1>5, MemsConcat
<1>7. \A i \in 1..Len(stack') : i \in 1..(Len(stack) - 1) \/ i = Len(stack)
  BY <1>1, <1>4
<1>8. \A i \in 1..Len(stack') : MemsIn(header', stack'[i].mems)
  BY <1>1, <1>4, <1>6, <1>7 DEF Collects, DefInv
<1> QED
  BY <1>8 DEF DefInv, Collects

LEMMA EntersKeeps ==
  ASSUME DefInv, Enters, header' = header, CallInv'
  PROVE  DefInv'
<1>1. Len(stack) \in Nat
  BY SeqLen DEF DefInv, CallInv
<1>2. PICK t, max : Enter(t, max)
  BY DEF Enters
<1>3. stack' = Append(stack, Frame(t, max)) /\ Frame(t, max).mems = <<>>
  BY <1>2 DEF Enter, Frame
<1>4. /\ Len(stack') = Len(stack) + 1
      /\ \A i \in 1..Len(stack) : stack'[i] = stack[i]
      /\ stack'[Len(stack) + 1].mems = <<>>
  BY <1>3, SeqAppend DEF DefInv, CallInv
<1>5. MemsIn(header, <<>>)
  BY SeqEmpty DEF MemsIn
<1>6. \A i \in 1..Len(stack') : i \in 1..Len(stack) \/ i = Len(stack) + 1
  BY <1>1, <1>4
<1>7. \A i \in 1..Len(stack') : MemsIn(header', stack'[i].mems)
  BY <1>4, <1>5, <1>6 DEF DefInv
<1>8. \A u \in DOMAIN processed' :
        processed'[u] = NoInfo \/ (u \in DOMAIN processed /\ processed'[u] = processed[u])
  BY <1>2, EnterFacts DEF DefInv, CallInv
<1> QED
  BY <1>7, <1>8 DEF DefInv

-----------------------------------------------------------------------------
(* What each action does to the header. *)

LEMMA TakesCollect ==
  ASSUME DefInv, SkipEmpty \/ TakeBytes \/ TakeMember
  PROVE  Collects
<1>1. ASSUME NEW mems, Advance(mems), MemsIn(header, mems), stack # <<>>
      PROVE  Collects
  BY <1>1 DEF Advance, Collects, header
<1>2. CASE SkipEmpty
  <2>1. MemsIn(header, <<>>)
    BY SeqEmpty DEF MemsIn
  <2> QED
    BY <1>1, <1>2, <2>1 DEF SkipEmpty, InLoop, Running
<1>3. ASSUME NEW m, ~m.type.def
      PROVE  MemsIn(header, <<m>>)
  <2>1. IsSeq(<<m>>) /\ Len(<<m>>) = 1 /\ <<m>>[1] = m
    BY SeqOne
  <2> QED
    BY <1>3, <2>1 DEF MemsIn, NamedIn
<1>4. \A off, len, from : ~Mem(off, len, ByteType, from).type.def
  BY DEF Mem, ByteType, CType
<1>5. CASE TakeBytes
  <2>1. Advance(<<Mem(Current.off, Space, ByteType, From)>>) /\ stack # <<>>
    BY <1>5 DEF TakeBytes, InLoop, Running
  <2> QED
    BY <1>1, <1>3, <1>4, <2>1
<1>6. CASE TakeMember
  <2> DEFINE u == Child(top.ty, Current.ty)
             info == processed[u]
             rest == IF kind = "struct" /\ info.packed < Space
                     THEN <<Mem(Current.off + info.packed, Space - info.packed, ByteType,
                                [what |-> "padding", nth |-> 0])>>
                     ELSE <<>>
             first == Mem(Current.off, info.packed, info.type, From)
             none == Mem(Current.off, Space, ByteType, From)
  <2>1. /\ u \in DOMAIN processed
        /\ Advance(IF info = NoInfo THEN <<none>> ELSE <<first>> \o rest)
        /\ stack # <<>>
    BY <1>6 DEF TakeMember, InLoop, Running, Got
  <2>2. CASE info = NoInfo
    BY <1>1, <1>3, <1>4, <2>1, <2>2
  <2>3. CASE info # NoInfo
    <3>1. NamedIn(header, info.type)
      BY <2>1, <2>3 DEF DefInv
    <3>2. MemsIn(header, <<first>>)
      <4>1. IsSeq(<<first>>) /\ Len(<<first>>) = 1 /\ <<first>>[1] = first
        BY SeqOne
      <4>2. first.type = info.type
        BY DEF Mem
      <4> HIDE DEF first, info
      <4> QED
        BY <3>1, <4>1, <4>2 DEF MemsIn
    <3>3. MemsIn(header, rest)
      <4>1. MemsIn(header, <<>>)
        BY SeqEmpty DEF MemsIn
      <4>2. CASE kind = "struct" /\ info.packed < Space
        BY <1>3, <1>4, <4>2
      <4>3. CASE ~(kind = "struct" /\ info.packed < Space)
        BY <4>1, <4>3
      <4> QED
        BY <4>2, <4>3
    <3>4. MemsIn(header, <<first>> \o rest)
      BY <3>2, <3>3, MemsConcat
    <3> QED
      BY <1>1, <2>1, <2>3, <3>4
  <2> QED
    BY <2>2, <2>3
<1> QED
  BY <1>2, <1>5, <1>6

\* Handlers that print nothing return a type that is known already, or none.
LEMMA SilentReturns ==
  ASSUME DefInv,
         ProcessOpaque \/ ProcessBase \/ Refuse \/ UnknownDeclaration
           \/ ProcessLink \/ ProcessPointer
  PROVE  Returns
<1>1. header' = header
  BY DEF ProcessOpaque, ProcessBase, Refuse, UnknownDeclaration, ProcessLink,
         ProcessPointer, header
<1>2. Writes
  BY <1>1, GrowsSame DEF Writes, DefInv
<1>3. CASE ProcessOpaque \/ Refuse \/ UnknownDeclaration
  BY <1>2, <1>3 DEF ProcessOpaque, Refuse, UnknownDeclaration, Running, Returns, Leaves
<1>4. CASE ProcessBase
  <2>1. \A s, i, n, m : ~Info(CType(s, i, FALSE), n, m).type.def
    BY DEF Info, CType
  <2> QED
    BY <1>2, <1>4, <2>1 DEF ProcessBase, Running, Returns, Leaves, NamedIn
<1>5. CASE ProcessLink
  <2>1. PICK u : u \in DOMAIN processed /\ Return(processed[u])
    BY <1>5 DEF ProcessLink, Got
  <2>2. processed[u] # NoInfo => NamedIn(header', processed[u].type)
    BY <1>1, <2>1 DEF DefInv
  <2> QED
    BY <1>2, <1>5, <2>1, <2>2 DEF ProcessLink, Running, Returns, Leaves
<1>6. CASE ProcessPointer
  <2> DEFINE u == Child(top.ty, this.ty)
             pointee == IF processed[u] = NoInfo THEN VoidType ELSE processed[u].type
             info == Info(PointerTo(pointee), this.size, this.size)
  <2>1. u \in DOMAIN processed /\ Return(info)
    BY <1>6 DEF ProcessPointer, Got
  <2>2. NamedIn(header, pointee)
    BY <2>1 DEF DefInv, VoidType, CType, NamedIn
  <2>3. info.type.def = pointee.def /\ info.type.name = pointee.name
    BY DEF Info, PointerTo
  <2>4. NamedIn(header', info.type)
    BY <1>1, <2>2, <2>3 DEF NamedIn
  <2> HIDE DEF info
  <2> QED
    BY <1>2, <1>6, <2>1, <2>4 DEF ProcessPointer, Running, Returns, Leaves
<1> QED
  BY <1>3, <1>4, <1>5, <1>6

\* A definition printed for the innermost type, which the handler then returns.
LEMMA PrintReturns ==
  ASSUME DefInv, stack # <<>>, NEW d, NEW info, Return(info),
         header' = Append(header, d), UsesNamed(header, d), info.type.name = d.ident
  PROVE  Returns
<1>1. Writes /\ NamedIn(header', info.type)
  BY AddDef DEF Writes, DefInv
<1> QED
  BY <1>1 DEF Returns, Leaves

LEMMA EnumReturns ==
  ASSUME DefInv, ProcessEnum
  PROVE  Returns
<1> DEFINE size == this.bytes
           a == AllocIdent(printer.used, printer.uniq, this.path)
           info == Info(CType(a.ident, a.ident, TRUE), size, size)
           d == Def(a.ident, "enum", top.ty, <<>>, 1, size)
<1>1. stack # <<>>
  BY DEF ProcessEnum, Running
<1>2. CASE ReturnNothing /\ UNCHANGED printer
  <2>1. header' = header
    BY <1>2 DEF header
  <2> QED
    BY <1>1, <1>2, <2>1, GrowsSame DEF Returns, Leaves, Writes, DefInv
<1>3. CASE /\ Return(info)
           /\ printer' = [used |-> a.used, uniq |-> a.uniq, header |-> Append(printer.header, d)]
  <2>1. UsesNamed(header, d)
    BY DEF UsesNamed, Uses, Def, ToSet
  <2>2. info.type.name = d.ident
    BY DEF Info, CType, Def
  <2>3. header' = Append(header, d)
    BY <1>3 DEF header
  <2> HIDE DEF info, d
  <2> QED
    BY <1>1, <1>3, <2>1, <2>2, <2>3, PrintReturns
<1> QED
  BY <1>2, <1>3 DEF ProcessEnum

\* process_members prints a struct or union whose members are known.
LEMMA EmitReturns ==
  ASSUME DefInv, stack # <<>>, NEW form, NEW mems, MemsIn(header, mems), Emit(form, mems)
  PROVE  Returns
<1> DEFINE a == AllocIdent(printer.used, printer.uniq, this.path)
           last == mems[Len(mems)]
           packed == (last.off + last.len) % Modulus
           d == Def(a.ident, form, top.ty, mems, 1, packed)
           info == Info(CType(a.ident, a.ident, TRUE), packed, this.size)
<1>1. CASE mems = <<>>
  <2>1. /\ ReturnNothing
        /\ printer' = [used |-> a.used, uniq |-> a.uniq, header |-> printer.header]
    BY <1>1 DEF Emit
  <2>2. header' = header
    BY <2>1 DEF header
  <2> QED
    BY <2>1, <2>2, GrowsSame DEF Returns, Leaves, Writes, DefInv
<1>2. CASE mems # <<>>
  <2>1. /\ Return(info)
        /\ printer' = [used |-> a.used, uniq |-> a.uniq, header |-> Append(printer.header, d)]
    BY <1>2 DEF Emit
  <2>2. UsesNamed(header, d)
    <3>1. d.mems = mems /\ DOMAIN mems = 1..Len(mems)
      BY SeqLen DEF Def, MemsIn
    <3> HIDE DEF d
    <3> QED
      BY <3>1 DEF UsesNamed, Uses, ToSet, MemsIn
  <2>3. info.type.name = d.ident
    BY DEF Info, CType, Def
  <2>4. header' = Append(header, d)
    BY <2>1 DEF header
  <2> HIDE DEF info, d
  <2> QED
    BY <2>1, <2>2, <2>3, <2>4, PrintReturns
<1> QED
  BY <1>1, <1>2

LEMMA StructReturns ==
  ASSUME DefInv, EmitStruct
  PROVE  Returns
<1> DEFINE mems == top.mems
           shown == {k \in 1..Len(mems) : mems[k].from.what # "padding"}
           n == IF shown = {} THEN 0 ELSE CHOOSE k \in shown : \A j \in shown : j <= k
<1>1. stack # <<>> /\ Emit("struct", SubSeq(mems, 1, n))
  BY DEF EmitStruct, Running
<1>2. MemsIn(header, mems)
  BY <1>1, SeqLen DEF DefInv, CallInv, top
<1>3. Len(mems) \in Nat
  BY <1>2, SeqLen DEF MemsIn
<1>4. n \in 0..Len(mems)
  <2>1. CASE shown = {}
    BY <2>1, <1>3
  <2>2. CASE shown # {}
    <3>1. \E k \in shown : \A j \in shown : j <= k
      BY <2>2, <1>3, NatMax, shown \subseteq 0..Len(mems)
    <3>2. n \in shown
      BY <2>2, <3>1
    <3>3. n \in 1..Len(mems)
      BY <3>2
    <3> HIDE DEF n
    <3> QED
      BY <3>3, <1>3
  <2> QED
    BY <2>1, <2>2
<1>5. MemsIn(header, SubSeq(mems, 1, n))
  <2> HIDE DEF n
  <2>1. /\ IsSeq(SubSeq(mems, 1, n))
        /\ Len(SubSeq(mems, 1, n)) = n
        /\ \A i \in 1..n : SubSeq(mems, 1, n)[i] = mems[i]
    BY <1>2, <1>4, SeqPrefix DEF MemsIn
  <2>2. \A i \in 1..n : i \in 1..Len(mems)
    BY <1>3, <1>4
  <2> QED
    BY <1>2, <2>1, <2>2 DEF MemsIn
<1> QED
  BY <1>1, <1>5, EmitReturns

LEMMA UnionReturns ==
  ASSUME DefInv, EmitUnion
  PROVE  Returns
<1> DEFINE m == Mem(0, this.size, ByteType, [what |-> "whole", nth |-> 0])
<1>1. stack # <<>> /\ Emit("union", Append(top.mems, m))
  BY DEF EmitUnion, Running
<1>2. MemsIn(header, top.mems)
  BY <1>1, SeqLen DEF DefInv, CallInv, top
<1>3. NamedIn(header, m.type)
  BY DEF Mem, ByteType, CType, NamedIn
<1> HIDE DEF m
<1>4. MemsIn(header, Append(top.mems, m))
  <2>1. /\ IsSeq(Append(top.mems, m))
        /\ Len(Append(top.mems, m)) = Len(top.mems) + 1
        /\ \A i \in 1..Len(top.mems) : Append(top.mems, m)[i] = top.mems[i]
        /\ Append(top.mems, m)[Len(top.mems) + 1] = m
    BY <1>2, SeqAppend DEF MemsIn
  <2>2. Len(top.mems) \in Nat
    BY <1>2, SeqLen DEF MemsIn
  <2>3. \A i \in 1..(Len(top.mems) + 1) : i \in 1..Len(top.mems) \/ i = Len(top.mems) + 1
    BY <2>2
  <2> QED
    BY <1>2, <1>3, <2>1, <2>3 DEF MemsIn
<1> QED
  BY <1>1, <1>4, EmitReturns

LEMMA UsesOfTwo ==
  ASSUME NEW h, NEW x, NEW y, NEW d, d.mems = <<x, y>>, NamedIn(h, x.type), NamedIn(h, y.type)
  PROVE  UsesNamed(h, d)
<1>1. ToSet(d.mems) = {x, y}
  BY DEF ToSet
<1> QED
  BY <1>1 DEF UsesNamed, Uses

LEMMA UsesOfOne ==
  ASSUME NEW h, NEW x, NEW d, d.mems = <<x>>, NamedIn(h, x.type)
  PROVE  UsesNamed(h, d)
<1>1. ToSet(d.mems) = {x}
  BY DEF ToSet
<1> QED
  BY <1>1 DEF UsesNamed, Uses

LEMMA PaddedKnown ==
  ASSUME DefInv, NEW elem, NamedIn(header, elem.type), NEW p, p = PaddedElement(printer, elem)
  PROVE  /\ InOrder(p.printer.header)
         /\ Grows(header, p.printer.header)
         /\ NamedIn(p.printer.header, p.type)
<1>1. CASE elem.size <= elem.packed
  <2>1. p.type = elem.type /\ p.printer.header = header
    BY <1>1 DEF PaddedElement, header
  <2> QED
    BY <2>1, GrowsSame DEF DefInv
<1>2. CASE ~(elem.size <= elem.packed)
  <2> DEFINE a == AllocIdent(printer.used, printer.uniq,
                             PlainName(elem.type.ident \o "_Padded"))
             data == Mem(0, elem.packed, elem.type, [what |-> "data", nth |-> 1])
             pad == Mem(elem.packed, elem.size - elem.packed, ByteType,
                        [what |-> "padding", nth |-> 0])
             d == Def(a.ident, "padded", top.ty, <<data, pad>>, 1, elem.size)
  <2>1. p = [type |-> CType(a.ident, a.ident, TRUE),
             printer |-> [used |-> a.used, uniq |-> a.uniq,
                          header |-> Append(printer.header, d)]]
    BY <1>2 DEF PaddedElement
  <2>2. NamedIn(header, data.type) /\ NamedIn(header, pad.type)
    BY DEF Mem, ByteType, CType, NamedIn
  <2>3. d.mems = <<data, pad>> /\ p.type.name = d.ident
    BY <2>1 DEF Def, CType
  <2>4. p.printer.header = Append(header, d)
    BY <2>1 DEF header
  <2> HIDE DEF d, data, pad
  <2>5. UsesNamed(header, d)
    BY <2>2, <2>3, UsesOfTwo
  <2> QED
    BY <2>3, <2>4, <2>5, AddDef DEF DefInv
<1> QED
  BY <1>1, <1>2

LEMMA ArrayReturns ==
  ASSUME DefInv, ProcessArray
  PROVE  Returns \/ (Stays /\ Writes)
<1> DEFINE elem == processed[Child(top.ty, this.ty)]
           padded == PaddedElement(printer, elem)
           p == padded.printer
           n == ElementCount(elem)
           a == AllocIdent(p.used, p.uniq,
                           PlainName(elem.type.ident \o "_Array" \o ToString(n)))
           x == Mem(0, elem.size, padded.type, [what |-> "data", nth |-> 1])
           d == Def(a.ident, "array", top.ty, <<x>>, n, elem.size * n)
           info == Info(CType(a.ident, a.ident, TRUE), elem.size * n, elem.size * n)
<1>1. stack # <<>> /\ Child(top.ty, this.ty) \in DOMAIN processed
  BY DEF ProcessArray, Running, Got
<1>2. CASE elem = NoInfo
  <2>1. ReturnNothing /\ header' = header
    BY <1>2 DEF ProcessArray, header
  <2> QED
    BY <1>1, <2>1, GrowsSame DEF Returns, Leaves, Writes, DefInv
<1>3. CASE elem # NoInfo
  <2>1. NamedIn(header, elem.type)
    BY <1>1, <1>3 DEF DefInv
  <2>2. /\ InOrder(p.header)
        /\ Grows(header, p.header)
        /\ NamedIn(p.header, padded.type)
    BY <2>1, PaddedKnown
  <2>3. CASE ArrayDividesByZero
    <3>1. printer' = p /\ UNCHANGED <<processed, stack>>
      BY <1>3, <2>3 DEF ProcessArray
    <3> QED
      BY <3>1, <2>2 DEF Stays, Writes, header
  <2>4. CASE ~ArrayDividesByZero /\ n = None
    <3>1. printer' = p /\ ReturnNothing
      BY <1>3, <2>4 DEF ProcessArray
    <3> QED
      BY <1>1, <3>1, <2>2 DEF Returns, Leaves, Writes, header
  <2>5. CASE ~ArrayDividesByZero /\ n # None
    <3>1. /\ Return(info)
          /\ printer' = [used |-> a.used, uniq |-> a.uniq, header |-> Append(p.header, d)]
      BY <1>3, <2>5 DEF ProcessArray
    <3>2. d.mems = <<x>> /\ x.type = padded.type /\ info.type.name = d.ident
      BY DEF Def, Mem, Info, CType
    <3>3. header' = Append(p.header, d)
      BY <3>1 DEF header
    <3> HIDE DEF d, x, info, p, padded
    <3>4. UsesNamed(p.header, d)
      BY <2>2, <3>2, UsesOfOne
    <3>5. Writes /\ NamedIn(header', info.type)
      BY <2>2, <3>2, <3>3, <3>4, AddDef, GrowsTwice DEF Writes
    <3> QED
      BY <1>1, <3>1, <3>5 DEF Returns, Leaves
  <2> QED
    BY <2>3, <2>4, <2>5
<1> QED
  BY <1>2, <1>3

-----------------------------------------------------------------------------
LEMMA DefInit == Init => DefInv
<1> SUFFICES ASSUME Init
             PROVE  DefInv
  OBVIOUS
<1>1. CallInv
  BY CallInit
<1>2. header = <<>> /\ stack = <<>> /\ processed = <<>>
  BY DEF Init, header
<1>3. DOMAIN processed = {}
  BY <1>2
<1> QED
  BY <1>1, <1>2, <1>3, SeqEmpty DEF DefInv, InOrder

LEMMA DefStep ==
  ASSUME DefInv, [Next]_vars
  PROVE  DefInv'
<1>1. CallInv'
  BY CallStep DEF DefInv
<1>2. CASE StartDest \/ Call
  <2>1. Enters /\ header' = header
    BY <1>2 DEF StartDest, Call, Enters, Running, header
  <2> QED
    BY <1>1, <2>1, EntersKeeps
<1>3. CASE ProcessOpaque \/ ProcessBase \/ Refuse \/ UnknownDeclaration
             \/ ProcessLink \/ ProcessPointer
  BY <1>1, <1>3, SilentReturns, ReturnsKeeps
<1>4. CASE ProcessEnum \/ EmitStruct \/ EmitUnion
  BY <1>1, <1>4, EnumReturns, StructReturns, UnionReturns, ReturnsKeeps
<1>5. CASE SkipEmpty \/ TakeBytes \/ TakeMember
  BY <1>1, <1>5, TakesCollect, CollectsKeeps
<1>6. CASE Stays /\ Writes
  BY <1>1, <1>6, NamedGrows DEF Stays, Writes, DefInv, Grows
<1>7. CASE ProcessArray
  BY <1>1, <1>6, <1>7, ArrayReturns, ReturnsKeeps
<1>8. CASE Stays /\ UNCHANGED printer
  <2>1. header' = header
    BY <1>8 DEF header
  <2> QED
    BY <1>6, <1>8, <2>1, GrowsSame DEF Writes, DefInv
<1>9. CASE DestAlreadyProcessed \/ AssertionFails \/ MemberUnderflows
  BY <1>8, <1>9 DEF DestAlreadyProcessed, AssertionFails, MemberUnderflows, Panic, Stays
<1>10. CASE Finish \/ WriteFails \/ Terminated \/ UNCHANGED vars
  BY <1>8, <1>10 DEF Finish, WriteFails, Terminated, vars, Stays
<1> QED
  BY <1>2, <1>3, <1>4, <1>5, <1>7, <1>9, <1>10 DEF Next, Step

\* A C compiler that reads the header from the top finds every type it uses defined,
\* however far the translation got.
THEOREM HeaderOrder == Spec => []CompilesInOrder
<1>1. DefInv => CompilesInOrder
  BY DEF DefInv, InOrder, CompilesInOrder, header
<1>2. Spec => []DefInv
  BY DefInit, DefStep, PTL DEF Spec
<1> QED
  BY <1>1, <1>2, PTL

-----------------------------------------------------------------------------
(***************************************************************************)
(* The type invariant needs more than TypeOK says: a loop stays within the *)
(* layout or the members it runs over, and the members collected on the    *)
(* stack lie at natural offsets.                                           *)
(***************************************************************************)
TurnsIn(t) == CASE types[t].kind = "struct" -> 0..Len(types[t].layout)
              [] types[t].kind = "union"  -> 0..Len(types[t].members)
              [] OTHER -> {0}
MemsOK(mems) ==
  IsSeq(mems) /\ \A k \in 1..Len(mems) : mems[k].off \in Nat /\ mems[k].len \in Nat
FrameOK(f) ==
  f.ty \in TypeIndex /\ f.max \in OptNat /\ f.at \in TurnsIn(f.ty) /\ MemsOK(f.mems)
InputOK ==
  /\ types \in [TypeIndex -> Type]
  /\ \A n \in DOMAIN typeDb : typeDb[n] \in TypeIndex
  /\ dest \in Seq(TypeIndex)
DefOK(d) == d.owner \in TypeIndex /\ d.size \in Nat
HeaderOK(h) == IsSeq(h) /\ \A i \in 1..Len(h) : DefOK(h[i])

TypeInv ==
  /\ InputOK
  /\ CallInv
  /\ DOMAIN processed \subseteq TypeIndex
  /\ \A t \in DOMAIN processed : InfoOK(processed[t])
  /\ \A i \in 1..Len(stack) : FrameOK(stack[i])
  /\ HeaderOK(printer.header)
  /\ status \in {"running", "done", "panicked", "failed"}

LEMMA ChildIndex ==
  ASSUME NEW t \in TypeIndex, NEW off \in Offsets
  PROVE  Child(t, off) \in TypeIndex
  BY DEF Child, TypeIndex

LEMMA TypeFields ==
  ASSUME InputOK, NEW t \in TypeIndex
  PROVE  /\ types[t].size \in OptNat /\ types[t].bytes \in OptNat
         /\ types[t].count \in OptNat /\ types[t].ty \in Offsets
         /\ types[t].members \in Seq(Item) /\ types[t].layout \in Seq(LayoutItem)
<1>1. types[t] \in Type
  BY DEF InputOK
<1> QED
  BY <1>1 DEF Type

LEMMA LayoutLength ==
  ASSUME InputOK, NEW t \in TypeIndex
  PROVE  /\ Len(types[t].layout) \in Nat
         /\ BodyLength(t) \in Int /\ BodyLength(t) <= Len(types[t].layout)
<1>1. Len(types[t].layout) \in Nat
  BY TypeFields, LenProperties
<1>2. BodyLength(t) = Len(types[t].layout) \/ BodyLength(t) = Len(types[t].layout) - 1
  <2>1. CASE HasTail(t)
    BY <2>1 DEF BodyLength
  <2>2. CASE ~HasTail(t)
    <3>1. BodyLength(t) = Len(types[t].layout) - 0
      BY <2>2 DEF BodyLength
    <3> QED
      BY <1>1, <3>1
  <2> QED
    BY <2>1, <2>2
<1> QED
  BY <1>1, <1>2

\* find_next_idx returns an item at or after `start', or none.
LEMMA FindNextFinds ==
  ASSUME InputOK, NEW t \in TypeIndex, NEW start \in Nat \ {0}
  PROVE  FindNext(t, start) = 0 \/ FindNext(t, start) \in start..BodyLength(t)
<1>1. CASE Aligned(t, start) = {}
  BY <1>1 DEF FindNext
<1>2. CASE Aligned(t, start) # {}
  <2>1. Aligned(t, start) \subseteq start..BodyLength(t)
    BY DEF Aligned
  <2>2. Aligned(t, start) \subseteq Nat
    BY <2>1, LayoutLength
  <2>3. \E m \in Aligned(t, start) : \A k \in Aligned(t, start) : m <= k
    BY <1>2, <2>2, NatMin
  <2>4. FindNext(t, start) \in Aligned(t, start)
    BY <1>2, <2>3 DEF FindNext
  <2> QED
    BY <2>1, <2>4
<1> QED
  BY <1>1, <1>2

LEMMA FindNextTurn ==
  ASSUME InputOK, NEW t \in TypeIndex, NEW start \in Nat \ {0}, types[t].kind = "struct"
  PROVE  FindNext(t, start) \in TurnsIn(t)
<1>1. FindNext(t, start) \in 0..Len(types[t].layout)
  BY FindNextFinds, LayoutLength
<1> QED
  BY <1>1 DEF TurnsIn

LEMMA FirstTurnOK ==
  ASSUME InputOK, NEW t \in TypeIndex, NEW max
  PROVE  FirstTurn(t, max) \in TurnsIn(t)
<1>1. 0 \in TurnsIn(t)
  <2>1. Len(types[t].layout) \in Nat /\ Len(types[t].members) \in Nat
    BY TypeFields, LenProperties
  <2> QED
    BY <2>1 DEF TurnsIn
<1>2. CASE types[t].kind = "struct"
  BY <1>1, <1>2, FindNextTurn DEF FirstTurn
<1>3. CASE types[t].kind = "union"
  <2>1. types[t].members # <<>> => 1 \in 1..Len(types[t].members)
    BY TypeFields, EmptySeq, LenProperties
  <2>2. types[t].members # <<>> => 1 \in TurnsIn(t)
    BY <1>3, <2>1 DEF TurnsIn
  <2> QED
    BY <1>1, <1>3, <2>2 DEF FirstTurn
<1>4. CASE types[t].kind \notin {"struct", "union"}
  BY <1>1, <1>4 DEF FirstTurn
<1> QED
  BY <1>2, <1>3, <1>4

LEMMA NewFrameOK ==
  ASSUME InputOK, NEW t \in TypeIndex, NEW max \in OptNat
  PROVE  FrameOK(Frame(t, max))
<1>1. MemsOK(<<>>)
  BY SeqEmpty DEF MemsOK
<1> QED
  BY <1>1, FirstTurnOK DEF FrameOK, Frame

-----------------------------------------------------------------------------
(* The innermost frame, and what its handler computes from it. *)

LEMMA TopOK ==
  ASSUME TypeInv, stack # <<>>
  PROVE  FrameOK(top) /\ top.ty \in DOMAIN processed
<1>1. Len(stack) \in 1..Len(stack)
  BY SeqLen DEF TypeInv, CallInv
<1> QED
  BY <1>1 DEF TypeInv, CallInv, Placeholders, top

LEMMA WholeBytes ==
  ASSUME NEW n \in Int
  PROVE  Bit2Byte(n) \in Int
  BY DEF Bit2Byte, BitsPerByte

LEMMA RoomIsInt ==
  ASSUME InputOK, NEW t \in TypeIndex, NEW max \in OptNat
  PROVE  Room(t, max) \in Int
<1>1. types[t].size \in Int /\ max \in Int
  BY TypeFields DEF OptNat, None
<1>2. CASE HasTail(t)
  <2>1. Len(types[t].layout) \in 1..Len(types[t].layout)
    BY <1>2, TypeFields, EmptySeq DEF HasTail
  <2>2. types[t].layout[Len(types[t].layout)] \in LayoutItem
    BY <2>1, TypeFields, ElementOfSeq
  <2>3. types[t].layout[Len(types[t].layout)].size \in Int
    BY <2>2 DEF LayoutItem, OptNat, None
  <2>4. BodySize(t) = Bit2Byte(types[t].size * BitsPerByte
                                 - types[t].layout[Len(types[t].layout)].size)
    BY <1>2 DEF BodySize
  <2>5. types[t].size * BitsPerByte - types[t].layout[Len(types[t].layout)].size \in Int
    BY <1>1, <2>3 DEF BitsPerByte
  <2>6. BodySize(t) \in Int
    BY <2>4, <2>5, WholeBytes
  <2> QED
    BY <1>1, <2>6 DEF Room
<1>3. CASE ~HasTail(t)
  <2>1. BodySize(t) = Bit2Byte(types[t].size * BitsPerByte - 0)
    BY <1>3 DEF BodySize
  <2>2. types[t].size * BitsPerByte - 0 \in Int
    BY <1>1 DEF BitsPerByte
  <2>3. BodySize(t) \in Int
    BY <2>1, <2>2, WholeBytes
  <2> QED
    BY <1>1, <2>3 DEF Room
<1> QED
  BY <1>2, <1>3

LEMMA OffsetIsNat ==
  ASSUME InputOK, NEW t \in TypeIndex, NEW k \in 1..Len(types[t].layout)
  PROVE  ByteOffset(t, k) \in Nat /\ types[t].layout[k].ty \in Offsets
<1>1. types[t].layout[k] \in LayoutItem
  BY TypeFields, ElementOfSeq
<1> QED
  BY <1>1 DEF LayoutItem, ByteOffset, BitsPerByte

LEMMA SpaceIsInt ==
  ASSUME InputOK, NEW t \in TypeIndex, NEW max \in OptNat, NEW k \in 1..Len(types[t].layout)
  PROVE  SpaceAt(t, max, k) \in Int
<1> DEFINE n == FindNext(t, k + 1)
<1>1. n = 0 \/ n \in 1..Len(types[t].layout)
  BY FindNextFinds, LayoutLength
<1>2. n # 0 => ByteOffset(t, n) \in Int
  BY <1>1, OffsetIsNat
<1>3. Room(t, max) \in Int /\ ByteOffset(t, k) \in Int
  BY RoomIsInt, OffsetIsNat
<1> HIDE DEF n
<1>4. SpaceAt(t, max, k) = (IF n = 0 THEN Room(t, max) ELSE ByteOffset(t, n)) - ByteOffset(t, k)
  BY DEF SpaceAt, n
<1> QED
  BY <1>2, <1>3, <1>4

LEMMA BitSizeOK ==
  ASSUME InputOK, NEW t \in TypeIndex, NEW m \in Item
  PROVE  BitSize(types, t, m) \in OptNat
<1>1. m.size \in OptNat /\ m.ty \in Offsets
  BY DEF Item
<1>2. types[Child(t, m.ty)].bytes \in OptNat
  BY <1>1, ChildIndex, TypeFields
<1> QED
  BY <1>1, <1>2 DEF BitSize, Times, OptNat, None, BitsPerByte

\* The member that the innermost loop is at.
LEMMA CurrentOK ==
  ASSUME TypeInv, stack # <<>>, top.at # 0
  PROVE  /\ kind \in {"struct", "union"}
         /\ Current.off \in Nat /\ Current.len \in Int /\ Current.ty \in Offsets
<1>1. top.ty \in TypeIndex /\ top.max \in OptNat /\ top.at \in TurnsIn(top.ty) /\ InputOK
  BY TopOK DEF FrameOK, TypeInv
<1>2. kind \in {"struct", "union"}
  BY <1>1 DEF TurnsIn, kind, this
<1>3. CASE kind = "struct"
  <2>1. top.at \in 1..Len(types[top.ty].layout)
    BY <1>1, <1>3, LayoutLength DEF TurnsIn, kind, this
  <2>2. /\ Current.off = ByteOffset(top.ty, top.at)
        /\ Current.len = SpaceAt(top.ty, top.max, top.at)
        /\ Current.ty = types[top.ty].layout[top.at].ty
    BY <1>3 DEF Current, this
  <2> QED
    BY <1>1, <1>2, <2>1, <2>2, OffsetIsNat, SpaceIsInt
<1>4. CASE kind = "union"
  <2> DEFINE m == types[top.ty].members[top.at]
             size == BitSize(types, top.ty, m)
  <2>1. m \in Item
    <3>1. top.at \in 1..Len(types[top.ty].members)
      <4>1. top.at \in 0..Len(types[top.ty].members)
        BY <1>1, <1>4 DEF TurnsIn, kind, this
      <4> QED
        BY <4>1, <1>1, TypeFields, LenProperties
    <3> QED
      BY <3>1, <1>1, TypeFields, ElementOfSeq
  <2>2. size \in OptNat
    BY <1>1, <2>1, BitSizeOK
  <2>3. size # None => Bit2Byte(size) \in Int
    BY <2>2, WholeBytes DEF OptNat
  <2>4. /\ Current.off = 0
        /\ Current.len = IF size = None THEN 0 ELSE Bit2Byte(size)
        /\ Current.ty = m.ty
    BY <1>4 DEF Current, this
  <2> HIDE DEF size
  <2>5. m.ty \in Offsets
    BY <2>1 DEF Item
  <2> QED
    BY <1>2, <2>3, <2>4, <2>5
<1> QED
  BY <1>2, <1>3, <1>4

LEMMA ModuloNat ==
  ASSUME NEW a \in Int
  PROVE  a % Modulus \in Nat
  BY ModulusAssumption

LEMMA TargetsOK ==
  ASSUME InputOK, NEW t \in TypeIndex
  PROVE  Targets(t) \subseteq TypeIndex
  BY TypeFields, ChildIndex DEF Targets, InputOK

LEMMA WantedOK ==
  ASSUME TypeInv, stack # <<>>, NEW w \in Wanted
  PROVE  w.ty \in TypeIndex /\ w.max \in OptNat
<1>1. top.ty \in TypeIndex /\ top.max \in OptNat /\ InputOK
  BY TopOK DEF FrameOK, TypeInv
<1>2. this.ty \in Offsets
  BY <1>1, TypeFields DEF this
<1>3. None \in OptNat
  BY DEF OptNat
<1>4. CASE IsAlias(top.ty) \/ IsDeclaration(top.ty)
  <2>1. kind \notin {"pointer", "array"}
    BY <1>4 DEF IsAlias, IsDeclaration, kind, this
  <2>2. w \in {[ty |-> u, max |-> top.max] : u \in Targets(top.ty)}
    BY <1>4, <2>1 DEF Wanted
  <2> QED
    BY <1>1, <2>2, TargetsOK
<1>5. ASSUME NEW off \in Offsets, NEW max \in OptNat, w = [ty |-> Child(top.ty, off), max |-> max]
      PROVE  w.ty \in TypeIndex /\ w.max \in OptNat
  BY <1>1, <1>5, ChildIndex
<1>6. CASE ~(IsAlias(top.ty) \/ IsDeclaration(top.ty)) /\ kind \in {"pointer", "array"}
  <2>1. w = [ty |-> Child(top.ty, this.ty), max |-> None]
    BY <1>6 DEF Wanted
  <2> QED
    BY <1>2, <1>3, <1>5, <2>1
<1>7. CASE ~(IsAlias(top.ty) \/ IsDeclaration(top.ty)) /\ kind \notin {"pointer", "array"}
  <2>1. w = [ty |-> Child(top.ty, Current.ty), max |-> Space] /\ top.at # 0
    BY <1>7 DEF Wanted
  <2>2. Current.ty \in Offsets /\ Current.len \in Int
    BY <2>1, CurrentOK
  <2>3. Space \in OptNat
    BY <2>2, ModuloNat DEF Space, OptNat
  <2> QED
    BY <1>5, <2>1, <2>2, <2>3
<1> QED
  BY <1>4, <1>6, <1>7

-----------------------------------------------------------------------------
(* The three ways a step changes the call stack. *)

Statuses == {"running", "done", "panicked", "failed"}

LEMMA EnterTyped ==
  ASSUME TypeInv, CallInv', NEW t \in TypeIndex, NEW max \in OptNat, Enter(t, max),
         InputOK', UNCHANGED <<types, printer, status>>
  PROVE  TypeInv'
<1>1. Len(stack) \in Nat
  BY SeqLen DEF TypeInv, CallInv
<1>2. stack' = Append(stack, Frame(t, max))
  BY DEF Enter
<1>3. /\ Len(stack') = Len(stack) + 1
      /\ \A i \in 1..Len(stack) : stack'[i] = stack[i]
      /\ stack'[Len(stack) + 1] = Frame(t, max)
  BY <1>2, SeqAppend DEF TypeInv, CallInv
<1>4. FrameOK(Frame(t, max))
  BY NewFrameOK DEF TypeInv
<1>5. \A i \in 1..Len(stack') : FrameOK(stack'[i])
  <2>1. \A i \in 1..Len(stack') : i \in 1..Len(stack) \/ i = Len(stack) + 1
    BY <1>1, <1>3
  <2> QED
    BY <1>3, <1>4, <2>1 DEF TypeInv
<1>6. (\A i \in 1..Len(stack) : FrameOK(stack[i]))'
  BY <1>5 DEF FrameOK, TurnsIn
<1>7. /\ DOMAIN processed' = DOMAIN processed \union {t}
      /\ processed'[t] = NoInfo
      /\ \A u \in DOMAIN processed : u # t => processed'[u] = processed[u]
  BY EnterFacts DEF TypeInv, CallInv
<1>8. \A u \in DOMAIN processed' : InfoOK(processed'[u])
  BY <1>7 DEF TypeInv, InfoOK
<1> QED
  BY <1>6, <1>7, <1>8 DEF TypeInv

LEMMA LeaveTyped ==
  ASSUME TypeInv, CallInv', Leaves, UNCHANGED <<types, typeDb, dest>>,
         ReturnNothing \/ (\E info : InfoOK(info) /\ Return(info)),
         HeaderOK(printer'.header), status' \in Statuses
  PROVE  TypeInv'
<1>1. Len(stack) \in Nat
  BY SeqLen DEF TypeInv, CallInv
<1>2. \A i \in 1..Len(stack') : i \in 1..Len(stack) /\ stack'[i] = stack[i]
  BY <1>1, LeaveFacts DEF TypeInv, CallInv
<1>3. \A i \in 1..Len(stack') : FrameOK(stack'[i])
  BY <1>2 DEF TypeInv
<1>4. (\A i \in 1..Len(stack) : FrameOK(stack[i]))'
  BY <1>3 DEF FrameOK, TurnsIn
<1>5. DOMAIN processed' = DOMAIN processed
  BY LeaveFacts DEF TypeInv, CallInv
<1>6. \A t \in DOMAIN processed' : InfoOK(processed'[t])
  BY <1>5 DEF TypeInv, Return, ReturnNothing
<1>7. InputOK'
  BY DEF TypeInv, InputOK
<1> QED
  BY <1>4, <1>5, <1>6, <1>7 DEF TypeInv, Statuses

LEMMA MemsJoin ==
  ASSUME NEW a, NEW b, MemsOK(a), MemsOK(b)
  PROVE  MemsOK(a \o b)
<1>1. /\ IsSeq(a \o b)
      /\ \A i \in 1..Len(a \o b) :
           \/ i \in 1..Len(a) /\ (a \o b)[i] = a[i]
           \/ i - Len(a) \in 1..Len(b) /\ (a \o b)[i] = b[i - Len(a)]
  BY SeqConcat DEF MemsOK
<1>2. ASSUME NEW i \in 1..Len(a \o b)
      PROVE  (a \o b)[i].off \in Nat /\ (a \o b)[i].len \in Nat
  <2>1. CASE i \in 1..Len(a) /\ (a \o b)[i] = a[i]
    BY <2>1 DEF MemsOK
  <2>2. CASE i - Len(a) \in 1..Len(b) /\ (a \o b)[i] = b[i - Len(a)]
    BY <2>2 DEF MemsOK
  <2> QED
    BY <1>1, <2>1, <2>2
<1> QED
  BY <1>1, <1>2 DEF MemsOK

LEMMA NextTurnOK ==
  ASSUME TypeInv, stack # <<>>, top.at # 0
  PROVE  NextTurn \in TurnsIn(top.ty)
<1>1. top.ty \in TypeIndex /\ top.at \in TurnsIn(top.ty) /\ InputOK
  BY TopOK DEF FrameOK, TypeInv
<1>2. kind \in {"struct", "union"}
  BY CurrentOK
<1>3. CASE kind = "struct"
  <2>1. top.at + 1 \in Nat \ {0}
    BY <1>1, <1>3, LayoutLength DEF TurnsIn, kind, this
  <2> QED
    BY <1>1, <1>3, <2>1, FindNextTurn DEF NextTurn, kind, this
<1>4. CASE kind = "union"
  <2>1. Len(types[top.ty].members) \in Nat
    BY <1>1, TypeFields, LenProperties
  <2>2. top.at \in 0..Len(types[top.ty].members)
    BY <1>1, <1>4 DEF TurnsIn, kind, this
  <2>3. NextTurn = IF top.at < Len(types[top.ty].members) THEN top.at + 1 ELSE 0
    BY <1>4 DEF NextTurn, this
  <2>4. NextTurn \in 0..Len(types[top.ty].members)
    BY <2>1, <2>2, <2>3
  <2> QED
    BY <1>4, <2>4 DEF TurnsIn, kind, this
<1> QED
  BY <1>2, <1>3, <1>4

LEMMA AdvanceTyped ==
  ASSUME TypeInv, CallInv', stack # <<>>, top.at # 0, NEW mems, MemsOK(mems), Advance(mems)
  PROVE  TypeInv'
<1> DEFINE f == [ty |-> top.ty, max |-> top.max, at |-> NextTurn, mems |-> top.mems \o mems]
<1>1. Len(stack) \in Nat /\ Len(stack) \in 1..Len(stack)
  BY SeqLen DEF TypeInv, CallInv
<1>2. FrameOK(f)
  BY TopOK, NextTurnOK, MemsJoin DEF FrameOK
<1>3. stack' = Append(Callers, f)
  BY DEF Advance
<1> HIDE DEF f
<1>4. /\ IsSeq(Callers)
      /\ Len(Callers) = Len(stack) - 1
      /\ \A i \in 1..(Len(stack) - 1) : Callers[i] = stack[i]
  BY <1>1, SeqPrefix, Len(stack) - 1 \in 0..Len(stack) DEF Callers, TypeInv, CallInv
<1>5. /\ Len(stack') = Len(stack)
      /\ \A i \in 1..(Len(stack) - 1) : stack'[i] = stack[i]
      /\ stack'[Len(stack)] = f
  BY <1>1, <1>3, <1>4, SeqAppend
<1>6. \A i \in 1..Len(stack') : FrameOK(stack'[i])
  <2>1. \A i \in 1..Len(stack') : i \in 1..(Len(stack) - 1) \/ i = Len(stack)
    BY <1>1, <1>5
  <2>2. \A i \in 1..(Len(stack) - 1) : i \in 1..Len(stack)
    BY <1>1
  <2> QED
    BY <1>2, <1>5, <2>1, <2>2 DEF TypeInv
<1>7. (\A i \in 1..Len(stack) : FrameOK(stack[i]))'
  BY <1>6 DEF Advance, FrameOK, TurnsIn
<1> QED
  BY <1>7 DEF Advance, TypeInv, InputOK

-----------------------------------------------------------------------------
(* The handlers. *)

LEMMA HeaderGrows ==
  ASSUME NEW h, HeaderOK(h), NEW d, DefOK(d)
  PROVE  HeaderOK(Append(h, d))
<1>1. Len(h) \in Nat
  BY SeqLen DEF HeaderOK
<1>2. /\ IsSeq(Append(h, d))
      /\ Len(Append(h, d)) = Len(h) + 1
      /\ \A i \in 1..Len(h) : Append(h, d)[i] = h[i]
      /\ Append(h, d)[Len(h) + 1] = d
  BY SeqAppend DEF HeaderOK
<1>3. \A i \in 1..(Len(h) + 1) : i \in 1..Len(h) \/ i = Len(h) + 1
  BY <1>1
<1> QED
  BY <1>2, <1>3 DEF HeaderOK

LEMMA SilentTyped ==
  ASSUME TypeInv, CallInv',
         ProcessOpaque \/ ProcessBase \/ Refuse \/ UnknownDeclaration
           \/ ProcessLink \/ ProcessPointer
  PROVE  TypeInv'
<1>1. /\ stack # <<>> /\ UNCHANGED <<types, typeDb, dest, printer, status>>
  BY DEF ProcessOpaque, ProcessBase, Refuse, UnknownDeclaration, ProcessLink,
         ProcessPointer, Running
<1>2. this.size \in OptNat
  BY <1>1, TopOK, TypeFields DEF TypeInv, FrameOK, this
<1>3. ReturnNothing \/ \E info : InfoOK(info) /\ Return(info)
  <2>1. CASE ProcessOpaque \/ Refuse \/ UnknownDeclaration
    BY <2>1 DEF ProcessOpaque, Refuse, UnknownDeclaration
  <2>2. CASE ProcessBase
    <3>1. \A t : this.size # None => InfoOK(Info(t, this.size, this.size))
      BY <1>2 DEF InfoOK, Info, OptNat
    <3> QED
      BY <2>2, <3>1 DEF ProcessBase
  <2>3. CASE ProcessLink
    BY <2>3 DEF ProcessLink, Got, TypeInv
  <2>4. CASE ProcessPointer
    <3> DEFINE info(c) == Info(PointerTo(c), this.size, this.size)
    <3>1. PICK c : Return(info(c))
      BY <2>4 DEF ProcessPointer
    <3>2. this.size # None
      <4>1. CASE Unfit(this.size, top.max)
        <5>1. ~IsAlias(top.ty) /\ ~IsDeclaration(top.ty) /\ kind = "pointer"
          BY <2>4 DEF ProcessPointer, IsAlias, IsDeclaration, kind, this
        <5>2. Wanted = {}
          BY <4>1, <5>1 DEF Wanted
        <5> QED
          BY <2>4, <5>2 DEF ProcessPointer, Got
      <4>2. CASE ~Unfit(this.size, top.max)
        BY <4>2 DEF Unfit
      <4> QED
        BY <4>1, <4>2
    <3>3. InfoOK(info(c))
      BY <1>2, <3>2 DEF InfoOK, Info, OptNat
    <3> QED
      BY <3>1, <3>3
  <2> QED
    BY <2>1, <2>2, <2>3, <2>4
<1>4. Leaves
  BY <1>1, <1>3 DEF Leaves
<1> QED
  BY <1>1, <1>3, <1>4, LeaveTyped DEF TypeInv, Statuses

LEMMA EnumTyped ==
  ASSUME TypeInv, CallInv', ProcessEnum
  PROVE  TypeInv'
<1> DEFINE size == this.bytes
           a == AllocIdent(printer.used, printer.uniq, this.path)
           info == Info(CType(a.ident, a.ident, TRUE), size, size)
           d == Def(a.ident, "enum", top.ty, <<>>, 1, size)
<1>1. stack # <<>> /\ UNCHANGED <<types, typeDb, dest, status>>
  BY DEF ProcessEnum, Running
<1>2. CASE ReturnNothing /\ UNCHANGED printer
  BY <1>1, <1>2, LeaveTyped DEF Leaves, TypeInv, Statuses
<1>3. CASE /\ size \in {1, 2, 4, 8}
           /\ Return(info)
           /\ printer' = [used |-> a.used, uniq |-> a.uniq, header |-> Append(printer.header, d)]
  <2>1. DefOK(d) /\ InfoOK(info)
    <3>1. size \in Nat
      BY <1>3
    <3>2. top.ty \in TypeIndex
      BY <1>1, TopOK DEF FrameOK
    <3> HIDE DEF size
    <3> QED
      BY <3>1, <3>2 DEF DefOK, Def, InfoOK, Info
  <2>2. printer'.header = Append(printer.header, d)
    BY <1>3
  <2> HIDE DEF d, info
  <2>3. HeaderOK(printer'.header)
    BY <2>1, <2>2, HeaderGrows DEF TypeInv
  <2> QED
    BY <1>1, <1>3, <2>1, <2>3, LeaveTyped DEF Leaves, TypeInv, Statuses
<1> QED
  BY <1>2, <1>3 DEF ProcessEnum

LEMMA EmitTyped ==
  ASSUME TypeInv, CallInv', stack # <<>>, NEW form, NEW mems, MemsOK(mems),
         Emit(form, mems), this.size # None, UNCHANGED <<types, typeDb, dest, status>>
  PROVE  TypeInv'
<1> DEFINE a == AllocIdent(printer.used, printer.uniq, this.path)
           last == mems[Len(mems)]
           packed == (last.off + last.len) % Modulus
           d == Def(a.ident, form, top.ty, mems, 1, packed)
           info == Info(CType(a.ident, a.ident, TRUE), packed, this.size)
<1>1. CASE mems = <<>>
  <2>1. /\ ReturnNothing
        /\ printer' = [used |-> a.used, uniq |-> a.uniq, header |-> printer.header]
    BY <1>1 DEF Emit
  <2>2. HeaderOK(printer'.header)
    BY <2>1 DEF TypeInv
  <2> QED
    BY <2>1, <2>2, LeaveTyped DEF Leaves, TypeInv, Statuses
<1>2. CASE mems # <<>>
  <2>1. /\ Return(info)
        /\ printer' = [used |-> a.used, uniq |-> a.uniq, header |-> Append(printer.header, d)]
    BY <1>2 DEF Emit
  <2>2. packed \in Nat
    <3>1. last.off + last.len \in Int
      BY <1>2, SeqLen DEF MemsOK
    <3> QED
      BY <3>1, ModuloNat
  <2>3. top.ty \in TypeIndex /\ this.size \in Nat
    BY TopOK, TypeFields DEF TypeInv, FrameOK, this, OptNat
  <2> HIDE DEF packed
  <2>4. DefOK(d) /\ InfoOK(info)
    BY <2>2, <2>3 DEF DefOK, Def, InfoOK, Info
  <2>5. printer'.header = Append(printer.header, d)
    BY <2>1
  <2> HIDE DEF d, info
  <2>6. HeaderOK(printer'.header)
    BY <2>4, <2>5, HeaderGrows DEF TypeInv
  <2> QED
    BY <2>1, <2>4, <2>6, LeaveTyped DEF Leaves, TypeInv, Statuses
<1> QED
  BY <1>1, <1>2

LEMMA StructTyped ==
  ASSUME TypeInv, CallInv', EmitStruct
  PROVE  TypeInv'
<1> DEFINE mems == top.mems
           shown == {k \in 1..Len(mems) : mems[k].from.what # "padding"}
           n == IF shown = {} THEN 0 ELSE CHOOSE k \in shown : \A j \in shown : j <= k
<1>1. /\ stack # <<>> /\ Emit("struct", SubSeq(mems, 1, n)) /\ this.size # None
      /\ UNCHANGED <<types, typeDb, dest, status>>
  BY DEF EmitStruct, Running
<1>2. MemsOK(mems)
  BY <1>1, TopOK DEF FrameOK
<1>3. Len(mems) \in Nat
  BY <1>2, SeqLen DEF MemsOK
<1>4. n \in 0..Len(mems)
  <2>1. CASE shown = {}
    BY <2>1, <1>3
  <2>2. CASE shown # {}
    <3>1. \E k \in shown : \A j \in shown : j <= k
      BY <2>2, <1>3, NatMax, shown \subseteq 0..Len(mems)
    <3>2. n \in shown
      BY <2>2, <3>1
    <3>3. n \in 1..Len(mems)
      BY <3>2
    <3> HIDE DEF n
    <3> QED
      BY <3>3, <1>3
  <2> QED
    BY <2>1, <2>2
<1> HIDE DEF n
<1>5. MemsOK(SubSeq(mems, 1, n))
  <2>1. /\ IsSeq(SubSeq(mems, 1, n))
        /\ Len(SubSeq(mems, 1, n)) = n
        /\ \A i \in 1..n : SubSeq(mems, 1, n)[i] = mems[i]
    BY <1>2, <1>4, SeqPrefix DEF MemsOK
  <2>2. \A i \in 1..n : i \in 1..Len(mems)
    BY <1>3, <1>4
  <2> QED
    BY <1>2, <2>1, <2>2 DEF MemsOK
<1> QED
  BY <1>1, <1>5, EmitTyped

LEMMA MemsGrow ==
  ASSUME NEW mems, MemsOK(mems), NEW m, m.off \in Nat, m.len \in Nat
  PROVE  MemsOK(Append(mems, m))
<1>1. Len(mems) \in Nat
  BY SeqLen DEF MemsOK
<1>2. /\ IsSeq(Append(mems, m))
      /\ Len(Append(mems, m)) = Len(mems) + 1
      /\ \A i \in 1..Len(mems) : Append(mems, m)[i] = mems[i]
      /\ Append(mems, m)[Len(mems) + 1] = m
  BY SeqAppend DEF MemsOK
<1>3. \A i \in 1..(Len(mems) + 1) : i \in 1..Len(mems) \/ i = Len(mems) + 1
  BY <1>1
<1> QED
  BY <1>2, <1>3 DEF MemsOK

LEMMA UnionTyped ==
  ASSUME TypeInv, CallInv', EmitUnion
  PROVE  TypeInv'
<1> DEFINE m == Mem(0, this.size, ByteType, [what |-> "whole", nth |-> 0])
<1>1. /\ stack # <<>> /\ Emit("union", Append(top.mems, m)) /\ this.size # None
      /\ UNCHANGED <<types, typeDb, dest, status>>
  BY DEF EmitUnion, Running, Unfit
<1>2. MemsOK(top.mems) /\ top.ty \in TypeIndex
  BY <1>1, TopOK DEF FrameOK
<1>3. this.size \in Nat
  BY <1>1, <1>2, TypeFields DEF TypeInv, this, OptNat
<1>4. m.off \in Nat /\ m.len \in Nat
  BY <1>3 DEF Mem
<1> HIDE DEF m
<1>5. MemsOK(Append(top.mems, m))
  BY <1>2, <1>4, MemsGrow
<1> QED
  BY <1>1, <1>5, EmitTyped

LEMMA MemsOne ==
  ASSUME NEW m, m.off \in Nat, m.len \in Nat
  PROVE  MemsOK(<<m>>)
<1>1. IsSeq(<<m>>) /\ Len(<<m>>) = 1 /\ <<m>>[1] = m
  BY SeqOne
<1>2. \A k \in 1..1 : k = 1
  OBVIOUS
<1> QED
  BY <1>1, <1>2 DEF MemsOK

LEMMA TakesTyped ==
  ASSUME TypeInv, CallInv', SkipEmpty \/ TakeBytes \/ TakeMember
  PROVE  TypeInv'
<1>1. stack # <<>> /\ top.at # 0
  BY DEF SkipEmpty, TakeBytes, TakeMember, InLoop, Running
<1>2. Current.off \in Nat /\ Current.len \in Int
  BY <1>1, CurrentOK
<1>3. Space \in Nat
  BY <1>2, ModuloNat DEF Space
<1>4. MemsOK(<<Mem(Current.off, Space, ByteType, From)>>)
  <2> DEFINE m == Mem(Current.off, Space, ByteType, From)
  <2>1. m.off \in Nat /\ m.len \in Nat
    BY <1>2, <1>3 DEF Mem
  <2> HIDE DEF m
  <2> QED
    BY <2>1, MemsOne DEF m
<1>5. CASE SkipEmpty
  <2>1. MemsOK(<<>>)
    BY SeqEmpty DEF MemsOK
  <2> QED
    BY <1>1, <1>5, <2>1, AdvanceTyped DEF SkipEmpty
<1>6. CASE TakeBytes
  BY <1>1, <1>4, <1>6, AdvanceTyped DEF TakeBytes
<1>7. CASE TakeMember
  <2> DEFINE u == Child(top.ty, Current.ty)
             info == processed[u]
             own == Mem(Current.off, info.packed, info.type, From)
             pad == Mem(Current.off + info.packed, Space - info.packed, ByteType,
                        [what |-> "padding", nth |-> 0])
             rest == IF kind = "struct" /\ info.packed < Space THEN <<pad>> ELSE <<>>
  <2>1. /\ u \in DOMAIN processed
        /\ Advance(IF info = NoInfo THEN <<Mem(Current.off, Space, ByteType, From)>>
                   ELSE <<own>> \o rest)
    BY <1>7 DEF TakeMember, Got
  <2>2. CASE info = NoInfo
    BY <1>1, <1>4, <2>1, <2>2, AdvanceTyped
  <2>3. CASE info # NoInfo
    <3>1. info.packed \in Nat
      BY <2>1, <2>3 DEF TypeInv, InfoOK
    <3> HIDE DEF u, info
    <3>2. MemsOK(<<own>>)
      <4>1. own.off \in Nat /\ own.len \in Nat
        BY <1>2, <3>1 DEF Mem
      <4> HIDE DEF own
      <4> QED
        BY <4>1, MemsOne
    <3>3. MemsOK(rest)
      <4>1. CASE kind = "struct" /\ info.packed < Space
        <5>1. Current.off + info.packed \in Nat /\ Space - info.packed \in Nat
          BY <1>2, <1>3, <3>1, <4>1
        <5>2. pad.off \in Nat /\ pad.len \in Nat
          BY <5>1 DEF Mem
        <5>3. rest = <<pad>>
          BY <4>1
        <5> HIDE DEF pad, rest
        <5> QED
          BY <5>2, <5>3, MemsOne
      <4>2. CASE ~(kind = "struct" /\ info.packed < Space)
        BY <4>2, SeqEmpty DEF MemsOK
      <4> QED
        BY <4>1, <4>2
    <3> HIDE DEF own, rest
    <3>4. MemsOK(<<own>> \o rest)
      BY <3>2, <3>3, MemsJoin
    <3>5. Advance(<<own>> \o rest)
      BY <2>1, <2>3
    <3> QED
      BY <1>1, <3>4, <3>5, AdvanceTyped
  <2> QED
    BY <2>2, <2>3
<1> QED
  BY <1>5, <1>6, <1>7

LEMMA StaysTyped ==
  ASSUME TypeInv, CallInv', UNCHANGED <<types, typeDb, dest, processed, stack>>,
         HeaderOK(printer'.header), status' \in Statuses
  PROVE  TypeInv'
<1>1. (\A i \in 1..Len(stack) : FrameOK(stack[i]))'
  BY DEF TypeInv, FrameOK, TurnsIn
<1>2. InputOK' /\ (\A t \in DOMAIN processed : InfoOK(processed[t]))'
  BY DEF TypeInv, InputOK
<1> QED
  BY <1>1, <1>2 DEF TypeInv, Statuses

LEMMA PaddedTyped ==
  ASSUME TypeInv, stack # <<>>, NEW elem, elem.size \in Nat
  PROVE  HeaderOK(PaddedElement(printer, elem).printer.header)
<1>1. CASE elem.size <= elem.packed
  BY <1>1 DEF PaddedElement, TypeInv
<1>2. CASE ~(elem.size <= elem.packed)
  <2> DEFINE a == AllocIdent(printer.used, printer.uniq, PlainName(elem.type.ident \o "_Padded"))
             pad == Mem(elem.packed, elem.size - elem.packed, ByteType,
                        [what |-> "padding", nth |-> 0])
             d == Def(a.ident, "padded", top.ty,
                      <<Mem(0, elem.packed, elem.type, [what |-> "data", nth |-> 1]), pad>>,
                      1, elem.size)
  <2>1. top.ty \in TypeIndex
    BY TopOK DEF FrameOK
  <2>2. DefOK(d)
    BY <2>1 DEF DefOK, Def
  <2>3. PaddedElement(printer, elem).printer.header = Append(printer.header, d)
    BY <1>2 DEF PaddedElement
  <2> HIDE DEF d
  <2> QED
    BY <2>2, <2>3, HeaderGrows DEF TypeInv
<1> QED
  BY <1>1, <1>2

LEMMA CountOK ==
  ASSUME InputOK, NEW t \in TypeIndex
  PROVE  Count(types, t) \in OptNat
<1> DEFINE elem == types[Child(t, types[t].ty)].bytes
           size == types[t].size
<1>1. elem \in OptNat /\ size \in OptNat /\ types[t].count \in OptNat
  BY TypeFields, ChildIndex
<1>2. Count(types, t) = IF types[t].count # None THEN types[t].count
                        ELSE IF size = None \/ elem \in {None, 0} THEN None
                        ELSE size \div elem
  BY DEF Count
<1> HIDE DEF elem, size
<1>3. CASE types[t].count # None \/ size = None \/ elem \in {None, 0}
  BY <1>1, <1>2, <1>3 DEF OptNat
<1>4. CASE types[t].count = None /\ size # None /\ elem \notin {None, 0}
  <2>1. size \in Nat /\ elem \in Nat \ {0}
    BY <1>1, <1>4 DEF OptNat
  <2>2. size \div elem \in Nat
    BY <2>1
  <2> QED
    BY <1>2, <1>4, <2>2 DEF OptNat
<1> QED
  BY <1>3, <1>4

LEMMA ArrayTyped ==
  ASSUME TypeInv, CallInv', ProcessArray
  PROVE  TypeInv'
<1> DEFINE elem == processed[Child(top.ty, this.ty)]
           padded == PaddedElement(printer, elem)
           p == padded.printer
           n == ElementCount(elem)
           a == AllocIdent(p.used, p.uniq,
                           PlainName(elem.type.ident \o "_Array" \o ToString(n)))
           d == Def(a.ident, "array", top.ty,
                    <<Mem(0, elem.size, padded.type, [what |-> "data", nth |-> 1])>>,
                    n, elem.size * n)
           info == Info(CType(a.ident, a.ident, TRUE), elem.size * n, elem.size * n)
<1>1. /\ stack # <<>> /\ UNCHANGED <<types, typeDb, dest>>
      /\ Child(top.ty, this.ty) \in DOMAIN processed
  BY DEF ProcessArray, Running, Got
<1>2. top.ty \in TypeIndex /\ InputOK
  BY <1>1, TopOK DEF FrameOK, TypeInv
<1>3. InfoOK(elem)
  BY <1>1 DEF TypeInv
<1>4. CASE elem = NoInfo
  <2>1. ReturnNothing /\ UNCHANGED <<printer, status>>
    BY <1>4 DEF ProcessArray
  <2> QED
    BY <1>1, <2>1, LeaveTyped DEF Leaves, TypeInv, Statuses
<1>5. CASE elem # NoInfo
  <2>1. elem.size \in Nat
    BY <1>3, <1>5 DEF InfoOK
  <2>2. \/ status' = "panicked" /\ printer' = p /\ UNCHANGED <<processed, stack>>
        \/ ReturnNothing /\ printer' = p /\ UNCHANGED status
        \/ /\ n # None
           /\ Return(info)
           /\ printer' = [used |-> a.used, uniq |-> a.uniq, header |-> Append(p.header, d)]
           /\ UNCHANGED status
    BY <1>5 DEF ProcessArray
  <2>3. n \in OptNat
    <3>1. Count(types, top.ty) \in OptNat
      BY <1>2, CountOK
    <3> QED
      BY <3>1 DEF ElementCount, OptNat
  <2> HIDE DEF elem, n
  <2>4. HeaderOK(p.header)
    BY <1>1, <2>1, PaddedTyped
  <2> HIDE DEF p, padded, info, d
  <2>5. CASE status' = "panicked" /\ printer' = p /\ UNCHANGED <<processed, stack>>
    BY <1>1, <2>4, <2>5, StaysTyped DEF Statuses
  <2>6. CASE ReturnNothing /\ printer' = p /\ UNCHANGED status
    BY <1>1, <2>4, <2>6, LeaveTyped DEF Leaves, TypeInv, Statuses
  <2>7. CASE /\ n # None
             /\ Return(info)
             /\ printer' = [used |-> a.used, uniq |-> a.uniq, header |-> Append(p.header, d)]
             /\ UNCHANGED status
    <3>1. n \in Nat
      BY <2>3, <2>7 DEF OptNat
    <3>2. elem.size * n \in Nat
      BY <2>1, <3>1
    <3>3. InfoOK(info) /\ DefOK(d)
      BY <1>2, <3>2 DEF InfoOK, Info, DefOK, Def, info, d
    <3>4. printer'.header = Append(p.header, d)
      BY <2>7
    <3>5. HeaderOK(printer'.header)
      BY <2>4, <3>3, <3>4, HeaderGrows
    <3> QED
      BY <1>1, <2>7, <3>3, <3>5, LeaveTyped DEF Leaves, TypeInv, Statuses
  <2> QED
    BY <2>2, <2>5, <2>6, <2>7
<1> QED
  BY <1>4, <1>5

LEMMA EntersTyped ==
  ASSUME TypeInv, CallInv', StartDest \/ Call
  PROVE  TypeInv'
<1>1. CASE StartDest
  <2>1. Head(dest) \in TypeIndex /\ Tail(dest) \in Seq(TypeIndex)
    BY <1>1, HeadTailProperties DEF StartDest, TypeInv, InputOK
  <2>2. InputOK'
    BY <1>1, <2>1 DEF StartDest, TypeInv, InputOK
  <2>3. None \in OptNat
    BY DEF OptNat
  <2> QED
    BY <1>1, <2>1, <2>2, <2>3, EnterTyped DEF StartDest
<1>2. CASE Call
  <2>1. PICK w \in Wanted : Enter(w.ty, w.max)
    BY <1>2 DEF Call
  <2>2. w.ty \in TypeIndex /\ w.max \in OptNat
    BY <1>2, WantedOK DEF Call, Running
  <2>3. InputOK'
    BY <1>2 DEF Call, TypeInv, InputOK
  <2> QED
    BY <1>2, <2>1, <2>2, <2>3, EnterTyped DEF Call
<1> QED
  BY <1>1, <1>2

LEMMA TypeInit == Init => TypeInv
<1> SUFFICES ASSUME Init PROVE TypeInv
  OBVIOUS
<1>1. PICK prog \in Programs : types = prog.types /\ typeDb = prog.typeDb /\ dest = prog.dest
  BY DEF Init
<1>2. InputOK
  BY <1>1, ProgramsAssumption DEF InputOK
<1>3. HeaderOK(printer.header)
  BY SeqEmpty DEF Init, HeaderOK
<1>4. Len(stack) = 0 /\ DOMAIN processed = {}
  BY SeqEmpty DEF Init
<1>5. CallInv
  BY CallInit
<1> QED
  BY <1>2, <1>3, <1>4, <1>5 DEF TypeInv, Init

LEMMA TypeStep ==
  ASSUME TypeInv, [Next]_vars
  PROVE  TypeInv'
<1>1. CallInv'
  BY CallStep DEF TypeInv
<1>2. CASE DestAlreadyProcessed \/ AssertionFails \/ MemberUnderflows
  BY <1>1, <1>2, StaysTyped
     DEF DestAlreadyProcessed, AssertionFails, MemberUnderflows, Panic, TypeInv, Statuses
<1>3. CASE Finish \/ WriteFails \/ Terminated \/ UNCHANGED vars
  BY <1>1, <1>3, StaysTyped DEF Finish, WriteFails, Terminated, vars, TypeInv, Statuses
<1> QED
  BY <1>1, <1>2, <1>3, EntersTyped, SilentTyped, EnumTyped, ArrayTyped, TakesTyped,
     StructTyped, UnionTyped
     DEF Next, Step

\* Every part of the state keeps its type: sizes and lengths stay natural numbers even
\* where a release build lets u64 arithmetic wrap around.
THEOREM TypeCorrect == Spec => []TypeOK
<1>1. TypeInv => TypeOK
  BY DEF TypeInv, InputOK, FrameOK, HeaderOK, DefOK, TypeOK, ToSet, IsSeq
<1>2. Spec => []TypeInv
  BY TypeInit, TypeStep, PTL DEF Spec
<1> QED
  BY <1>1, <1>2, PTL

-----------------------------------------------------------------------------
(* The walk.  Entering a type is a visit; a handler that returns leaves    *)
(* its type, after at most two definitions; one turn of a loop over        *)
(* members is a stutter.                                                   *)
(***************************************************************************)
Repeat(c, n) == [k \in 1..n |-> c]
GoesOn(S, s, x, c, n) ==
  /\ s \in Seq(S) /\ x \in Seq(S) /\ c \in S /\ n \in Nat
  /\ Len(x) = Len(s) + n
  /\ \A i \in 1..Len(s) : x[i] = s[i]
  /\ \A i \in 1..Len(x) : i > Len(s) => x[i] = c

\* A sequence that goes on with the same element is a concatenation.
LEMMA Prolonged ==
  ASSUME NEW S, NEW s, NEW x, NEW c, NEW n, GoesOn(S, s, x, c, n)
  PROVE  x = s \o Repeat(c, n)
<1> USE DEF GoesOn
<1> DEFINE r == Repeat(c, n)
<1>1. r \in Seq(S) /\ Len(r) = n /\ \A k \in 1..n : r[k] = c
  BY DEF Repeat
<1> HIDE DEF r
<1>2. Len(s) \in Nat
  BY LenProperties
<1>3. /\ s \o r \in Seq(S)
      /\ Len(s \o r) = Len(s) + n
      /\ \A i \in 1..(Len(s) + n) : (s \o r)[i] = IF i <= Len(s) THEN s[i] ELSE r[i - Len(s)]
  BY <1>1, ConcatProperties
<1>4. ASSUME NEW i \in 1..Len(x)
      PROVE  x[i] = (s \o r)[i]
  <2>1. i \in 1..(Len(s) + n)
    OBVIOUS
  <2>2. CASE i <= Len(s)
    <3>1. i \in 1..Len(s)
      BY <2>1, <2>2, <1>2
    <3> QED
      BY <2>1, <2>2, <3>1, <1>3
  <2>3. CASE i > Len(s)
    <3>1. i - Len(s) \in 1..n
      BY <2>1, <2>3, <1>2
    <3> QED
      BY <2>1, <2>3, <3>1, <1>1, <1>2, <1>3
  <2>4. i <= Len(s) \/ i > Len(s)
    BY <2>1, <1>2
  <2> QED
    BY <2>2, <2>3, <2>4
<1>5. x = s \o r
  BY <1>3, <1>4, SeqEqual
<1> QED
  BY <1>5 DEF r

\* What the walk sees of the state.
LEMMA OpenIsSeq ==
  ASSUME TypeInv
  PROVE  /\ OpenTypes \in Seq(TypeIndex) /\ Len(OpenTypes) = Len(stack)
         /\ \A i \in 1..Len(stack) : OpenTypes[i] = stack[i].ty
<1>1. Len(stack) \in Nat
  BY SeqLen DEF TypeInv, CallInv
<1>2. OpenTypes \in [1..Len(stack) -> TypeIndex]
  BY DEF TypeInv, FrameOK, OpenTypes
<1> QED
  BY <1>1, <1>2 DEF OpenTypes

LEMMA OwnersIsSeq ==
  ASSUME TypeInv
  PROVE  /\ Owners \in Seq(TypeIndex) /\ Len(Owners) = Len(printer.header)
         /\ \A i \in 1..Len(printer.header) : Owners[i] = printer.header[i].owner
<1>1. Len(printer.header) \in Nat
  BY SeqLen DEF TypeInv, HeaderOK
<1>2. Owners \in [1..Len(printer.header) -> TypeIndex]
  BY DEF TypeInv, HeaderOK, DefOK, Owners
<1> QED
  BY <1>1, <1>2 DEF Owners

-----------------------------------------------------------------------------
(* How many definitions a step adds to the header, for the innermost type. *)

Longer(h, g, n) ==
  /\ IsSeq(g) /\ Len(g) = Len(h) + n
  /\ \A i \in 1..Len(h) : g[i] = h[i]
  /\ \A i \in 1..Len(g) : i > Len(h) => g[i].owner = top.ty
Prints(max) == \E n \in 0..max : Longer(printer.header, printer'.header, n)

LEMMA LongerByNone ==
  ASSUME NEW h, IsSeq(h)
  PROVE  Longer(h, h, 0)
<1>1. Len(h) \in Nat
  BY SeqLen
<1> QED
  BY <1>1 DEF Longer

LEMMA LongerByOne ==
  ASSUME NEW h, NEW g, IsSeq(h), NEW n \in Nat, Longer(h, g, n), NEW d, d.owner = top.ty
  PROVE  Longer(h, Append(g, d), n + 1)
<1>1. Len(h) \in Nat /\ IsSeq(g) /\ Len(g) = Len(h) + n
  BY SeqLen DEF Longer
<1>2. /\ IsSeq(Append(g, d))
      /\ Len(Append(g, d)) = Len(g) + 1
      /\ \A i \in 1..Len(g) : Append(g, d)[i] = g[i]
      /\ Append(g, d)[Len(g) + 1] = d
  BY <1>1, SeqAppend
<1>3. \A i \in 1..(Len(g) + 1) : i \in 1..Len(g) \/ i = Len(g) + 1
  BY <1>1
<1>4. \A i \in 1..Len(h) : i \in 1..Len(g)
  BY <1>1
<1> QED
  BY <1>1, <1>2, <1>3, <1>4 DEF Longer

\* The handlers other than those of arrays print one definition at most.
LEMMA HandlersPrint ==
  ASSUME TypeInv,
         \/ ProcessOpaque \/ ProcessBase \/ ProcessEnum \/ Refuse \/ UnknownDeclaration
         \/ ProcessLink \/ ProcessPointer \/ EmitStruct \/ EmitUnion
  PROVE  Leaves /\ Prints(1)
<1>1. IsSeq(printer.header) /\ Longer(printer.header, printer.header, 0)
  BY LongerByNone DEF TypeInv, HeaderOK
<1>2. ASSUME printer'.header = printer.header
      PROVE  Prints(1)
  BY <1>1, <1>2 DEF Prints
<1>3. ASSUME NEW d, d.owner = top.ty, printer'.header = Append(printer.header, d)
      PROVE  Prints(1)
  <2>1. Longer(printer.header, Append(printer.header, d), 0 + 1)
    BY <1>1, <1>3, LongerByOne
  <2> QED
    BY <1>3, <2>1 DEF Prints
<1>4. CASE ProcessOpaque \/ ProcessBase \/ Refuse \/ UnknownDeclaration
             \/ ProcessLink \/ ProcessPointer
  BY <1>2, <1>4 DEF ProcessOpaque, ProcessBase, Refuse, UnknownDeclaration, ProcessLink,
                    ProcessPointer, Leaves, Running
<1>5. CASE ProcessEnum
  <2> DEFINE a == AllocIdent(printer.used, printer.uniq, this.path)
             d == Def(a.ident, "enum", top.ty, <<>>, 1, this.bytes)
             info == Info(CType(a.ident, a.ident, TRUE), this.bytes, this.bytes)
  <2>1. d.owner = top.ty
    BY DEF Def
  <2>2. stack # <<>>
    BY <1>5 DEF ProcessEnum, Running
  <2>3. CASE ReturnNothing /\ UNCHANGED printer
    BY <1>2, <2>2, <2>3 DEF Leaves
  <2>4. CASE /\ Return(info)
             /\ printer' = [used |-> a.used, uniq |-> a.uniq,
                            header |-> Append(printer.header, d)]
    <3> HIDE DEF d, info
    <3> QED
      BY <1>3, <2>1, <2>2, <2>4 DEF Leaves
  <2> QED
    BY <1>5, <2>3, <2>4 DEF ProcessEnum
<1>6. ASSUME NEW form, NEW mems, stack # <<>>, Emit(form, mems)
      PROVE  Leaves /\ Prints(1)
  <2> DEFINE a == AllocIdent(printer.used, printer.uniq, this.path)
             last == mems[Len(mems)]
             packed == (last.off + last.len) % Modulus
             d == Def(a.ident, form, top.ty, mems, 1, packed)
             info == Info(CType(a.ident, a.ident, TRUE), packed, this.size)
  <2>1. d.owner = top.ty
    BY DEF Def
  <2>2. CASE mems = <<>>
    <3>1. ReturnNothing /\ printer'.header = printer.header
      BY <1>6, <2>2 DEF Emit
    <3> QED
      BY <1>2, <1>6, <3>1 DEF Leaves
  <2>3. CASE mems # <<>>
    <3>1. /\ Return(info)
          /\ printer' = [used |-> a.used, uniq |-> a.uniq,
                         header |-> Append(printer.header, d)]
      BY <1>6, <2>3 DEF Emit
    <3> HIDE DEF d, info
    <3> QED
      BY <1>3, <1>6, <2>1, <3>1 DEF Leaves
  <2> QED
    BY <2>2, <2>3
<1>7. CASE EmitStruct \/ EmitUnion
  <2>1. stack # <<>> /\ \E form, mems : Emit(form, mems)
    BY <1>7 DEF EmitStruct, EmitUnion, Running
  <2> QED
    BY <1>6, <2>1
<1> QED
  BY <1>4, <1>5, <1>7

\* An array may print its padded element as well, even if it then panics.
LEMMA ArrayPrints ==
  ASSUME TypeInv, ProcessArray
  PROVE  (Leaves /\ Prints(2)) \/ (Stays /\ stack # <<>> /\ Prints(1))
<1> DEFINE elem == processed[Child(top.ty, this.ty)]
           padded == PaddedElement(printer, elem)
           p == padded.printer
           n == ElementCount(elem)
           a == AllocIdent(p.used, p.uniq,
                           PlainName(elem.type.ident \o "_Array" \o ToString(n)))
           x == Mem(0, elem.size, padded.type, [what |-> "data", nth |-> 1])
           d == Def(a.ident, "array", top.ty, <<x>>, n, elem.size * n)
           info == Info(CType(a.ident, a.ident, TRUE), elem.size * n, elem.size * n)
<1>1. stack # <<>>
  BY DEF ProcessArray, Running
<1>2. IsSeq(printer.header) /\ Longer(printer.header, printer.header, 0)
  BY LongerByNone DEF TypeInv, HeaderOK
<1>3. \E k \in 0..1 : Longer(printer.header, p.header, k)
  <2>1. CASE elem.size <= elem.packed
    <3>1. p = printer
      BY <2>1 DEF PaddedElement
    <3> QED
      BY <1>2, <3>1
  <2>2. CASE ~(elem.size <= elem.packed)
    <3>1. PICK e : e.owner = top.ty /\ p.header = Append(printer.header, e)
      BY <2>2 DEF PaddedElement, Def
    <3>2. Longer(printer.header, p.header, 0 + 1)
      BY <1>2, <3>1, LongerByOne
    <3> QED
      BY <3>2
  <2> QED
    BY <2>1, <2>2
<1>4. d.owner = top.ty
  BY DEF Def
<1>5. \/ ReturnNothing /\ (printer' = printer \/ printer' = p)
      \/ UNCHANGED <<processed, stack>> /\ printer' = p
      \/ Return(info) /\ printer' = [used |-> a.used, uniq |-> a.uniq,
                                     header |-> Append(p.header, d)]
  BY DEF ProcessArray
<1> HIDE DEF d, info, p
<1>6. CASE ReturnNothing /\ (printer' = printer \/ printer' = p)
  BY <1>1, <1>2, <1>3, <1>6 DEF Leaves, Prints
<1>7. CASE UNCHANGED <<processed, stack>> /\ printer' = p
  BY <1>1, <1>3, <1>7 DEF Stays, Prints
<1>8. CASE Return(info) /\ printer' = [used |-> a.used, uniq |-> a.uniq,
                                       header |-> Append(p.header, d)]
  <2>1. PICK k \in 0..1 : Longer(printer.header, p.header, k)
    BY <1>3
  <2>2. Longer(printer.header, printer'.header, k + 1)
    BY <1>2, <1>4, <1>8, <2>1, LongerByOne
  <2> QED
    BY <1>1, <1>8, <2>2 DEF Leaves, Prints
<1> QED
  BY <1>5, <1>6, <1>7, <1>8

-----------------------------------------------------------------------------
(* Each kind of step is a step of the walk, or changes nothing it sees. *)

LEMMA PrintsWalk ==
  ASSUME TypeInv, TypeInv', NEW max \in Nat, Prints(max), stack # <<>>
  PROVE  Walked!WriteUpTo(max)
<1>1. PICK n \in 0..max : Longer(printer.header, printer'.header, n)
  BY DEF Prints
<1>2. Len(stack) \in 1..Len(stack)
  BY SeqLen DEF TypeInv, CallInv
<1>3. Walked!current = top.ty /\ top.ty \in TypeIndex
  BY <1>2, OpenIsSeq DEF Walked!current, top, TypeInv, FrameOK
<1>4. /\ Owners \in Seq(TypeIndex) /\ Len(Owners) = Len(printer.header)
      /\ \A i \in 1..Len(printer.header) : Owners[i] = printer.header[i].owner
  BY OwnersIsSeq
<1>5. /\ Owners' \in Seq(TypeIndex) /\ Len(Owners') = Len(printer'.header)
      /\ \A i \in 1..Len(printer'.header) : Owners'[i] = printer'.header[i].owner
  <2>1. (/\ Owners \in Seq(TypeIndex) /\ Len(Owners) = Len(printer.header)
         /\ \A i \in 1..Len(printer.header) : Owners[i] = printer.header[i].owner)'
    BY OwnersIsSeq, PTL
  <2> QED
    BY <2>1 DEF TypeIndex
<1>6. Len(printer.header) \in Nat
  BY SeqLen DEF TypeInv, HeaderOK
<1>7. \A i \in 1..Len(printer.header) :
        i \in 1..Len(printer'.header) /\ printer'.header[i] = printer.header[i]
  BY <1>1, <1>6 DEF Longer
<1>8. \A i \in 1..Len(printer'.header) :
        i > Len(printer.header) => printer'.header[i].owner = top.ty
  BY <1>1 DEF Longer
<1>9. Owners' = Owners \o Repeat(top.ty, n)
  <2>1. Len(Owners') = Len(Owners) + n
    BY <1>1, <1>4, <1>5 DEF Longer
  <2>2. \A i \in 1..Len(Owners) : Owners'[i] = Owners[i]
    BY <1>4, <1>5, <1>7
  <2>3. \A i \in 1..Len(Owners') : i > Len(Owners) => Owners'[i] = top.ty
    BY <1>4, <1>5, <1>8
  <2>4. n \in Nat
    OBVIOUS
  <2>5. Owners \in Seq(TypeIndex) /\ Owners' \in Seq(TypeIndex) /\ top.ty \in TypeIndex
    BY <1>3, <1>4, <1>5
  <2>6. GoesOn(TypeIndex, Owners, Owners', top.ty, n)
    BY <2>1, <2>2, <2>3, <2>4, <2>5 DEF GoesOn
  <2> QED
    BY <2>6, Prolonged
<1> QED
  BY <1>3, <1>9 DEF Walked!WriteUpTo, Repeat

LEMMA OpenNext ==
  ASSUME TypeInv'
  PROVE  /\ OpenTypes' \in Seq(TypeIndex) /\ Len(OpenTypes') = Len(stack')
         /\ \A i \in 1..Len(stack') : OpenTypes'[i] = stack'[i].ty
<1>1. (/\ OpenTypes \in Seq(TypeIndex) /\ Len(OpenTypes) = Len(stack)
       /\ \A i \in 1..Len(stack) : OpenTypes[i] = stack[i].ty)'
  BY OpenIsSeq, PTL
<1> QED
  BY <1>1 DEF TypeIndex

\* Steps that change neither the types on the stack nor the header are stutters.
LEMMA StutterWalk ==
  ASSUME TypeInv, TypeInv', Moves \/ Stays, printer' = printer
  PROVE  UNCHANGED Walked!walkVars
<1>1. /\ processed' = processed /\ Len(stack') = Len(stack)
      /\ \A i \in 1..Len(stack) : stack'[i].ty = stack[i].ty
  BY MoveFacts DEF Stays, TypeInv, CallInv
<1>2. OpenTypes' = OpenTypes
  <2>1. /\ OpenTypes \in Seq(TypeIndex) /\ OpenTypes' \in Seq(TypeIndex)
        /\ Len(OpenTypes') = Len(OpenTypes)
        /\ \A i \in 1..Len(OpenTypes) : OpenTypes'[i] = OpenTypes[i]
    BY <1>1, OpenIsSeq, OpenNext
  <2> QED
    BY <2>1, SeqEqual
<1>3. Owners' = Owners
  BY DEF Owners
<1> QED
  BY <1>1, <1>2, <1>3 DEF Walked!walkVars

LEMMA EnterWalks ==
  ASSUME TypeInv, TypeInv', Enters, printer' = printer
  PROVE  \E t \in TypeIndex : Walked!Visit(t)
<1>1. PICK t, max : /\ Enter(t, max)
                    /\ stack # <<>> \/ DebugBuild => t \notin DOMAIN processed
  BY DEF Enters
<1>2. /\ Len(stack') = Len(stack) + 1 /\ Len(stack) \in Nat
      /\ \A i \in 1..Len(stack) : stack'[i] = stack[i]
      /\ stack'[Len(stack) + 1].ty = t
  BY <1>1, EnterFacts, SeqLen DEF TypeInv, CallInv
<1>3. t \in TypeIndex
  <2>1. Len(stack) + 1 \in 1..Len(stack')
    BY <1>2
  <2>2. OpenTypes'[Len(stack) + 1] \in TypeIndex
    BY <2>1, OpenNext, ElementOfSeq
  <2> QED
    BY <1>2, <2>1, <2>2, OpenNext
<1>4. OpenTypes' = Append(OpenTypes, t)
  <2>1. /\ Append(OpenTypes, t) \in Seq(TypeIndex)
        /\ Len(Append(OpenTypes, t)) = Len(OpenTypes) + 1
        /\ \A i \in 1..Len(OpenTypes) : Append(OpenTypes, t)[i] = OpenTypes[i]
        /\ Append(OpenTypes, t)[Len(OpenTypes) + 1] = t
    BY <1>3, OpenIsSeq, AppendProperties
  <2>2. \A i \in 1..Len(stack') : i \in 1..Len(stack) \/ i = Len(stack) + 1
    BY <1>2
  <2>3. \A i \in 1..Len(OpenTypes') : OpenTypes'[i] = Append(OpenTypes, t)[i]
    BY <1>2, <2>1, <2>2, OpenIsSeq, OpenNext
  <2> QED
    BY <1>2, <2>1, <2>3, OpenIsSeq, OpenNext, SeqEqual
<1>5. stack = <<>> => OpenTypes = <<>>
  BY OpenIsSeq, SeqEmpty, EmptySeq
<1>6. \A i \in 1..Len(OpenTypes) : OpenTypes[i] # t
  <2>1. CASE stack = <<>>
    BY <2>1, OpenIsSeq, SeqEmpty
  <2>2. CASE stack # <<>>
    BY <1>1, <2>2, OpenIsSeq DEF TypeInv, CallInv, Placeholders
  <2> QED
    BY <2>1, <2>2
<1>7. t \in DOMAIN processed => ~DebugBuild /\ OpenTypes = <<>>
  BY <1>1, <1>5
<1>8. processed' = [u \in DOMAIN processed \union {t} |->
                      IF u = t THEN NoInfo ELSE processed[u]]
  BY <1>1 DEF Enter
<1>9. Owners' = Owners
  BY DEF Owners
<1>10. Walked!Visit(t)
  BY <1>4, <1>6, <1>7, <1>8, <1>9 DEF Walked!Visit
<1> QED
  BY <1>3, <1>10

LEMMA LeaveWalks ==
  ASSUME TypeInv, TypeInv', Leaves, Prints(2)
  PROVE  Walked!Leave
<1>1. /\ Len(stack) \in 1..Len(stack) /\ Len(stack) \in Nat
      /\ Len(stack') = Len(stack) - 1
      /\ \A i \in 1..Len(stack') : stack'[i] = stack[i]
  BY LeaveFacts, SeqLen DEF TypeInv, CallInv
<1>2. OpenTypes # <<>>
  BY <1>1, OpenIsSeq, SeqEmpty
<1>3. OpenTypes' = SubSeq(OpenTypes, 1, Len(OpenTypes) - 1)
  <2> DEFINE rest == SubSeq(OpenTypes, 1, Len(OpenTypes) - 1)
  <2>1. \A i \in 1..(Len(OpenTypes) - 1) : OpenTypes[i] \in TypeIndex
    BY OpenIsSeq, ElementOfSeq
  <2>2. Len(OpenTypes) \in Nat /\ Len(OpenTypes) # 0
    <3>1. Len(OpenTypes) = Len(stack)
      BY OpenIsSeq
    <3>2. Len(stack) # 0
      BY <1>1
    <3> QED
      BY <1>1, <3>1, <3>2
  <2>3. /\ rest \in Seq(TypeIndex)
        /\ Len(rest) = Len(OpenTypes) - 1
        /\ \A i \in 1..(Len(OpenTypes) - 1) : rest[i] = OpenTypes[i]
    <3>1. 1 \in Int /\ Len(OpenTypes) - 1 \in Int
      BY <2>2
    <3>2. rest \in Seq(TypeIndex)
      BY <2>1, <3>1, SubSeqProperties
    <3>3. IsSeq(OpenTypes) /\ Len(OpenTypes) - 1 \in 0..Len(OpenTypes)
      BY <2>2, OpenIsSeq DEF IsSeq
    <3> QED
      BY <3>2, <3>3, SeqPrefix
  <2> HIDE DEF rest
  <2>4. /\ OpenTypes' \in Seq(TypeIndex) /\ Len(OpenTypes') = Len(rest)
        /\ \A i \in 1..Len(OpenTypes') : OpenTypes'[i] = rest[i]
    BY <1>1, <2>3, OpenIsSeq, OpenNext
  <2>5. OpenTypes' = rest
    BY <2>3, <2>4, SeqEqual
  <2> QED
    BY <2>5 DEF rest
<1>4. Walked!current = top.ty
  BY <1>1, OpenIsSeq DEF Walked!current, top
<1>5. \/ processed' = [processed EXCEPT ![top.ty] = processed'[top.ty]]
      \/ UNCHANGED processed
  <2>1. ASSUME NEW info, Return(info)
        PROVE  processed' = [processed EXCEPT ![top.ty] = processed'[top.ty]]
    <3>1. top.ty \in DOMAIN processed
      BY TopOK DEF Leaves
    <3>2. processed' = [processed EXCEPT ![top.ty] = info]
      BY <2>1 DEF Return
    <3> QED
      BY <3>1, <3>2
  <2> QED
    BY <2>1 DEF Leaves, ReturnNothing
<1>6. Walked!WriteUpTo(2)
  BY PrintsWalk DEF Leaves
<1> QED
  BY <1>2, <1>3, <1>4, <1>5, <1>6 DEF Walked!Leave

\* An array may panic after it printed its padded element.
LEMMA BreakWalks ==
  ASSUME TypeInv, TypeInv', Stays, stack # <<>>, Prints(1)
  PROVE  Walked!BreakOff
<1>1. OpenTypes # <<>>
  BY OpenIsSeq, SeqLen, SeqEmpty DEF TypeInv, CallInv
<1>2. OpenTypes' = OpenTypes /\ processed' = processed
  BY DEF Stays, OpenTypes
<1>3. Walked!WriteUpTo(1)
  BY PrintsWalk
<1> QED
  BY <1>1, <1>2, <1>3 DEF Walked!BreakOff

LEMMA WalkStep ==
  ASSUME TypeInv, [Next]_vars
  PROVE  [Walked!WalkNext]_(Walked!walkVars)
<1>1. TypeInv'
  BY TypeStep
<1>2. ASSUME Prints(1)
      PROVE  Prints(2)
  BY <1>2 DEF Prints
<1>3. CASE StartDest \/ Call
  <2>1. Enters /\ printer' = printer
    BY <1>3 DEF StartDest, Call, Enters, Running
  <2> QED
    BY <1>1, <2>1, EnterWalks DEF Walked!WalkNext
<1>4. CASE \/ ProcessOpaque \/ ProcessBase \/ ProcessEnum \/ Refuse \/ UnknownDeclaration
           \/ ProcessLink \/ ProcessPointer \/ EmitStruct \/ EmitUnion
  BY <1>1, <1>2, <1>4, HandlersPrint, LeaveWalks DEF Walked!WalkNext
<1>5. CASE ProcessArray
  BY <1>1, <1>5, ArrayPrints, LeaveWalks, BreakWalks DEF Walked!WalkNext
<1>6. CASE SkipEmpty \/ TakeBytes \/ TakeMember
  <2>1. Moves /\ printer' = printer
    BY <1>6 DEF SkipEmpty, TakeBytes, TakeMember, Advance, InLoop, Running, Moves
  <2> QED
    BY <1>1, <2>1, StutterWalk
<1>7. CASE DestAlreadyProcessed \/ AssertionFails \/ MemberUnderflows \/ Finish \/ WriteFails
           \/ Terminated \/ UNCHANGED vars
  <2>1. Stays /\ printer' = printer
    BY <1>7 DEF DestAlreadyProcessed, AssertionFails, MemberUnderflows, Panic, Finish,
                WriteFails, Terminated, vars, Stays
  <2> QED
    BY <1>1, <2>1, StutterWalk
<1> QED
  BY <1>3, <1>4, <1>5, <1>6, <1>7 DEF Next, Step

LEMMA WalkStart == Init => Walked!WalkInit
<1> SUFFICES ASSUME Init
             PROVE  Walked!WalkInit
  OBVIOUS
<1>1. stack = <<>> /\ printer.header = <<>> /\ processed = <<>>
  BY DEF Init
<1>2. OpenTypes = <<>> /\ Owners = <<>>
  <2>1. TypeInv
    BY TypeInit
  <2> QED
    BY <1>1, <2>1, OpenIsSeq, OwnersIsSeq, SeqEmpty, EmptySeq
<1> QED
  BY <1>1, <1>2 DEF Walked!WalkInit

\* The translation of every input, in both builds, is a walk that opens each type once,
\* keeps what it finds, and writes a definition only for the type it leaves.
THEOREM ImplementsWalk == Spec => WalksOnce
<1>1. Spec => []TypeInv
  BY TypeInit, TypeStep, PTL DEF Spec
<1>2. TypeInv /\ [Next]_vars => [Walked!WalkNext]_(Walked!walkVars)
  BY WalkStep
<1> QED
  BY <1>1, <1>2, WalkStart, PTL DEF Spec, WalksOnce, Walked!WalkSpec
-----------------------------------------------------------------------------
(***************************************************************************)
(* Every assertion of the generated .c file holds.  That a definition's    *)
(* recorded sizes add up is not kept by itself: what a struct collects     *)
(* comes from types processed before, and is compared with the layout only *)
(* at the next member.  So the invariant says of every type translated so  *)
(* far that the C compiler gives it the size recorded for it, and of every *)
(* struct and union still open where its members lie.                      *)
(***************************************************************************)

\* The C type c takes n bytes under the definitions of h.
Takes(h, c, n) ==
  /\ c.ptrs \in Nat
  /\ IF c.ptrs > 0 THEN n = PointerSize
     ELSE IF c.def THEN \E j \in 1..Len(h) : h[j].ident = c.name /\ h[j].size = n
     ELSE \/ c = ByteType
          \/ \E t \in TypeIndex : /\ types[t].kind = "base"
                                  /\ types[t].path[1].text = c.name
                                  /\ types[t].size = n

\* Each member takes the bytes recorded for it.
MemsTake(h, mems) == \A k \in 1..Len(mems) : Takes(h, mems[k].type, mems[k].len)

\* The members lie one behind the other from a to b.
Spans(mems, a, b) ==
  IF Len(mems) = 0 THEN a = b
  ELSE /\ mems[1].off = a
       /\ mems[Len(mems)].off + mems[Len(mems)].len = b
       /\ \A k \in 1..(Len(mems) - 1) : mems[k + 1].off = mems[k].off + mems[k].len

Bounded(mems) == \A k \in 1..Len(mems) : mems[k].off + mems[k].len < Modulus

\* The members are the alternatives of a union of that size.
Overlaid(mems, size) == \A k \in 1..Len(mems) : mems[k].off = 0 /\ mems[k].len <= size

\* An open struct is filled up to where its next turn begins.
Tiled(f) ==
  /\ Bounded(f.mems)
  /\ \E e \in Nat : Spans(f.mems, 0, e) /\ (f.at # 0 => e = ByteOffset(f.ty, f.at))
FrameHolds(h, f) ==
  /\ MemsTake(h, f.mems)
  /\ f.at # 0 => types[f.ty].size # None /\ ~types[f.ty].decl
  /\ types[f.ty].kind = "struct" => Tiled(f)
  /\ types[f.ty].kind = "union" => Overlaid(f.mems, types[f.ty].size)

\* What the assertions about a definition say, of the sizes recorded in it.
DefHolds(h, d) ==
  /\ MemsOK(d.mems) /\ MemsTake(h, d.mems)
  /\ d.form \in {"struct", "padded"} => Len(d.mems) # 0 /\ Spans(d.mems, 0, d.size)
  /\ d.form = "union" => /\ Overlaid(d.mems, d.size)
                         /\ \E k \in 1..Len(d.mems) : d.mems[k].len = d.size
  /\ d.form = "array" => Len(d.mems) = 1 /\ d.size = d.count * d.mems[1].len

HeaderHolds(h) == IsSeq(h) /\ \A i \in 1..Len(h) : DefHolds(h, h[i])
Known(h) == \A t \in DOMAIN processed :
              processed[t] # NoInfo => Takes(h, processed[t].type, processed[t].packed)
AssertInv ==
  /\ HeaderHolds(header)
  /\ Known(header)
  /\ \A i \in 1..Len(stack) : FrameHolds(header, stack[i])
SizedInv == TypeInv /\ WellSized(types) /\ AssertInv

\* What a C type takes does not change while the header grows.
Taken(g, h) == \A c, n : Takes(g, c, n) => Takes(h, c, n)

LEMMA TakenSame == \A h : Taken(h, h)
  BY DEF Taken

LEMMA TakenTwice ==
  ASSUME NEW f, NEW g, NEW h, Taken(f, g), Taken(g, h)
  PROVE  Taken(f, h)
  BY DEF Taken

LEMMA TakesBytes ==
  ASSUME NEW h, NEW n
  PROVE  Takes(h, ByteType, n)
<1>1. ByteType.ptrs = 0 /\ ~ByteType.def
  BY DEF ByteType, CType
<1> QED
  BY <1>1 DEF Takes

LEMMA DefGrows ==
  ASSUME NEW g, NEW h, Taken(g, h), NEW d, DefHolds(g, d)
  PROVE  DefHolds(h, d)
<1>1. MemsTake(h, d.mems)
  BY DEF DefHolds, MemsTake, Taken
<1> QED
  BY <1>1 DEF DefHolds

LEMMA FrameGrows ==
  ASSUME NEW g, NEW h, Taken(g, h), NEW f, FrameHolds(g, f)
  PROVE  FrameHolds(h, f)
<1>1. MemsTake(h, f.mems)
  BY DEF FrameHolds, MemsTake, Taken
<1> QED
  BY <1>1 DEF FrameHolds

\* A new definition: the asserts above it go on to hold, and its name takes its size.
LEMMA AddHolds ==
  ASSUME NEW h, HeaderHolds(h), NEW d, DefHolds(h, d)
  PROVE  /\ HeaderHolds(Append(h, d))
         /\ Taken(h, Append(h, d))
         /\ \A c : c.ptrs = 0 /\ c.def /\ c.name = d.ident => Takes(Append(h, d), c, d.size)
<1> DEFINE g == Append(h, d)
<1>1. Len(h) \in Nat
  BY SeqLen DEF HeaderHolds
<1>2. /\ IsSeq(g)
      /\ Len(g) = Len(h) + 1
      /\ \A i \in 1..Len(h) : g[i] = h[i]
      /\ g[Len(h) + 1] = d
  BY SeqAppend DEF HeaderHolds
<1> HIDE DEF g
<1>3. \A i \in 1..Len(g) : i \in 1..Len(h) \/ i = Len(h) + 1
  BY <1>1, <1>2
<1>4. \A i \in 1..Len(h) : i \in 1..Len(g) /\ g[i] = h[i]
  BY <1>1, <1>2
<1>5. Taken(h, g)
  BY <1>4 DEF Taken, Takes
<1>6. ASSUME NEW i \in 1..Len(g)
      PROVE  DefHolds(g, g[i])
  <2>1. DefHolds(h, g[i])
    BY <1>2, <1>3 DEF HeaderHolds
  <2> QED
    BY <2>1, <1>5, DefGrows
<1>7. ASSUME NEW c, c.ptrs = 0, c.def, c.name = d.ident
      PROVE  Takes(g, c, d.size)
  <2>1. Len(h) + 1 \in 1..Len(g)
    BY <1>1, <1>2
  <2>2. \E j \in 1..Len(g) : g[j].ident = c.name /\ g[j].size = d.size
    BY <2>1, <1>2, <1>7
  <2> QED
    BY <2>2, <1>7 DEF Takes
<1>8. HeaderHolds(g)
  BY <1>2, <1>6 DEF HeaderHolds
<1> QED
  BY <1>5, <1>7, <1>8 DEF g

-----------------------------------------------------------------------------
(* Members that lie one behind the other. *)

LEMMA SpansNone == Spans(<<>>, 0, 0) /\ Bounded(<<>>) /\ \A h : MemsTake(h, <<>>)
  BY SeqEmpty DEF Spans, Bounded, MemsTake

LEMMA SpansIs ==
  ASSUME NEW r, NEW a, NEW b, Len(r) # 0, r[1].off = a, r[Len(r)].off + r[Len(r)].len = b,
         \A k \in 1..(Len(r) - 1) : r[k + 1].off = r[k].off + r[k].len
  PROVE  Spans(r, a, b)
  BY DEF Spans

LEMMA SpansOne ==
  ASSUME NEW m
  PROVE  Spans(<<m>>, m.off, m.off + m.len)
<1>1. Len(<<m>>) = 1 /\ <<m>>[1] = m
  BY SeqOne
<1> QED
  BY <1>1 DEF Spans

LEMMA SpansJoin ==
  ASSUME NEW s, IsSeq(s), NEW t, IsSeq(t), NEW a, NEW b, NEW c, Spans(s, a, b), Spans(t, b, c)
  PROVE  Spans(s \o t, a, c)
<1> DEFINE r == s \o t
           m == Len(s)
           n == Len(t)
<1>1. m \in Nat /\ n \in Nat
  BY SeqLen
<1>2. /\ Len(r) = m + n
      /\ \A i \in 1..m : r[i] = s[i]
      /\ \A i \in 1..n : r[m + i] = t[i]
  <2>1. /\ Len(r) = m + n
        /\ \A i \in 1..Len(r) : \/ i \in 1..m /\ r[i] = s[i]
                                \/ i - m \in 1..n /\ r[i] = t[i - m]
    BY SeqConcat
  <2> HIDE DEF r, m, n
  <2>2. ASSUME NEW i \in 1..m
        PROVE  r[i] = s[i]
    <3>1. i \in 1..Len(r) /\ ~(i - m \in 1..n)
      BY <1>1, <2>1
    <3> QED
      BY <2>1, <3>1
  <2>3. ASSUME NEW i \in 1..n
        PROVE  r[m + i] = t[i]
    <3>1. m + i \in 1..Len(r) /\ ~(m + i \in 1..m) /\ (m + i) - m = i
      BY <1>1, <2>1
    <3> QED
      BY <2>1, <3>1
  <2> QED
    BY <2>1, <2>2, <2>3
<1> SUFFICES Spans(r, a, c)
  OBVIOUS
<1> HIDE DEF r
<1>3. CASE m = 0
  <2>1. a = b
    BY <1>3 DEF Spans
  <2>2. Len(r) = n /\ \A i \in 1..n : r[i] = t[i]
    <3> HIDE DEF m, n
    <3>1. \A i \in 1..n : m + i = i
      BY <1>3
    <3>2. m + n = n
      BY <1>1, <1>3
    <3> QED
      BY <1>2, <3>1, <3>2
  <2>3. n = 0 => b = c
    BY DEF Spans
  <2>4. n # 0 => /\ t[1].off = b /\ t[n].off + t[n].len = c
                 /\ \A k \in 1..(n - 1) : t[k + 1].off = t[k].off + t[k].len
    BY DEF Spans
  <2> HIDE DEF m, n
  <2>5. n # 0 => 1 \in 1..n /\ n \in 1..n /\ \A k \in 1..(n - 1) : k \in 1..n /\ k + 1 \in 1..n
    BY <1>1
  <2>6. n # 0 => /\ r[1].off = b /\ r[n].off + r[n].len = c
                 /\ \A k \in 1..(n - 1) : r[k + 1].off = r[k].off + r[k].len
    BY <2>2, <2>4, <2>5
  <2>7. CASE n = 0
    BY <2>1, <2>2, <2>3, <2>7 DEF Spans
  <2>8. CASE n # 0
    BY <2>1, <2>2, <2>6, <2>8 DEF Spans
  <2> QED
    BY <2>7, <2>8
<1>4. CASE m # 0 /\ n = 0
  <2>1. b = c
    BY <1>4 DEF Spans
  <2>2. Len(r) = m
    BY <1>1, <1>2, <1>4
  <2>3. /\ s[1].off = a /\ s[m].off + s[m].len = b
        /\ \A k \in 1..(m - 1) : s[k + 1].off = s[k].off + s[k].len
    BY <1>4 DEF Spans
  <2> HIDE DEF m, n
  <2>4. 1 \in 1..m /\ m \in 1..m /\ \A k \in 1..(m - 1) : k \in 1..m /\ k + 1 \in 1..m
    BY <1>1, <1>4
  <2>5. /\ r[1].off = a /\ r[m].off + r[m].len = b
        /\ \A k \in 1..(m - 1) : r[k + 1].off = r[k].off + r[k].len
    BY <1>2, <2>3, <2>4
  <2> QED
    BY <1>4, <2>1, <2>2, <2>5 DEF Spans
<1>5. CASE m # 0 /\ n # 0
  <2>1. /\ s[1].off = a /\ s[m].off + s[m].len = b
        /\ \A k \in 1..(m - 1) : s[k + 1].off = s[k].off + s[k].len
    BY <1>5 DEF Spans
  <2>2. /\ t[1].off = b /\ t[n].off + t[n].len = c
        /\ \A k \in 1..(n - 1) : t[k + 1].off = t[k].off + t[k].len
    BY <1>5 DEF Spans
  <2> HIDE DEF m, n
  <2>3. r[1].off = a
    BY <1>1, <1>2, <1>5, <2>1
  <2>4. r[m + n].off + r[m + n].len = c
    <3>1. n \in 1..n
      BY <1>1, <1>5
    <3> QED
      BY <1>2, <2>2, <3>1
  <2>5. ASSUME NEW k \in 1..(m + n - 1)
        PROVE  r[k + 1].off = r[k].off + r[k].len
    <3>1. CASE k < m
      <4>1. k \in 1..(m - 1) /\ k \in 1..m /\ k + 1 \in 1..m
        BY <1>1, <3>1
      <4> QED
        BY <1>2, <2>1, <4>1
    <3>2. CASE k = m
      <4>1. m \in 1..m /\ 1 \in 1..n
        BY <1>1, <1>5
      <4> QED
        BY <1>2, <2>1, <2>2, <3>2, <4>1
    <3>3. CASE k > m
      <4>1. PICK i \in Int : i = k - m
        BY <1>1
      <4>2. i \in 1..(n - 1) /\ i \in 1..n /\ i + 1 \in 1..n /\ k = m + i /\ k + 1 = m + (i + 1)
        BY <1>1, <3>3, <4>1
      <4> QED
        BY <1>2, <2>2, <4>2
    <3> QED
      BY <1>1, <3>1, <3>2, <3>3
  <2>6. Len(r) # 0
    BY <1>1, <1>2, <1>5
  <2>7. r[Len(r)].off + r[Len(r)].len = c
    BY <1>2, <2>4
  <2>8. \A k \in 1..(Len(r) - 1) : r[k + 1].off = r[k].off + r[k].len
    <3> SUFFICES ASSUME NEW k \in 1..(Len(r) - 1)
                 PROVE  r[k + 1].off = r[k].off + r[k].len
      OBVIOUS
    <3>1. Len(r) = m + n
      BY <1>2
    <3>2. k \in 1..(m + n - 1)
      BY <1>1, <3>1
    <3> QED
      BY <2>5, <3>2
  <2> QED
    BY <2>3, <2>6, <2>7, <2>8, SpansIs
<1>6. m = 0 \/ (m # 0 /\ n = 0) \/ (m # 0 /\ n # 0)
  OBVIOUS
<1> QED
  BY <1>3, <1>4, <1>5, <1>6

LEMMA SpansPrefix ==
  ASSUME NEW s, IsSeq(s), NEW a, NEW b, Spans(s, a, b), NEW n \in 1..Len(s)
  PROVE  Spans(SubSeq(s, 1, n), a, s[n].off + s[n].len)
<1>1. Len(s) \in Nat /\ Len(s) # 0
  BY SeqLen
<1>2. n \in 0..Len(s)
  BY <1>1
<1> DEFINE p == SubSeq(s, 1, n)
<1>3. Len(p) = n /\ \A i \in 1..n : p[i] = s[i]
  BY <1>2, SeqPrefix
<1> HIDE DEF p
<1>4. s[1].off = a /\ \A k \in 1..(Len(s) - 1) : s[k + 1].off = s[k].off + s[k].len
  BY <1>1 DEF Spans
<1>5. \A k \in 1..(n - 1) : k \in 1..(Len(s) - 1) /\ k \in 1..n /\ k + 1 \in 1..n
  BY <1>1
<1>6. n # 0 /\ 1 \in 1..n /\ n \in 1..n
  BY <1>1
<1>7. Spans(p, a, s[n].off + s[n].len)
  BY <1>3, <1>4, <1>5, <1>6 DEF Spans
<1> QED
  BY <1>7 DEF p

\* What a concatenation keeps of its parts.
LEMMA JoinBounded ==
  ASSUME NEW s, IsSeq(s), NEW t, IsSeq(t), Bounded(s), Bounded(t)
  PROVE  Bounded(s \o t)
<1>1. \A i \in 1..Len(s \o t) :
        \/ i \in 1..Len(s) /\ (s \o t)[i] = s[i]
        \/ i - Len(s) \in 1..Len(t) /\ (s \o t)[i] = t[i - Len(s)]
  BY SeqConcat
<1> QED
  BY <1>1 DEF Bounded

LEMMA JoinOverlaid ==
  ASSUME NEW s, IsSeq(s), NEW t, IsSeq(t), NEW n, Overlaid(s, n), Overlaid(t, n)
  PROVE  Overlaid(s \o t, n)
<1>1. \A i \in 1..Len(s \o t) :
        \/ i \in 1..Len(s) /\ (s \o t)[i] = s[i]
        \/ i - Len(s) \in 1..Len(t) /\ (s \o t)[i] = t[i - Len(s)]
  BY SeqConcat
<1> QED
  BY <1>1 DEF Overlaid

LEMMA JoinTakes ==
  ASSUME NEW h, NEW s, IsSeq(s), NEW t, IsSeq(t), MemsTake(h, s), MemsTake(h, t)
  PROVE  MemsTake(h, s \o t)
<1>1. \A i \in 1..Len(s \o t) :
        \/ i \in 1..Len(s) /\ (s \o t)[i] = s[i]
        \/ i - Len(s) \in 1..Len(t) /\ (s \o t)[i] = t[i - Len(s)]
  BY SeqConcat
<1> QED
  BY <1>1 DEF MemsTake

LEMMA OneMember ==
  ASSUME NEW m, NEW h, NEW n
  PROVE  /\ IsSeq(<<m>>)
         /\ m.off + m.len < Modulus => Bounded(<<m>>)
         /\ m.off = 0 /\ m.len <= n => Overlaid(<<m>>, n)
         /\ Takes(h, m.type, m.len) => MemsTake(h, <<m>>)
<1>1. IsSeq(<<m>>) /\ Len(<<m>>) = 1 /\ <<m>>[1] = m
  BY SeqOne
<1>2. \A k \in 1..1 : k = 1
  OBVIOUS
<1>3. m.off + m.len < Modulus => Bounded(<<m>>)
  BY <1>1, <1>2 DEF Bounded
<1>4. m.off = 0 /\ m.len <= n => Overlaid(<<m>>, n)
  BY <1>1, <1>2 DEF Overlaid
<1>5. Takes(h, m.type, m.len) => MemsTake(h, <<m>>)
  BY <1>1, <1>2 DEF MemsTake
<1> QED
  BY <1>1, <1>3, <1>4, <1>5

-----------------------------------------------------------------------------
(* The space that a member of a struct gets. *)

LEMMA StructSized ==
  ASSUME InputOK, WellSized(types), NEW t \in TypeIndex,
         types[t].kind = "struct", types[t].size # None
  PROVE  /\ types[t].size \in Nat /\ types[t].size < Modulus
         /\ types[t].layout # <<>> => types[t].layout[1].off = 0
         /\ \A k \in 1..Len(types[t].layout) :
              /\ ByteOffset(t, k) < Modulus
              /\ types[t].layout[k].what = "padding" => types[t].layout[k].size \in Nat
<1>1. t \in DOMAIN types /\ types[t].size \in Nat
  BY TypeFields DEF InputOK, OptNat
<1>2. DOMAIN types[t].layout = 1..Len(types[t].layout)
  BY TypeFields, LenProperties
<1>3. /\ types[t].size < Modulus
      /\ types[t].layout # <<>> => types[t].layout[1].off = 0
      /\ \A k \in 1..Len(types[t].layout) :
           /\ types[t].layout[k].off < BitsPerByte * Modulus
           /\ types[t].layout[k].what = "padding" => types[t].layout[k].size # None
  BY <1>1, <1>2 DEF WellSized
<1>4. ASSUME NEW k \in 1..Len(types[t].layout)
      PROVE  /\ ByteOffset(t, k) < Modulus
             /\ types[t].layout[k].what = "padding" => types[t].layout[k].size \in Nat
  <2> DEFINE l == types[t].layout[k]
  <2>1. l \in LayoutItem
    BY TypeFields, ElementOfSeq
  <2>2. l.off \in Nat /\ l.size \in OptNat
    BY <2>1 DEF LayoutItem
  <2>3. l.off < 8 * Modulus /\ (l.what = "padding" => l.size # None)
    BY <1>3 DEF BitsPerByte
  <2>4. ByteOffset(t, k) = l.off \div 8
    BY DEF ByteOffset, BitsPerByte
  <2> HIDE DEF l
  <2>5. l.off \div 8 < Modulus
    BY <2>2, <2>3, ModulusAssumption
  <2>6. l.what = "padding" => l.size \in Nat
    BY <2>2, <2>3 DEF OptNat
  <2> QED
    BY <2>4, <2>5, <2>6 DEF l
<1> QED
  BY <1>1, <1>3, <1>4

LEMMA RoomFits ==
  ASSUME InputOK, WellSized(types), NEW t \in TypeIndex, NEW max \in OptNat,
         types[t].kind = "struct", types[t].size # None
  PROVE  Room(t, max) \in Int /\ Room(t, max) < Modulus
<1> DEFINE size == types[t].size
           last == types[t].layout[Len(types[t].layout)]
<1>1. size \in Nat /\ size < Modulus /\ max \in Int
  BY StructSized DEF OptNat, None
<1>2. BodySize(t) \in Int /\ BodySize(t) <= size
  <2>1. CASE HasTail(t)
    <3>1. Len(types[t].layout) \in 1..Len(types[t].layout) /\ last.what = "padding"
      BY <2>1, TypeFields, EmptySeq DEF HasTail
    <3>2. last.size \in Nat
      BY <3>1, StructSized
    <3>3. BodySize(t) = (size * 8 - last.size + 8 - 1) \div 8
      BY <2>1 DEF BodySize, Bit2Byte, BitsPerByte
    <3> HIDE DEF size, last
    <3> QED
      BY <1>1, <3>2, <3>3
  <2>2. CASE ~HasTail(t)
    <3>1. BodySize(t) = (size * 8 - 0 + 8 - 1) \div 8
      BY <2>2 DEF BodySize, Bit2Byte, BitsPerByte
    <3> HIDE DEF size
    <3> QED
      BY <1>1, <3>1
  <2> QED
    BY <2>1, <2>2
<1>3. Room(t, max) = IF max = None \/ max > BodySize(t) THEN BodySize(t) ELSE max
  BY DEF Room
<1> HIDE DEF size
<1> QED
  BY <1>1, <1>2, <1>3, ModulusAssumption

\* In a build that checks overflow the space of a member is what lies between it and
\* the next turn of the loop.
LEMMA SpaceFits ==
  ASSUME TypeInv, WellSized(types), DebugBuild, stack # <<>>, top.at # 0, kind = "struct",
         this.size # None, ~Underflows
  PROVE  /\ Current.off = ByteOffset(top.ty, top.at) /\ Current.off \in Nat
         /\ Space = Current.len /\ Space \in Nat
         /\ Current.off + Space < Modulus
         /\ NextTurn # 0 => ByteOffset(top.ty, NextTurn) = Current.off + Space
<1> DEFINE t == top.ty
           n == NextTurn
           off == ByteOffset(t, top.at)
           end == IF n = 0 THEN Room(t, top.max) ELSE ByteOffset(t, n)
<1>1. t \in TypeIndex /\ top.max \in OptNat /\ top.at \in TurnsIn(t) /\ InputOK
  BY TopOK DEF FrameOK, TypeInv
<1>2. types[t].kind = "struct" /\ types[t].size # None
  BY DEF kind, this
<1>3. top.at \in 1..Len(types[t].layout)
  BY <1>1, <1>2, LayoutLength DEF TurnsIn
<1>4. n \in TurnsIn(t) /\ n = FindNext(t, top.at + 1)
  BY NextTurnOK DEF NextTurn
<1>5. n # 0 => n \in 1..Len(types[t].layout)
  BY <1>1, <1>2, <1>4, LayoutLength DEF TurnsIn
<1>6. off \in Nat
  BY <1>1, <1>3, OffsetIsNat
<1>7. end \in Int /\ end < Modulus
  <2>1. CASE n = 0
    BY <1>1, <1>2, <2>1, RoomFits
  <2>2. CASE n # 0
    <3>1. ByteOffset(t, n) \in Nat /\ ByteOffset(t, n) < Modulus
      BY <1>1, <1>2, <1>5, <2>2, OffsetIsNat, StructSized
    <3> QED
      BY <2>2, <3>1
  <2> QED
    BY <2>1, <2>2
<1>8. Current.off = off /\ Current.len = end - off
  BY <1>4 DEF Current, SpaceAt
<1>9. ~(Current.len < 0)
  BY DEF Underflows
<1>10. Space = Current.len % Modulus
  BY DEF Space
<1>11. NextTurn # 0 => ByteOffset(top.ty, NextTurn) = end
  OBVIOUS
<1> HIDE DEF off, end
<1>12. Current.len \in 0..(Modulus - 1)
  BY <1>6, <1>7, <1>8, <1>9, ModulusAssumption
<1>13. Space = Current.len
  BY <1>10, <1>12, ModulusAssumption
<1> QED
  BY <1>6, <1>7, <1>8, <1>11, <1>12, <1>13, ModulusAssumption DEF off

\* The alternatives of a union lie within it.
LEMMA UnionFits ==
  ASSUME TypeInv, WellSized(types), stack # <<>>, top.at # 0, kind = "union",
         this.size # None, Current.what # "refused"
  PROVE  /\ Current.off = 0 /\ Space \in Nat /\ Space <= this.size
         /\ this.size \in Nat /\ this.size < Modulus
<1> DEFINE t == top.ty
           m == types[t].members[top.at]
           size == BitSize(types, t, m)
<1>1. t \in TypeIndex /\ top.at \in TurnsIn(t) /\ InputOK
  BY TopOK DEF FrameOK, TypeInv
<1>2. types[t].kind = "union" /\ types[t].size # None
  BY DEF kind, this
<1>3. top.at \in 1..Len(types[t].members)
  <2>1. top.at \in 0..Len(types[t].members) /\ Len(types[t].members) \in Nat
    BY <1>1, <1>2, TypeFields, LenProperties DEF TurnsIn
  <2> QED
    BY <2>1
<1>4. m \in Item
  BY <1>1, <1>3, TypeFields, ElementOfSeq
<1>5. size \in OptNat
  BY <1>1, <1>4, BitSizeOK
<1>6. t \in DOMAIN types /\ top.at \in DOMAIN types[t].members /\ types[t].size \in Nat
  BY <1>1, <1>2, <1>3, TypeFields, LenProperties DEF InputOK, OptNat
<1>7. types[t].size < Modulus /\ (size # None => Bit2Byte(size) <= types[t].size)
  BY <1>2, <1>6 DEF WellSized
<1>8. /\ Current.off = 0
      /\ size # None
      /\ Current.len = Bit2Byte(size)
  <2>1. Current = [what |-> IF m.off # 0 \/ size = None THEN "refused"
                             ELSE IF size % BitsPerByte # 0 THEN "bitfield" ELSE "member",
                   nth |-> top.at, ty |-> m.ty, off |-> 0,
                   len |-> IF size = None THEN 0 ELSE Bit2Byte(size)]
    BY DEF Current, this
  <2> HIDE DEF size, m
  <2>2. size = None => Current.what = "refused"
    BY <2>1 DEF BitsPerByte, None
  <2>3. Current.off = 0 /\ Current.len = IF size = None THEN 0 ELSE Bit2Byte(size)
    BY <2>1
  <2> QED
    BY <2>2, <2>3
<1>9. Space = Bit2Byte(size) % Modulus
  BY <1>8 DEF Space
<1>10. this.size = types[t].size
  BY DEF this
<1> HIDE DEF size, t
<1>11. size \in Nat
  BY <1>5, <1>8 DEF OptNat
<1>12. Bit2Byte(size) \in Nat
  BY <1>11 DEF Bit2Byte, BitsPerByte
<1>13. Space \in Nat /\ Space <= types[t].size
  BY <1>6, <1>7, <1>8, <1>9, <1>12, ModulusAssumption
<1> QED
  BY <1>6, <1>7, <1>8, <1>10, <1>13

-----------------------------------------------------------------------------
(* The ways a step may go on from AssertInv. *)

HoldsOn == HeaderHolds(header') /\ Taken(header, header')
LeavesHolding ==
  /\ Leaves /\ HoldsOn
  /\ \/ ReturnNothing
     \/ \E info : /\ Return(info)
                  /\ info # NoInfo => Takes(header', info.type, info.packed)

LEMMA FramesStay ==
  ASSUME types' = types, \A i \in 1..Len(stack') : FrameHolds(header', stack'[i])
  PROVE  (\A i \in 1..Len(stack) : FrameHolds(header, stack[i]))'
<1> SUFFICES ASSUME NEW i \in 1..Len(stack')
             PROVE  FrameHolds(header, stack[i])'
  OBVIOUS
<1>1. FrameHolds(header', stack'[i])
  OBVIOUS
<1>2. MemsTake(header, stack[i].mems)'
  BY <1>1 DEF FrameHolds, MemsTake, Takes
<1>3. (types[stack[i].ty].kind = "struct" => Tiled(stack[i]))'
  BY <1>1 DEF FrameHolds, Tiled, ByteOffset
<1> QED
  BY <1>1, <1>2, <1>3 DEF FrameHolds

LEMMA HeaderStays ==
  ASSUME types' = types, HeaderHolds(header')
  PROVE  HeaderHolds(header)'
<1>1. \A mems : MemsTake(header', mems) => MemsTake(header, mems)'
  BY DEF MemsTake, Takes
<1>2. \A d : DefHolds(header', d) => DefHolds(header, d)'
  BY <1>1 DEF DefHolds
<1> QED
  BY <1>2 DEF HeaderHolds

LEMMA LeavingHolds ==
  ASSUME SizedInv, TypeInv', types' = types, LeavesHolding
  PROVE  SizedInv'
<1>1. \A i \in 1..Len(stack') : i \in 1..Len(stack) /\ stack'[i] = stack[i]
  <2>1. Len(stack) \in Nat
    BY SeqLen DEF SizedInv, TypeInv, CallInv
  <2> QED
    BY <2>1, LeaveFacts DEF LeavesHolding, SizedInv, TypeInv, CallInv
<1>2. \A i \in 1..Len(stack') : FrameHolds(header', stack'[i])
  BY <1>1, FrameGrows DEF SizedInv, AssertInv, LeavesHolding, HoldsOn
<1>3. ASSUME NEW t \in DOMAIN processed', processed'[t] # NoInfo
      PROVE  Takes(header', processed'[t].type, processed'[t].packed)
  <2>1. t \in DOMAIN processed
    BY <1>3, LeaveFacts DEF LeavesHolding, SizedInv, TypeInv, CallInv
  <2>2. CASE processed'[t] = processed[t]
    BY <2>1, <2>2, <1>3 DEF SizedInv, AssertInv, Known, LeavesHolding, HoldsOn, Taken
  <2>3. CASE processed'[t] # processed[t]
    BY <2>1, <2>3, <1>3 DEF LeavesHolding, Return, ReturnNothing
  <2> QED
    BY <2>2, <2>3
<1>4. (\A i \in 1..Len(stack) : FrameHolds(header, stack[i]))'
  BY <1>2, FramesStay
<1>5. HeaderHolds(header)'
  BY HeaderStays DEF LeavesHolding, HoldsOn
<1>6. Known(header)'
  BY <1>3 DEF Known, Takes
<1>7. WellSized(types)'
  BY DEF SizedInv
<1> QED
  BY <1>4, <1>5, <1>6, <1>7 DEF SizedInv, AssertInv

LEMMA StayingHolds ==
  ASSUME SizedInv, TypeInv', types' = types, Stays, HoldsOn
  PROVE  SizedInv'
<1>1. \A i \in 1..Len(stack') : FrameHolds(header', stack'[i])
  BY FrameGrows DEF SizedInv, AssertInv, HoldsOn, Stays
<1>2. \A t \in DOMAIN processed' :
        processed'[t] # NoInfo => Takes(header', processed'[t].type, processed'[t].packed)
  BY DEF SizedInv, AssertInv, Known, HoldsOn, Taken, Stays
<1>3. (\A i \in 1..Len(stack) : FrameHolds(header, stack[i]))'
  BY <1>1, FramesStay
<1>4. HeaderHolds(header)'
  BY HeaderStays DEF HoldsOn
<1>5. Known(header)'
  BY <1>2 DEF Known, Takes
<1>6. WellSized(types)'
  BY DEF SizedInv
<1> QED
  BY <1>3, <1>4, <1>5, <1>6 DEF SizedInv, AssertInv

\* Entering a type, or one turn of a loop: one frame is new, on top.
LEMMA FrameTopped ==
  ASSUME SizedInv, TypeInv', types' = types, printer' = printer,
         \A u \in DOMAIN processed' :
           processed'[u] = NoInfo \/ (u \in DOMAIN processed /\ processed'[u] = processed[u]),
         NEW m \in 0..Len(stack), NEW f, FrameHolds(header, f),
         Len(stack') = m + 1, \A i \in 1..m : stack'[i] = stack[i], stack'[m + 1] = f
  PROVE  SizedInv'
<1>1. header' = header
  BY DEF header
<1>2. Len(stack) \in Nat
  BY SeqLen DEF SizedInv, TypeInv, CallInv
<1>3. \A i \in 1..Len(stack') : (i \in 1..m /\ i \in 1..Len(stack)) \/ i = m + 1
  BY <1>2
<1>4. \A i \in 1..Len(stack') : FrameHolds(header', stack'[i])
  BY <1>1, <1>3 DEF SizedInv, AssertInv
<1>5. \A t \in DOMAIN processed' :
        processed'[t] # NoInfo => Takes(header', processed'[t].type, processed'[t].packed)
  BY <1>1 DEF SizedInv, AssertInv, Known
<1>6. (\A i \in 1..Len(stack) : FrameHolds(header, stack[i]))'
  BY <1>4, FramesStay
<1>7. HeaderHolds(header)'
  <2>1. HeaderHolds(header')
    BY <1>1 DEF SizedInv, AssertInv
  <2> QED
    BY <2>1, HeaderStays
<1>8. Known(header)'
  BY <1>5 DEF Known, Takes
<1>9. WellSized(types)'
  BY DEF SizedInv
<1> QED
  BY <1>6, <1>7, <1>8, <1>9 DEF SizedInv, AssertInv

-----------------------------------------------------------------------------
(* The loops over members. *)

\* The first turn of the loop over a struct is at its first byte.
LEMMA FirstAtStart ==
  ASSUME InputOK, WellSized(types), NEW t \in TypeIndex, types[t].kind = "struct",
         types[t].size # None, FindNext(t, 1) # 0
  PROVE  ByteOffset(t, FindNext(t, 1)) = 0
<1>1. FindNext(t, 1) \in 1..BodyLength(t)
  BY FindNextFinds
<1>2. /\ 1 \in 1..BodyLength(t)
      /\ 1 \in 1..Len(types[t].layout)
  BY <1>1, LayoutLength
<1>3. types[t].layout # <<>>
  BY <1>2, EmptySeq
<1>4. types[t].layout[1].off = 0
  BY <1>3, StructSized
<1>5. 1 \in Aligned(t, 1)
  BY <1>2, <1>4 DEF Aligned, BitsPerByte
<1>6. Aligned(t, 1) \subseteq 1..BodyLength(t)
  BY DEF Aligned
<1>7. FindNext(t, 1) = 1
  <2>1. Aligned(t, 1) \subseteq Nat
    BY <1>6, LayoutLength
  <2>2. \E m \in Aligned(t, 1) : \A k \in Aligned(t, 1) : m <= k
    BY <1>5, <2>1, NatMin
  <2>3. FindNext(t, 1) \in Aligned(t, 1) /\ \A k \in Aligned(t, 1) : FindNext(t, 1) <= k
    BY <1>5, <2>2 DEF FindNext
  <2>4. FindNext(t, 1) <= 1
    BY <1>5, <2>3
  <2> QED
    BY <1>1, <2>4, LayoutLength
<1> QED
  BY <1>4, <1>7 DEF ByteOffset, BitsPerByte

LEMMA NewFrameHolds ==
  ASSUME InputOK, WellSized(types), NEW t \in TypeIndex, NEW max \in OptNat, NEW h
  PROVE  FrameHolds(h, Frame(t, max))
<1> DEFINE f == Frame(t, max)
<1>1. f.ty = t /\ f.at = FirstTurn(t, max) /\ f.mems = <<>>
  BY DEF Frame
<1> HIDE DEF f
<1>2. f.at # 0 => types[t].size # None /\ ~types[t].decl
  BY <1>1 DEF FirstTurn, Unfit
<1>3. types[t].kind = "struct" => Tiled(f)
  <2> SUFFICES ASSUME types[t].kind = "struct"
               PROVE  Tiled(f)
    OBVIOUS
  <2>1. f.at # 0 => f.at = FindNext(t, 1)
    BY <1>1 DEF FirstTurn
  <2>2. f.at # 0 => 0 = ByteOffset(f.ty, f.at)
    BY <1>1, <1>2, <2>1, FirstAtStart
  <2>3. 0 \in Nat
    OBVIOUS
  <2> QED
    BY <1>1, <2>2, <2>3, SpansNone DEF Tiled
<1>4. Overlaid(<<>>, types[t].size)
  BY SeqEmpty DEF Overlaid
<1>5. FrameHolds(h, f)
  BY <1>1, <1>2, <1>3, <1>4, SpansNone DEF FrameHolds
<1> QED
  BY <1>5 DEF f

LEMMA EntersHold ==
  ASSUME SizedInv, TypeInv', types' = types, printer' = printer,
         NEW t \in TypeIndex, NEW max \in OptNat, Enter(t, max)
  PROVE  SizedInv'
<1>1. Len(stack) \in Nat /\ Len(stack) \in 0..Len(stack)
  BY SeqLen DEF SizedInv, TypeInv, CallInv
<1>2. /\ DOMAIN processed' = DOMAIN processed \union {t}
      /\ processed'[t] = NoInfo
      /\ \A u \in DOMAIN processed : u # t => processed'[u] = processed[u]
  BY EnterFacts DEF SizedInv, TypeInv, CallInv
<1>3. stack' = Append(stack, Frame(t, max))
  BY DEF Enter
<1>4. /\ Len(stack') = Len(stack) + 1
      /\ \A i \in 1..Len(stack) : stack'[i] = stack[i]
      /\ stack'[Len(stack) + 1] = Frame(t, max)
  BY <1>3, SeqAppend DEF SizedInv, TypeInv, CallInv
<1>5. FrameHolds(header, Frame(t, max))
  BY NewFrameHolds DEF SizedInv, TypeInv
<1>6. \A u \in DOMAIN processed' :
        processed'[u] = NoInfo \/ (u \in DOMAIN processed /\ processed'[u] = processed[u])
  BY <1>2
<1> QED
  BY <1>1, <1>4, <1>5, <1>6, FrameTopped

LEMMA AdvanceHolds ==
  ASSUME SizedInv, TypeInv', stack # <<>>, NEW mems, Advance(mems),
         NEW f, f = [ty |-> top.ty, max |-> top.max, at |-> NextTurn, mems |-> top.mems \o mems],
         FrameHolds(header, f)
  PROVE  SizedInv'
<1>1. Len(stack) \in Nat /\ Len(stack) \in 1..Len(stack)
  BY SeqLen DEF SizedInv, TypeInv, CallInv
<1>2. types' = types /\ printer' = printer /\ processed' = processed
  BY DEF Advance
<1>3. stack' = Append(Callers, f)
  BY DEF Advance
<1>4. /\ IsSeq(Callers)
      /\ Len(Callers) = Len(stack) - 1
      /\ \A i \in 1..(Len(stack) - 1) : Callers[i] = stack[i]
  BY <1>1, SeqPrefix, Len(stack) - 1 \in 0..Len(stack) DEF Callers, SizedInv, TypeInv, CallInv
<1>5. PICK m \in 0..Len(stack) : m = Len(stack) - 1
  <2>1. Len(stack) - 1 \in 0..Len(stack)
    BY <1>1
  <2> QED
    BY <2>1
<1>6. /\ Len(stack') = m + 1
      /\ \A i \in 1..m : stack'[i] = stack[i]
      /\ stack'[m + 1] = f
  BY <1>3, <1>4, <1>5, SeqAppend
<1>7. \A u \in DOMAIN processed' :
        processed'[u] = NoInfo \/ (u \in DOMAIN processed /\ processed'[u] = processed[u])
  BY <1>2
<1> QED
  BY <1>2, <1>6, <1>7, FrameTopped

\* One turn of the loop over a struct: the members taken fill the space up to the next.
LEMMA StructTurn ==
  ASSUME SizedInv, TypeInv', DebugBuild, stack # <<>>, top.at # 0, kind = "struct",
         ~Underflows, NEW mems, IsSeq(mems), Advance(mems), MemsTake(header, mems),
         Bounded(mems), Spans(mems, Current.off, Current.off + Space)
  PROVE  SizedInv'
<1> DEFINE g == [ty |-> top.ty, max |-> top.max, at |-> NextTurn, mems |-> top.mems \o mems]
<1>1. FrameOK(top) /\ FrameHolds(header, top)
  <2>1. Len(stack) \in 1..Len(stack)
    BY SeqLen DEF SizedInv, TypeInv, CallInv
  <2> QED
    BY <2>1, TopOK DEF SizedInv, AssertInv, top
<1>2. /\ types[top.ty].kind = "struct" /\ this.size # None
      /\ types[top.ty].size # None /\ ~types[top.ty].decl
  BY <1>1 DEF kind, this, FrameHolds
<1>3. IsSeq(top.mems) /\ MemsTake(header, top.mems) /\ Tiled(top)
  BY <1>1, <1>2 DEF FrameOK, MemsOK, FrameHolds
<1>4. Bounded(top.mems) /\ Spans(top.mems, 0, Current.off)
  <2>1. Current.off = ByteOffset(top.ty, top.at)
    BY <1>2, SpaceFits DEF SizedInv
  <2> QED
    BY <1>3, <2>1 DEF Tiled
<1>5. /\ Current.off + Space \in Nat
      /\ NextTurn # 0 => ByteOffset(top.ty, NextTurn) = Current.off + Space
  BY <1>2, SpaceFits DEF SizedInv
<1>6. /\ Spans(top.mems \o mems, 0, Current.off + Space)
      /\ Bounded(top.mems \o mems)
      /\ MemsTake(header, top.mems \o mems)
  BY <1>3, <1>4, SpansJoin, JoinBounded, JoinTakes
<1>7. PICK f : f = g
  OBVIOUS
<1>8. f.ty = top.ty /\ f.at = NextTurn /\ f.mems = top.mems \o mems
  BY <1>7
<1>9. FrameHolds(header, f)
  <2>1. Tiled(f)
    BY <1>5, <1>6, <1>8 DEF Tiled
  <2> QED
    BY <1>2, <1>6, <1>8, <2>1 DEF FrameHolds
<1> QED
  BY <1>7, <1>9, AdvanceHolds

LEMMA UnionTurn ==
  ASSUME SizedInv, TypeInv', stack # <<>>, top.at # 0, kind = "union",
         NEW mems, IsSeq(mems), Advance(mems), MemsTake(header, mems),
         Overlaid(mems, this.size)
  PROVE  SizedInv'
<1> DEFINE g == [ty |-> top.ty, max |-> top.max, at |-> NextTurn, mems |-> top.mems \o mems]
<1>1. FrameOK(top) /\ FrameHolds(header, top)
  <2>1. Len(stack) \in 1..Len(stack)
    BY SeqLen DEF SizedInv, TypeInv, CallInv
  <2> QED
    BY <2>1, TopOK DEF SizedInv, AssertInv, top
<1>2. /\ types[top.ty].kind = "union" /\ types[top.ty].size = this.size
      /\ types[top.ty].size # None /\ ~types[top.ty].decl
  BY <1>1 DEF kind, this, FrameHolds
<1>3. IsSeq(top.mems) /\ MemsTake(header, top.mems) /\ Overlaid(top.mems, this.size)
  BY <1>1, <1>2 DEF FrameOK, MemsOK, FrameHolds
<1>4. Overlaid(top.mems \o mems, this.size) /\ MemsTake(header, top.mems \o mems)
  BY <1>3, JoinOverlaid, JoinTakes
<1>5. PICK f : f = g
  OBVIOUS
<1>6. f.ty = top.ty /\ f.at = NextTurn /\ f.mems = top.mems \o mems
  BY <1>5
<1>7. FrameHolds(header, f)
  BY <1>2, <1>4, <1>6 DEF FrameHolds
<1> QED
  BY <1>5, <1>7, AdvanceHolds

LEMMA BytesHold ==
  ASSUME NEW h, NEW off \in Nat, NEW len \in Nat, NEW from
  PROVE  LET m == Mem(off, len, ByteType, from)
         IN  /\ IsSeq(<<m>>) /\ MemsTake(h, <<m>>)
             /\ off + len < Modulus => Bounded(<<m>>)
             /\ Spans(<<m>>, off, off + len)
             /\ off = 0 => \A n \in Nat : len <= n => Overlaid(<<m>>, n)
<1> DEFINE m == Mem(off, len, ByteType, from)
<1>1. m.off = off /\ m.len = len /\ m.type = ByteType
  BY DEF Mem
<1> HIDE DEF m
<1>2. /\ IsSeq(<<m>>) /\ MemsTake(h, <<m>>)
      /\ off + len < Modulus => Bounded(<<m>>)
      /\ Spans(<<m>>, off, off + len)
      /\ off = 0 => \A n \in Nat : len <= n => Overlaid(<<m>>, n)
  BY <1>1, TakesBytes, OneMember, SpansOne
<1> QED
  BY <1>2 DEF m

LEMMA SkipHolds ==
  ASSUME SizedInv, TypeInv', DebugBuild, SkipEmpty
  PROVE  SizedInv'
<1>1. /\ stack # <<>> /\ top.at # 0 /\ kind = "struct" /\ Current.len = 0
      /\ Advance(<<>>)
  BY DEF SkipEmpty, Skipped, InLoop, Running
<1>2. ~Underflows
  BY <1>1 DEF Underflows
<1>3. IsSeq(<<>>) /\ MemsTake(header, <<>>) /\ Bounded(<<>>)
  BY SeqEmpty, SpansNone
<1>4. this.size # None
  <2>1. Len(stack) \in 1..Len(stack)
    BY <1>1, SeqLen DEF SizedInv, TypeInv, CallInv
  <2> QED
    BY <1>1, <2>1 DEF SizedInv, AssertInv, FrameHolds, top, this
<1>5. Space = 0 /\ Current.off \in Nat
  BY <1>1, <1>2, <1>4, SpaceFits DEF SizedInv
<1>6. Current.off = Current.off + Space
  BY <1>5
<1>7. Spans(<<>>, Current.off, Current.off + Space)
  BY <1>6, SeqEmpty DEF Spans
<1> QED
  BY <1>1, <1>2, <1>3, <1>7, StructTurn

LEMMA TakeBytesHolds ==
  ASSUME SizedInv, TypeInv', DebugBuild, stack # <<>>, top.at # 0, ~Underflows,
         Current.what # "refused",
         Advance(<<Mem(Current.off, Space, ByteType, From)>>)
  PROVE  SizedInv'
<1> DEFINE m == Mem(Current.off, Space, ByteType, From)
<1>1. TypeInv /\ WellSized(types)
  BY DEF SizedInv
<1>2. this.size # None
  <2>1. Len(stack) \in 1..Len(stack)
    BY SeqLen DEF SizedInv, TypeInv, CallInv
  <2> QED
    BY <2>1 DEF SizedInv, AssertInv, FrameHolds, top, this
<1>3. kind \in {"struct", "union"} /\ Current.off \in Nat /\ Current.len \in Int
  BY <1>1, CurrentOK
<1>4. Space \in Nat
  BY <1>3, ModuloNat DEF Space
<1>5. /\ IsSeq(<<m>>) /\ MemsTake(header, <<m>>)
      /\ Current.off + Space < Modulus => Bounded(<<m>>)
      /\ Spans(<<m>>, Current.off, Current.off + Space)
      /\ Current.off = 0 => \A n \in Nat : Space <= n => Overlaid(<<m>>, n)
  BY <1>3, <1>4, BytesHold
<1> HIDE DEF m
<1>6. Advance(<<m>>)
  BY DEF m
<1>7. CASE kind = "struct"
  <2>1. Current.off + Space < Modulus
    BY <1>1, <1>2, <1>7, SpaceFits
  <2> QED
    BY <1>5, <1>6, <1>7, <2>1, StructTurn
<1>8. CASE kind = "union"
  <2>1. Current.off = 0 /\ Space <= this.size /\ this.size \in Nat
    BY <1>1, <1>2, <1>8, UnionFits
  <2> QED
    BY <1>5, <1>6, <1>8, <2>1, UnionTurn
<1> QED
  BY <1>3, <1>7, <1>8

LEMMA TakeMemberHolds ==
  ASSUME SizedInv, TypeInv', DebugBuild, TakeMember
  PROVE  SizedInv'
<1> DEFINE u == Child(top.ty, Current.ty)
           info == processed[u]
           off == Current.off
           own == Mem(off, info.packed, info.type, From)
           pad == Mem(off + info.packed, Space - info.packed, ByteType,
                      [what |-> "padding", nth |-> 0])
           rest == IF kind = "struct" /\ info.packed < Space THEN <<pad>> ELSE <<>>
<1>1. /\ stack # <<>> /\ top.at # 0 /\ ~Underflows
      /\ Got(u, Space, info)
      /\ Advance(IF info = NoInfo THEN <<Mem(off, Space, ByteType, From)>>
                 ELSE <<own>> \o rest)
  BY DEF TakeMember, InLoop, Running
<1>2. TypeInv /\ WellSized(types)
  BY DEF SizedInv
<1>3. kind \in {"struct", "union"} /\ off \in Nat /\ Current.len \in Int
  BY <1>1, <1>2, CurrentOK
<1>4. this.size # None /\ ~this.decl
  <2>1. Len(stack) \in 1..Len(stack)
    BY <1>1, SeqLen DEF SizedInv, TypeInv, CallInv
  <2> QED
    BY <1>1, <2>1 DEF SizedInv, AssertInv, FrameHolds, top, this
<1>5. Current.what \in {"member", "inherit"}
  <2>1. ~IsAlias(top.ty) /\ ~IsDeclaration(top.ty) /\ kind \notin {"pointer", "array"}
    BY <1>3, <1>4 DEF IsAlias, IsDeclaration, kind, this
  <2>2. Wanted # {}
    BY <1>1 DEF Got
  <2> QED
    BY <2>1, <2>2 DEF Wanted
<1>6. CASE info = NoInfo
  <2>1. Advance(<<Mem(Current.off, Space, ByteType, From)>>)
    BY <1>1, <1>6
  <2> QED
    BY <1>1, <1>5, <2>1, TakeBytesHolds
<1>7. CASE info # NoInfo
  <2>1. Advance(<<own>> \o rest)
    BY <1>1, <1>7
  <2>2. /\ info.packed \in Nat /\ info.packed <= Space
        /\ Takes(header, info.type, info.packed)
    <3>1. u \in DOMAIN processed /\ Fits(info, Space)
      BY <1>1 DEF Got
    <3>2. Space \in Nat
      BY <1>3, ModuloNat DEF Space
    <3>3. Space # None
      BY <3>2 DEF None
    <3> HIDE DEF u
    <3>4. info.packed \in Nat /\ Takes(header, info.type, info.packed)
      BY <1>2, <1>7, <3>1 DEF TypeInv, InfoOK, SizedInv, AssertInv, Known
    <3>5. info.packed <= Space
      BY <1>7, <3>1, <3>3 DEF Fits
    <3> QED
      BY <3>4, <3>5
  <2>3. own.off = off /\ own.len = info.packed /\ own.type = info.type
    BY DEF Mem
  <2> HIDE DEF own, info
  <2>4. IsSeq(<<own>>) /\ MemsTake(header, <<own>>) /\ Spans(<<own>>, off, off + info.packed)
    BY <2>2, <2>3, OneMember, SpansOne
  <2>5. CASE kind = "struct"
    <3>1. Space \in Nat /\ off + Space < Modulus
      BY <1>1, <1>2, <1>4, <2>5, SpaceFits
    <3>2. Bounded(<<own>>)
      <4>1. own.off + own.len < Modulus
        BY <1>3, <2>2, <2>3, <3>1, ModulusAssumption
      <4> QED
        BY <4>1, OneMember
    <3>3. /\ IsSeq(rest) /\ MemsTake(header, rest) /\ Bounded(rest)
          /\ Spans(rest, off + info.packed, off + Space)
      <4>1. CASE info.packed < Space
        <5>1. PICK a \in Nat, n \in Nat : a = off + info.packed /\ n = Space - info.packed
          <6>1. off + info.packed \in Nat /\ Space - info.packed \in Nat
            BY <1>3, <2>2, <3>1, <4>1
          <6> QED
            BY <6>1
        <5>2. a + n = off + Space
          BY <1>3, <2>2, <3>1, <5>1
        <5>3. /\ IsSeq(<<pad>>) /\ MemsTake(header, <<pad>>) /\ Bounded(<<pad>>)
              /\ Spans(<<pad>>, a, a + n)
          BY <3>1, <5>1, <5>2, BytesHold
        <5>4. rest = <<pad>>
          BY <2>5, <4>1
        <5> HIDE DEF pad, rest
        <5> QED
          BY <5>1, <5>2, <5>3, <5>4
      <4>2. CASE ~(info.packed < Space)
        <5>1. info.packed = Space
          BY <2>2, <3>1, <4>2
        <5>2. rest = <<>>
          BY <4>2
        <5> HIDE DEF rest
        <5> QED
          BY <5>1, <5>2, SeqEmpty, SpansNone DEF Spans
      <4> QED
        BY <4>1, <4>2
    <3> HIDE DEF rest
    <3>4. /\ IsSeq(<<own>> \o rest) /\ MemsTake(header, <<own>> \o rest)
          /\ Bounded(<<own>> \o rest)
          /\ Spans(<<own>> \o rest, off, off + Space)
      BY <2>4, <3>2, <3>3, SeqConcat, SpansJoin, JoinBounded, JoinTakes
    <3> QED
      BY <1>1, <2>1, <2>5, <3>4, StructTurn
  <2>6. CASE kind = "union"
    <3>1. off = 0 /\ Space \in Nat /\ Space <= this.size /\ this.size \in Nat
      BY <1>1, <1>2, <1>4, <1>5, <2>6, UnionFits
    <3>2. info.packed <= this.size
      BY <2>2, <3>1
    <3>3. Overlaid(<<own>>, this.size)
      BY <2>3, <3>1, <3>2, OneMember
    <3>4. rest = <<>>
      BY <2>6
    <3>5. IsSeq(<<>>) /\ MemsTake(header, <<>>) /\ Overlaid(<<>>, this.size)
      BY SeqEmpty DEF MemsTake, Overlaid
    <3> HIDE DEF rest
    <3>6. /\ IsSeq(<<own>> \o rest) /\ MemsTake(header, <<own>> \o rest)
          /\ Overlaid(<<own>> \o rest, this.size)
      BY <2>4, <3>3, <3>4, <3>5, SeqConcat, JoinOverlaid, JoinTakes
    <3> QED
      BY <1>1, <2>1, <2>6, <3>6, UnionTurn
  <2> QED
    BY <1>3, <2>5, <2>6
<1> QED
  BY <1>6, <1>7

-----------------------------------------------------------------------------
(* The handlers that return. *)

LEMMA SilentHolds ==
  ASSUME SizedInv,
         ProcessOpaque \/ ProcessBase \/ Refuse \/ UnknownDeclaration
           \/ ProcessLink \/ ProcessPointer
  PROVE  LeavesHolding
<1>1. stack # <<>> /\ header' = header /\ TypeInv /\ WellSized(types)
  BY DEF ProcessOpaque, ProcessBase, Refuse, UnknownDeclaration, ProcessLink,
         ProcessPointer, Running, header, SizedInv
<1>2. HoldsOn
  BY <1>1, TakenSame DEF HoldsOn, SizedInv, AssertInv
<1>3. ASSUME NEW info, Return(info), info # NoInfo => Takes(header, info.type, info.packed)
      PROVE  LeavesHolding
  BY <1>1, <1>2, <1>3 DEF LeavesHolding, Leaves
<1>4. top.ty \in TypeIndex /\ InputOK
  BY <1>1, TopOK DEF FrameOK, TypeInv
<1>5. CASE ProcessOpaque \/ Refuse \/ UnknownDeclaration
  BY <1>1, <1>2, <1>5 DEF ProcessOpaque, Refuse, UnknownDeclaration, LeavesHolding, Leaves
<1>6. CASE ProcessBase
  <2> DEFINE c == this.path[Len(this.path)]
             type == CType(c.text, c.ident, FALSE)
             info == Info(type, this.size, this.size)
  <2>1. ReturnNothing \/ Return(info)
    BY <1>6 DEF ProcessBase
  <2>2. Takes(header, type, this.size)
    <3>1. types[top.ty].kind = "base" /\ Len(types[top.ty].path) = 1
      <4>1. top.ty \in DOMAIN types /\ types[top.ty].kind = "base"
        BY <1>4, <1>6 DEF InputOK, ProcessBase, kind, this
      <4> QED
        BY <1>1, <4>1 DEF WellSized
    <3>2. types[top.ty].path[1].text = type.name /\ types[top.ty].size = this.size
      BY <3>1 DEF this, CType
    <3>3. type.ptrs = 0 /\ ~type.def
      BY DEF CType
    <3> HIDE DEF type
    <3> QED
      BY <1>4, <3>1, <3>2, <3>3 DEF Takes
  <2>3. info.type = type /\ info.packed = this.size
    BY DEF Info
  <2> HIDE DEF info, type
  <2> QED
    BY <1>1, <1>2, <1>3, <2>1, <2>2, <2>3 DEF LeavesHolding, Leaves
<1>7. CASE ProcessLink
  <2>1. PICK u : u \in DOMAIN processed /\ Return(processed[u])
    BY <1>7 DEF ProcessLink, Got
  <2>2. processed[u] # NoInfo => Takes(header, processed[u].type, processed[u].packed)
    BY <2>1 DEF SizedInv, AssertInv, Known
  <2> QED
    BY <1>3, <2>1, <2>2
<1>8. CASE ProcessPointer
  <2> DEFINE u == Child(top.ty, this.ty)
             pointee == IF processed[u] = NoInfo THEN VoidType ELSE processed[u].type
             info == Info(PointerTo(pointee), this.size, this.size)
  <2>1. u \in DOMAIN processed /\ Return(info) /\ kind = "pointer"
        /\ [ty |-> u, max |-> None] \in Wanted
    BY <1>8 DEF ProcessPointer, Got
  <2>2. pointee.ptrs \in Nat
    BY <2>1 DEF SizedInv, AssertInv, Known, Takes, VoidType, CType
  <2>3. this.size # None
    <3>1. ~IsAlias(top.ty) /\ ~IsDeclaration(top.ty)
      BY <2>1 DEF IsAlias, IsDeclaration, kind, this
    <3>2. ~Unfit(this.size, top.max)
      BY <2>1, <3>1 DEF Wanted
    <3> QED
      BY <3>2 DEF Unfit
  <2>4. this.size = PointerSize
    <3>1. top.ty \in DOMAIN types /\ types[top.ty].kind = "pointer"
      BY <1>4, <2>1 DEF InputOK, kind, this
    <3>2. types[top.ty].size \in {None, PointerSize}
      BY <1>1, <3>1 DEF WellSized
    <3> QED
      BY <2>3, <3>2 DEF this
  <2>5. info.type.ptrs = pointee.ptrs + 1 /\ info.packed = PointerSize
    BY <2>4 DEF Info, PointerTo
  <2> HIDE DEF info, pointee
  <2>6. Takes(header, info.type, info.packed)
    BY <2>2, <2>5 DEF Takes
  <2> QED
    BY <1>3, <2>1, <2>6
<1> QED
  BY <1>5, <1>6, <1>7, <1>8

\* A definition printed for the innermost type, which the handler then returns.
LEMMA PrintHolds ==
  ASSUME SizedInv, stack # <<>>, NEW d, NEW info, Return(info),
         header' = Append(header, d), DefHolds(header, d),
         info.type.name = d.ident, info.type.ptrs = 0, info.type.def, info.packed = d.size
  PROVE  LeavesHolding
<1>1. HoldsOn /\ Takes(header', info.type, info.packed)
  BY AddHolds DEF HoldsOn, SizedInv, AssertInv
<1> QED
  BY <1>1 DEF LeavesHolding, Leaves

LEMMA NothingHolds ==
  ASSUME SizedInv, stack # <<>>, ReturnNothing, header' = header
  PROVE  LeavesHolding
  BY TakenSame DEF LeavesHolding, Leaves, HoldsOn, SizedInv, AssertInv

LEMMA EnumHolds ==
  ASSUME SizedInv, ProcessEnum
  PROVE  LeavesHolding
<1> DEFINE size == this.bytes
           a == AllocIdent(printer.used, printer.uniq, this.path)
           info == Info(CType(a.ident, a.ident, TRUE), size, size)
           d == Def(a.ident, "enum", top.ty, <<>>, 1, size)
<1>1. stack # <<>>
  BY DEF ProcessEnum, Running
<1>2. CASE ReturnNothing /\ UNCHANGED printer
  <2>1. header' = header
    BY <1>2 DEF header
  <2> QED
    BY <1>1, <1>2, <2>1, NothingHolds
<1>3. CASE /\ Return(info)
           /\ printer' = [used |-> a.used, uniq |-> a.uniq, header |-> Append(printer.header, d)]
  <2>1. header' = Append(header, d)
    BY <1>3 DEF header
  <2>2. d.form = "enum" /\ d.mems = <<>>
    BY DEF Def
  <2>3. /\ info.type.name = d.ident /\ info.type.ptrs = 0 /\ info.type.def
        /\ info.packed = d.size
    BY DEF Info, CType, Def
  <2> HIDE DEF info, d
  <2>4. DefHolds(header, d)
    BY <2>2, SeqEmpty, SpansNone DEF DefHolds, MemsOK
  <2> QED
    BY <1>1, <1>3, <2>1, <2>3, <2>4, PrintHolds
<1> QED
  BY <1>2, <1>3 DEF ProcessEnum

LEMMA EmitHolds ==
  ASSUME SizedInv, stack # <<>>, NEW form, NEW mems, Emit(form, mems), MemsOK(mems),
         MemsTake(header, mems), form \in {"struct", "union"},
         NEW size \in Nat, size < Modulus,
         mems # <<>> => size = mems[Len(mems)].off + mems[Len(mems)].len,
         form = "struct" => Spans(mems, 0, size) \/ mems = <<>>,
         form = "union" => /\ Overlaid(mems, size)
                           /\ \E k \in 1..Len(mems) : mems[k].len = size
  PROVE  LeavesHolding
<1> DEFINE a == AllocIdent(printer.used, printer.uniq, this.path)
           last == mems[Len(mems)]
           packed == (last.off + last.len) % Modulus
           d == Def(a.ident, form, top.ty, mems, 1, packed)
           info == Info(CType(a.ident, a.ident, TRUE), packed, this.size)
<1>1. CASE mems = <<>>
  <2>1. ReturnNothing /\ printer'.header = printer.header
    BY <1>1 DEF Emit
  <2> QED
    BY <2>1, NothingHolds DEF header
<1>2. CASE mems # <<>>
  <2>1. /\ Return(info)
        /\ printer' = [used |-> a.used, uniq |-> a.uniq, header |-> Append(printer.header, d)]
    BY <1>2 DEF Emit
  <2>2. packed = size
    <3>1. packed = size % Modulus
      BY <1>2
    <3> HIDE DEF packed
    <3> QED
      BY <3>1, ModulusAssumption
  <2>3. header' = Append(header, d)
    BY <2>1 DEF header
  <2>4. d.form = form /\ d.mems = mems /\ d.size = size
    BY <2>2 DEF Def
  <2>5. /\ info.type.name = d.ident /\ info.type.ptrs = 0 /\ info.type.def
        /\ info.packed = d.size
    BY DEF Info, CType, Def
  <2> HIDE DEF info, d
  <2>6. Len(mems) # 0
    BY <1>2, SeqLen DEF MemsOK
  <2>7. DefHolds(header, d)
    BY <1>2, <2>4, <2>6 DEF DefHolds
  <2> QED
    BY <2>1, <2>3, <2>5, <2>7, PrintHolds
<1> QED
  BY <1>1, <1>2

LEMMA StructHolds ==
  ASSUME SizedInv, EmitStruct
  PROVE  LeavesHolding
<1> DEFINE mems == top.mems
           shown == {k \in 1..Len(mems) : mems[k].from.what # "padding"}
           n == IF shown = {} THEN 0 ELSE CHOOSE k \in shown : \A j \in shown : j <= k
           p == SubSeq(mems, 1, n)
<1>1. stack # <<>> /\ Emit("struct", p) /\ kind = "struct"
  BY DEF EmitStruct, Running
<1>2. MemsOK(mems) /\ FrameHolds(header, top) /\ types[top.ty].kind = "struct"
  <2>1. Len(stack) \in 1..Len(stack)
    BY <1>1, SeqLen DEF SizedInv, TypeInv, CallInv
  <2> QED
    BY <1>1, <2>1, TopOK DEF SizedInv, AssertInv, FrameOK, top, kind, this
<1>3. Len(mems) \in Nat /\ IsSeq(mems)
  BY <1>2, SeqLen DEF MemsOK
<1>4. n \in 0..Len(mems)
  <2>1. CASE shown = {}
    BY <2>1, <1>3
  <2>2. CASE shown # {}
    <3>1. \E k \in shown : \A j \in shown : j <= k
      BY <2>2, <1>3, NatMax, shown \subseteq 0..Len(mems)
    <3>2. n \in shown
      BY <2>2, <3>1
    <3>3. n \in 1..Len(mems)
      BY <3>2
    <3> HIDE DEF n
    <3> QED
      BY <3>3, <1>3
  <2> QED
    BY <2>1, <2>2
<1>5. MemsTake(header, mems) /\ Bounded(mems) /\ \E e \in Nat : Spans(mems, 0, e)
  BY <1>2 DEF FrameHolds, Tiled
<1> HIDE DEF n, mems
<1>6. /\ IsSeq(p) /\ Len(p) = n /\ \A i \in 1..n : p[i] = mems[i]
  BY <1>3, <1>4, SeqPrefix
<1>7. \A i \in 1..n : i \in 1..Len(mems)
  BY <1>3, <1>4
<1> HIDE DEF p
<1>8. MemsOK(p) /\ MemsTake(header, p)
  BY <1>2, <1>5, <1>6, <1>7 DEF MemsOK, MemsTake
<1>9. CASE n = 0
  <2>1. p = <<>>
    BY <1>6, <1>9, SeqLen
  <2>2. 0 \in Nat /\ 0 < Modulus
    BY ModulusAssumption
  <2> QED
    BY <1>1, <1>8, <2>1, <2>2, EmitHolds
<1>10. CASE n # 0
  <2>1. n \in 1..Len(mems) /\ n \in 1..n
    BY <1>3, <1>4, <1>10
  <2>2. Spans(p, 0, mems[n].off + mems[n].len)
    BY <1>3, <1>5, <2>1, SpansPrefix DEF p
  <2>3. PICK size : size = mems[n].off + mems[n].len
    OBVIOUS
  <2>4. size \in Nat /\ size < Modulus
    BY <1>2, <1>5, <2>1, <2>3 DEF MemsOK, Bounded
  <2>5. size = p[Len(p)].off + p[Len(p)].len
    BY <1>6, <2>1, <2>3
  <2>6. Spans(p, 0, size)
    BY <2>2, <2>3
  <2> QED
    BY <1>1, <1>8, <2>4, <2>5, <2>6, EmitHolds
<1> QED
  BY <1>9, <1>10

LEMMA UnionHolds ==
  ASSUME SizedInv, EmitUnion
  PROVE  LeavesHolding
<1> DEFINE m == Mem(0, this.size, ByteType, [what |-> "whole", nth |-> 0])
           p == Append(top.mems, m)
<1>1. stack # <<>> /\ Emit("union", p) /\ kind = "union" /\ this.size # None
  BY DEF EmitUnion, Running, Unfit
<1>2. /\ MemsOK(top.mems) /\ FrameHolds(header, top) /\ types[top.ty].kind = "union"
      /\ top.ty \in TypeIndex /\ InputOK
  <2>1. Len(stack) \in 1..Len(stack)
    BY <1>1, SeqLen DEF SizedInv, TypeInv, CallInv
  <2> QED
    BY <1>1, <2>1, TopOK DEF SizedInv, AssertInv, TypeInv, FrameOK, top, kind, this
<1>3. this.size \in Nat /\ this.size < Modulus
  <2>1. top.ty \in DOMAIN types /\ types[top.ty].size \in OptNat /\ types[top.ty].size # None
    BY <1>1, <1>2, TypeFields DEF InputOK, this
  <2>2. types[top.ty].size < Modulus
    BY <1>2, <2>1 DEF SizedInv, WellSized
  <2> QED
    BY <2>1, <2>2 DEF OptNat, this
<1>4. /\ IsSeq(top.mems) /\ MemsTake(header, top.mems) /\ Overlaid(top.mems, this.size)
  BY <1>2 DEF MemsOK, FrameHolds, this
<1>5. m.off = 0 /\ m.len = this.size /\ m.type = ByteType
  BY DEF Mem
<1> HIDE DEF m
<1>6. Len(top.mems) \in Nat
  BY <1>4, SeqLen
<1>7. /\ IsSeq(p) /\ Len(p) = Len(top.mems) + 1
      /\ \A i \in 1..Len(top.mems) : p[i] = top.mems[i]
      /\ p[Len(p)] = m
  BY <1>4, SeqAppend
<1>8. MemsOK(p)
  BY <1>2, <1>3, <1>5, MemsGrow
<1> HIDE DEF p
<1>9. \A i \in 1..Len(p) : i \in 1..Len(top.mems) \/ i = Len(p)
  BY <1>6, <1>7
<1>10. MemsTake(header, p)
  BY <1>4, <1>5, <1>7, <1>9, TakesBytes DEF MemsTake
<1>11. Overlaid(p, this.size)
  <2>1. m.off = 0 /\ m.len <= this.size
    BY <1>3, <1>5
  <2> QED
    BY <1>4, <1>7, <1>9, <2>1 DEF Overlaid
<1>12. Len(p) \in 1..Len(p)
  BY <1>6, <1>7
<1>13. \E k \in 1..Len(p) : p[k].len = this.size
  BY <1>5, <1>7, <1>12
<1>14. this.size = p[Len(p)].off + p[Len(p)].len
  BY <1>3, <1>5, <1>7
<1>15. PICK size \in Nat : size = this.size /\ size < Modulus
  BY <1>3
<1> QED
  BY <1>1, <1>8, <1>10, <1>11, <1>13, <1>14, <1>15, EmitHolds

\* The element of an array takes its stride, padded or not.
LEMMA PaddedHolds ==
  ASSUME SizedInv, NEW elem, Takes(header, elem.type, elem.packed),
         elem.packed \in Nat, elem.size \in Nat, elem.packed <= elem.size,
         NEW p, p = PaddedElement(printer, elem)
  PROVE  /\ HeaderHolds(p.printer.header)
         /\ Taken(header, p.printer.header)
         /\ Takes(p.printer.header, p.type, elem.size)
<1>1. CASE elem.size <= elem.packed
  <2>1. p.type = elem.type /\ p.printer.header = header
    BY <1>1 DEF PaddedElement, header
  <2>2. elem.size = elem.packed
    BY <1>1
  <2> QED
    BY <2>1, <2>2, TakenSame DEF SizedInv, AssertInv
<1>2. CASE ~(elem.size <= elem.packed)
  <2> DEFINE a == AllocIdent(printer.used, printer.uniq,
                             PlainName(elem.type.ident \o "_Padded"))
             data == Mem(0, elem.packed, elem.type, [what |-> "data", nth |-> 1])
             none == [what |-> "padding", nth |-> 0]
             pad == Mem(elem.packed, elem.size - elem.packed, ByteType, none)
             d == Def(a.ident, "padded", top.ty, <<data, pad>>, 1, elem.size)
  <2>1. p = [type |-> CType(a.ident, a.ident, TRUE),
             printer |-> [used |-> a.used, uniq |-> a.uniq,
                          header |-> Append(printer.header, d)]]
    BY <1>2 DEF PaddedElement
  <2>2. /\ p.type.name = d.ident /\ p.type.ptrs = 0 /\ p.type.def
        /\ p.printer.header = Append(header, d)
    BY <2>1 DEF Def, CType, header
  <2>3. d.form = "padded" /\ d.mems = <<data, pad>> /\ d.size = elem.size
    BY DEF Def
  <2>4. /\ data.off = 0 /\ data.len = elem.packed /\ data.type = elem.type
        /\ pad.off = elem.packed /\ pad.len = elem.size - elem.packed /\ pad.type = ByteType
    BY DEF Mem
  <2> HIDE DEF d, data, pad
  <2>5. Len(<<data, pad>>) = 2 /\ <<data, pad>>[1] = data /\ <<data, pad>>[2] = pad
    OBVIOUS
  <2>6. IsSeq(<<data, pad>>)
    <3>1. <<data, pad>> \in Seq({data, pad})
      OBVIOUS
    <3> QED
      BY <3>1 DEF IsSeq
  <2>7. \A k \in 1..2 : k = 1 \/ k = 2
    OBVIOUS
  <2> DEFINE mems == <<data, pad>>
  <2> HIDE DEF mems
  <2>8. /\ d.mems = mems /\ Len(mems) = 2 /\ mems[1] = data /\ mems[2] = pad /\ IsSeq(mems)
    BY <2>3, <2>5, <2>6 DEF mems
  <2>9. elem.size - elem.packed \in Nat /\ elem.packed + (elem.size - elem.packed) = elem.size
    OBVIOUS
  <2>10. MemsOK(mems)
    BY <2>4, <2>7, <2>8, <2>9 DEF MemsOK
  <2>11. MemsTake(header, mems)
    BY <2>4, <2>7, <2>8, TakesBytes DEF MemsTake
  <2>12. Spans(mems, 0, elem.size)
    <3>1. mems[1].off = 0
      BY <2>4, <2>8
    <3>2. mems[2].off + mems[2].len = elem.size
      BY <2>4, <2>8, <2>9
    <3>3. mems[1 + 1].off = mems[1].off + mems[1].len
      BY <2>4, <2>8
    <3>4. \A k \in 1..(2 - 1) : k = 1
      OBVIOUS
    <3> QED
      BY <2>8, <3>1, <3>2, <3>3, <3>4 DEF Spans
  <2>13. DefHolds(header, d)
    BY <2>3, <2>8, <2>10, <2>11, <2>12 DEF DefHolds
  <2> QED
    BY <2>2, <2>3, <2>13, AddHolds DEF SizedInv, AssertInv
<1> QED
  BY <1>1, <1>2

LEMMA ArrayHolds ==
  ASSUME SizedInv, DebugBuild, ProcessArray
  PROVE  LeavesHolding \/ (Stays /\ HoldsOn)
<1> DEFINE elem == processed[Child(top.ty, this.ty)]
           padded == PaddedElement(printer, elem)
           p == padded.printer
           n == ElementCount(elem)
           a == AllocIdent(p.used, p.uniq,
                           PlainName(elem.type.ident \o "_Array" \o ToString(n)))
           x == Mem(0, elem.size, padded.type, [what |-> "data", nth |-> 1])
           d == Def(a.ident, "array", top.ty, <<x>>, n, elem.size * n)
           info == Info(CType(a.ident, a.ident, TRUE), elem.size * n, elem.size * n)
<1>1. /\ stack # <<>> /\ Child(top.ty, this.ty) \in DOMAIN processed
      /\ Fits(elem, None)
  BY DEF ProcessArray, Running, Got
<1>2. CASE elem = NoInfo
  <2>1. ReturnNothing /\ header' = header
    BY <1>2 DEF ProcessArray, header
  <2> QED
    BY <1>1, <2>1, NothingHolds
<1>3. CASE elem # NoInfo
  <2>1. /\ Takes(header, elem.type, elem.packed)
        /\ elem.packed \in Nat /\ elem.size \in Nat /\ elem.packed <= elem.size
    BY <1>1, <1>3 DEF SizedInv, AssertInv, Known, TypeInv, InfoOK, Fits
  <2>2. /\ HeaderHolds(p.header)
        /\ Taken(header, p.header)
        /\ Takes(p.header, padded.type, elem.size)
    <3> HIDE DEF elem
    <3> QED
      BY <2>1, PaddedHolds
  <2>3. CASE ArrayDividesByZero
    <3>1. printer' = p /\ UNCHANGED <<processed, stack>>
      BY <1>3, <2>3 DEF ProcessArray
    <3> QED
      BY <3>1, <2>2 DEF Stays, HoldsOn, header
  <2>4. CASE ~ArrayDividesByZero /\ n = None
    <3>1. printer' = p /\ ReturnNothing
      BY <1>3, <2>4 DEF ProcessArray
    <3> QED
      BY <1>1, <3>1, <2>2 DEF LeavesHolding, Leaves, HoldsOn, header
  <2>5. CASE ~ArrayDividesByZero /\ n # None
    <3>1. /\ Return(info)
          /\ printer' = [used |-> a.used, uniq |-> a.uniq, header |-> Append(p.header, d)]
      BY <1>3, <2>5 DEF ProcessArray
    <3>2. n \in Nat
      <4>1. Count(types, top.ty) \in OptNat
        BY <1>1, TopOK, CountOK DEF SizedInv, TypeInv, FrameOK
      <4> QED
        BY <2>5, <4>1 DEF ElementCount, OptNat
    <3>3. header' = Append(p.header, d)
      BY <3>1 DEF header
    <3>4. d.form = "array" /\ d.mems = <<x>> /\ d.count = n /\ d.size = elem.size * n
      BY DEF Def
    <3>5. /\ info.type.name = d.ident /\ info.type.ptrs = 0 /\ info.type.def
          /\ info.packed = d.size
      BY DEF Def, Info, CType
    <3>6. x.off = 0 /\ x.len = elem.size /\ x.type = padded.type
      BY DEF Mem
    <3> HIDE DEF d, x, info, p, padded, elem, n
    <3>7. MemsOK(<<x>>) /\ MemsTake(p.header, <<x>>) /\ Len(<<x>>) = 1 /\ <<x>>[1] = x
      BY <2>1, <2>2, <3>6, MemsOne, OneMember, SeqOne
    <3>8. d.size = d.count * d.mems[1].len
      <4>1. elem.size * n = n * elem.size
        BY <2>1, <3>2
      <4> QED
        BY <3>4, <3>6, <3>7, <4>1
    <3>9. DefHolds(p.header, d)
      BY <3>4, <3>7, <3>8 DEF DefHolds
    <3>10. /\ HeaderHolds(header') /\ Taken(p.header, header')
           /\ Takes(header', info.type, info.packed)
      BY <2>2, <3>3, <3>5, <3>9, AddHolds
    <3>11. HoldsOn
      BY <2>2, <3>10, TakenTwice DEF HoldsOn
    <3> QED
      BY <1>1, <3>1, <3>10, <3>11 DEF LeavesHolding, Leaves
  <2> QED
    BY <2>3, <2>4, <2>5
<1> QED
  BY <1>2, <1>3

-----------------------------------------------------------------------------
LEMMA AssertStep ==
  ASSUME SizedInv, DebugBuild, [Next]_vars
  PROVE  SizedInv'
<1>1. TypeInv /\ TypeInv'
  BY TypeStep DEF SizedInv
<1>2. CASE StartDest \/ Call
  <2>1. CASE StartDest
    <3>1. Head(dest) \in TypeIndex /\ None \in OptNat
      BY <1>1, <2>1, HeadTailProperties DEF StartDest, TypeInv, InputOK, OptNat
    <3>2. Enter(Head(dest), None) /\ types' = types /\ printer' = printer
      BY <2>1 DEF StartDest
    <3> QED
      BY <1>1, <3>1, <3>2, EntersHold
  <2>2. CASE Call
    <3>1. PICK w \in Wanted : Enter(w.ty, w.max)
      BY <2>2 DEF Call
    <3>2. w.ty \in TypeIndex /\ w.max \in OptNat
      BY <1>1, <2>2, WantedOK DEF Call, Running
    <3>3. types' = types /\ printer' = printer
      BY <2>2 DEF Call
    <3> QED
      BY <1>1, <3>1, <3>2, <3>3, EntersHold
  <2> QED
    BY <1>2, <2>1, <2>2
<1>3. CASE ProcessOpaque \/ ProcessBase \/ Refuse \/ UnknownDeclaration
             \/ ProcessLink \/ ProcessPointer
  <2>1. types' = types
    BY <1>3 DEF ProcessOpaque, ProcessBase, Refuse, UnknownDeclaration, ProcessLink,
                ProcessPointer
  <2> QED
    BY <1>1, <1>3, <2>1, SilentHolds, LeavingHolds
<1>4. CASE ProcessEnum \/ EmitStruct \/ EmitUnion
  <2>1. types' = types
    BY <1>4 DEF ProcessEnum, EmitStruct, EmitUnion
  <2> QED
    BY <1>1, <1>4, <2>1, EnumHolds, StructHolds, UnionHolds, LeavingHolds
<1>5. CASE ProcessArray
  <2>1. types' = types
    BY <1>5 DEF ProcessArray
  <2> QED
    BY <1>1, <1>5, <2>1, ArrayHolds, LeavingHolds, StayingHolds
<1>6. CASE SkipEmpty
  BY <1>1, <1>6, SkipHolds
<1>7. CASE TakeBytes
  <2>1. /\ stack # <<>> /\ top.at # 0 /\ ~Underflows /\ Current.what # "refused"
        /\ Advance(<<Mem(Current.off, Space, ByteType, From)>>)
    BY <1>7 DEF TakeBytes, InLoop, Running
  <2> QED
    BY <1>1, <2>1, TakeBytesHolds
<1>8. CASE TakeMember
  BY <1>1, <1>8, TakeMemberHolds
<1>9. CASE \/ DestAlreadyProcessed \/ AssertionFails \/ MemberUnderflows
           \/ Finish \/ WriteFails \/ Terminated \/ UNCHANGED vars
  <2>1. Stays /\ types' = types /\ printer' = printer
    BY <1>9 DEF DestAlreadyProcessed, AssertionFails, MemberUnderflows, Panic, Finish,
                WriteFails, Terminated, vars, Stays
  <2>2. header' = header
    BY <2>1 DEF header
  <2>3. HoldsOn
    BY <2>2, TakenSame DEF HoldsOn, SizedInv, AssertInv
  <2> QED
    BY <1>1, <2>1, <2>3, StayingHolds
<1> QED
  BY <1>2, <1>3, <1>4, <1>5, <1>6, <1>7, <1>8, <1>9 DEF Next, Step

LEMMA AssertInit ==
  ASSUME Init, \A p \in Programs : WellSized(p.types)
  PROVE  SizedInv
<1>1. TypeInv
  BY TypeInit
<1>2. WellSized(types)
  BY DEF Init
<1>3. header = <<>> /\ stack = <<>> /\ DOMAIN processed = {}
  BY DEF Init, header
<1>4. AssertInv
  BY <1>3, SeqEmpty DEF AssertInv, HeaderHolds, Known
<1> QED
  BY <1>1, <1>2, <1>4 DEF SizedInv

\* What the C compiler takes for the size of a type is what was counted for it.
LEMMA SizeofTakes ==
  ASSUME SizedInv, UniqueIdents, NEW c, NEW n, Takes(header, c, n)
  PROVE  CSizeof(c, n) = n
<1>1. CASE c.ptrs > 0
  BY <1>1 DEF Takes, CSizeof
<1>2. CASE ~(c.ptrs > 0) /\ c.def
  <2>1. PICK j \in 1..Len(header) : header[j].ident = c.name /\ header[j].size = n
    BY <1>2 DEF Takes
  <2>2. DOMAIN header = 1..Len(header)
    BY SeqLen DEF SizedInv, TypeInv, HeaderOK, header
  <2>3. ToSet(header) = {header[i] : i \in 1..Len(header)}
    BY <2>2 DEF ToSet
  <2>4. header[j] \in ToSet(header)
    BY <2>3
  <2>5. PICK d : d = Defined(c.name)
    OBVIOUS
  <2>6. d = CHOOSE e \in ToSet(header) : e.ident = c.name
    BY <2>5 DEF Defined, header
  <2>7. d \in ToSet(header) /\ d.ident = c.name
    BY <2>1, <2>4, <2>6
  <2>8. PICK i \in 1..Len(header) : d = header[i]
    BY <2>3, <2>7
  <2>9. i = j
    BY <2>1, <2>7, <2>8 DEF UniqueIdents, header
  <2>10. d.size = n
    BY <2>1, <2>8, <2>9
  <2> QED
    BY <1>2, <2>5, <2>10 DEF CSizeof
<1>3. CASE ~(c.ptrs > 0) /\ ~c.def /\ c = ByteType
  BY <1>3 DEF CSizeof
<1>4. CASE ~(c.ptrs > 0) /\ ~c.def /\ c # ByteType
  <2> DEFINE Named(t) == types[t].kind = "base" /\ types[t].path[1].text = c.name
  <2>1. PICK t \in TypeIndex : Named(t) /\ types[t].size = n
    BY <1>4 DEF Takes
  <2>2. PICK u : u = CHOOSE v \in TypeIndex : Named(v)
    OBVIOUS
  <2>3. u \in TypeIndex /\ Named(u)
    BY <2>1, <2>2
  <2>4. t \in DOMAIN types /\ u \in DOMAIN types
    BY <2>3 DEF SizedInv, TypeInv, InputOK
  <2>5. types[u].size = types[t].size
    BY <2>1, <2>3, <2>4 DEF SizedInv, WellSized
  <2>6. CSizeof(c, n) = types[u].size
    BY <1>4, <2>2 DEF CSizeof
  <2> QED
    BY <2>1, <2>5, <2>6
<1> QED
  BY <1>1, <1>2, <1>3, <1>4

LEMMA AssertsFollow ==
  ASSUME SizedInv, UniqueIdents
  PROVE  AssertsHold
<1>1. DOMAIN header = 1..Len(header)
  BY SeqLen DEF SizedInv, TypeInv, HeaderOK, header
<1>2. ASSUME NEW d \in ToSet(header)
      PROVE  LET size(k) == CSizeof(d.mems[k].type, d.mems[k].len)
                 n == Len(d.mems)
             IN  /\ \A k \in 1..n : d.mems[k].len = size(k)
                 /\ d.form \in {"struct", "padded"} =>
                      /\ d.mems[1].off = 0
                      /\ \A k \in 1..(n - 1) : d.mems[k + 1].off = d.mems[k].off + size(k)
                      /\ d.size = d.mems[n].off + size(n)
                 /\ d.form = "union" =>
                      /\ \A k \in 1..n : d.mems[k].off = 0 /\ size(k) <= d.size
                      /\ \E k \in 1..n : size(k) = d.size
                 /\ d.form = "array" => d.size = d.count * size(1)
  <2> DEFINE size(k) == CSizeof(d.mems[k].type, d.mems[k].len)
             n == Len(d.mems)
  <2>1. DefHolds(header, d)
    BY <1>1 DEF SizedInv, AssertInv, HeaderHolds, ToSet
  <2>2. n \in Nat
    BY <2>1, SeqLen DEF DefHolds, MemsOK
  <2>3. \A k \in 1..n : size(k) = d.mems[k].len
    BY <2>1, SizeofTakes DEF DefHolds, MemsTake
  <2>4. d.form \in {"struct", "padded"} =>
          /\ n # 0 /\ d.mems[1].off = 0 /\ d.mems[n].off + d.mems[n].len = d.size
          /\ \A k \in 1..(n - 1) : d.mems[k + 1].off = d.mems[k].off + d.mems[k].len
    BY <2>1 DEF DefHolds, Spans
  <2>5. d.form = "union" => /\ \A k \in 1..n : d.mems[k].off = 0 /\ d.mems[k].len <= d.size
                            /\ \E k \in 1..n : d.mems[k].len = d.size
    BY <2>1 DEF DefHolds, Overlaid
  <2>6. d.form = "array" => n = 1 /\ d.size = d.count * d.mems[1].len
    BY <2>1 DEF DefHolds
  <2> HIDE DEF size, n
  <2>7. \A k \in 1..(n - 1) : k \in 1..n
    BY <2>2
  <2>8. n # 0 => n \in 1..n
    BY <2>2
  <2>9. d.form \in {"struct", "padded"} =>
          /\ d.mems[1].off = 0
          /\ \A k \in 1..(n - 1) : d.mems[k + 1].off = d.mems[k].off + size(k)
          /\ d.size = d.mems[n].off + size(n)
    BY <2>3, <2>4, <2>7, <2>8
  <2>10. d.form = "union" =>
           /\ \A k \in 1..n : d.mems[k].off = 0 /\ size(k) <= d.size
           /\ \E k \in 1..n : size(k) = d.size
    BY <2>3, <2>5
  <2>11. d.form = "array" => d.size = d.count * size(1)
    BY <2>3, <2>6, 1 \in 1..1
  <2> QED
    BY <2>3, <2>9, <2>10, <2>11 DEF size, n
<1> QED
  BY <1>2 DEF AssertsHold, header

\* Every assertion of the generated .c file holds in a debug build, whatever the types
\* refer to, as long as no two definitions share an identifier: each member starts
\* where the one before it ends, and each sizeof is what the C compiler computes.
THEOREM AssertionsHold ==
  ASSUME DebugBuild, \A p \in Programs : WellSized(p.types)
  PROVE  Spec => [](UniqueIdents => AssertsHold)
<1>1. Init => SizedInv
  BY AssertInit
<1>2. SizedInv /\ [Next]_vars => SizedInv'
  BY AssertStep
<1>3. SizedInv => (UniqueIdents => AssertsHold)
  BY AssertsFollow
<1> QED
  BY <1>1, <1>2, <1>3, PTL DEF Spec
=============================================================================
