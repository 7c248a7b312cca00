----------------------------- MODULE Translator -----------------------------
(***************************************************************************)
(* The translation of main/src/main.rs: main()'s loop over the destination *)
(* types, and process_type with the handlers it calls.  The recursion of   *)
(* get_type_info and process_type is an explicit call stack; one step is   *)
(* one call, one turn of a loop over members, or the end of one handler.   *)
(*                                                                         *)
(* The program's input is fixed by the initial state: `types' is what the  *)
(* files hold, `typeDb' the index of named types, `dest' the destination   *)
(* types still to translate.                                               *)
(***************************************************************************)
EXTENDS Idents

CONSTANTS Programs,    \* the inputs: records [types, typeDb, dest]
          DebugBuild,  \* TRUE if debug_assert! and overflow checks are compiled
          Modulus,     \* u64 arithmetic wraps here in a release build
          PointerSize, \* sizeof a pointer on the machine of the inputs
          NoInfo       \* the None of Option<Rc<TypeInfo>>

ASSUME DebugBuildAssumption == DebugBuild \in BOOLEAN
ASSUME ModulusAssumption == Modulus \in Nat \ {0}
ASSUME ProgramsAssumption ==
  \A p \in Programs :
     /\ p.types \in [TypeIndex -> Type]
     /\ p.types = Measured(p.types)
     /\ DOMAIN p.typeDb \subseteq Seq(Component)
     /\ \A n \in DOMAIN p.typeDb : p.typeDb[n] \in TypeIndex
     /\ p.dest \in Seq(TypeIndex)

VARIABLES types, typeDb, dest,
          processed,   \* ProcessState, a function on the types seen so far
          stack,       \* the active calls of process_type, the innermost last
          printer,     \* Printer: the definitions written and used_idents
          status       \* "running", "done", "panicked" or "failed"

vars == <<types, typeDb, dest, processed, stack, printer, status>>

\* A C type as TypeInfo::name spells it: a name, the identifier TypeInfo::ident
\* takes from it, its stars, and whether the header must define the name.
CType(name, ident, def) == [name |-> name, ident |-> ident, ptrs |-> 0, def |-> def]
PointerTo(c) == [name |-> c.name, ident |-> c.ident, ptrs |-> c.ptrs + 1, def |-> c.def]
VoidType == CType("void", "void", FALSE)
ByteType == CType("__u8", "__u8", FALSE)

Info(type, packed, size) == [type |-> type, packed |-> packed, size |-> size]

\* A definition in the header: `owner' is the type it was printed for, `mems'
\* are the members whose offset and length the generated asserts check, `size'
\* is the sizeof they check.
Def(ident, form, owner, mems, count, size) ==
  [ident |-> ident, form |-> form, owner |-> owner,
   mems |-> mems, count |-> count, size |-> size]

\* A member: bytes[len] when `type' is ByteType.  `from' is the layout entry.
Mem(off, len, type, from) == [off |-> off, len |-> len, type |-> type, from |-> from]

-----------------------------------------------------------------------------
(* The loop over a struct's layout, in process_struct_type.                *)
(***************************************************************************)

\* Trailing padding is left out; layout() never ends in two paddings.
HasTail(t) ==
  LET l == types[t].layout IN l # <<>> /\ l[Len(l)].what = "padding"
BodyLength(t) == Len(types[t].layout) - (IF HasTail(t) THEN 1 ELSE 0)
BodySize(t) ==
  Bit2Byte(types[t].size * BitsPerByte
             - IF HasTail(t) THEN types[t].layout[Len(types[t].layout)].size ELSE 0)

\* What the struct may occupy: its size without tail padding, or less.
Room(t, max) == IF max = None \/ max > BodySize(t) THEN BodySize(t) ELSE max

\* find_next_idx: the first item at a byte boundary from `start' on, 0 if none.
Aligned(t, start) ==
  {k \in start..BodyLength(t) : types[t].layout[k].off % BitsPerByte = 0}
FindNext(t, start) ==
  IF Aligned(t, start) = {} THEN 0
  ELSE CHOOSE k \in Aligned(t, start) : \A j \in Aligned(t, start) : k <= j

ByteOffset(t, k) == types[t].layout[k].off \div BitsPerByte

\* member_size: from the item at k to the next aligned one, or to the end of the
\* room, which may lie before it.
SpaceAt(t, max, k) ==
  LET n == FindNext(t, k + 1)
  IN  (IF n = 0 THEN Room(t, max) ELSE ByteOffset(t, n)) - ByteOffset(t, k)

\* Mutant: an unknown size is taken for a small one.
TooLarge(size, max) == max # None /\ size > max

\* ty_size > ty_max_size, or the size is unknown.
Unfit(size, max) == size = None \/ (max # None /\ size > max)

\* The first turn of the loop over the members, 0 if there is none.
FirstTurn(t, max) ==
  LET ty == types[t]
  IN  CASE ty.kind = "struct" /\ ~ty.decl /\ ty.size # None -> FindNext(t, 1)
        [] ty.kind = "union" /\ ~ty.decl /\ ~Unfit(ty.size, max) /\ ty.members # <<>> -> 1
        [] OTHER -> 0

Frame(t, max) == [ty |-> t, max |-> max, at |-> FirstTurn(t, max), mems |-> <<>>]

-----------------------------------------------------------------------------
top  == stack[Len(stack)]
this == types[top.ty]
kind == this.kind

\* Mutant: the search for the next item starts one item late.
NextTurnSkips ==
  IF kind = "struct" THEN FindNext(top.ty, top.at + 2)
  ELSE IF top.at < Len(this.members) THEN top.at + 1 ELSE 0

\* The innermost loop: its next turn, and the member it is at.  In a union every
\* member must start at 0 and have a size, or the union is refused.
NextTurn ==
  IF kind = "struct" THEN FindNext(top.ty, top.at + 1)
  ELSE IF top.at < Len(this.members) THEN top.at + 1 ELSE 0

Current ==
  IF kind = "struct"
  THEN LET l == this.layout[top.at]
       IN  [what |-> IF IsBitfield(l) THEN "bitfield" ELSE l.what, nth |-> l.nth,
            ty |-> l.ty, off |-> ByteOffset(top.ty, top.at),
            len |-> SpaceAt(top.ty, top.max, top.at)]
  ELSE LET m == this.members[top.at]
           size == BitSize(types, top.ty, m)
       IN  [what |-> IF m.off # 0 \/ size = None THEN "refused"
                     ELSE IF size % BitsPerByte # 0 THEN "bitfield" ELSE "member",
            nth |-> top.at, ty |-> m.ty, off |-> 0,
            len |-> IF size = None THEN 0 ELSE Bit2Byte(size)]

\* An empty item, which is skipped unless it is the last.
Skipped == kind = "struct" /\ Current.len = 0 /\ NextTurn # 0
\* `ty_max_size - member_off' overflows, and a debug build panics.
Underflows == DebugBuild /\ Current.len < 0
\* The space of the current member; a release build wraps around.
Space == Current.len % Modulus

\* The type is a symbolic link: handle_sym_link copies what its target has.
IsAlias(t) == types[t].kind \in {"def", "const"}
IsDeclaration(t) == types[t].kind \in {"struct", "union", "enum"} /\ types[t].decl
\* Mutant: a declaration is only looked up in the input that holds it.
TargetsInFile(t) ==
  IF IsAlias(t) THEN {Child(t, types[t].ty)}
  ELSE IF IsDeclaration(t) /\ types[t].path \in DOMAIN typeDb
       THEN {u \in {typeDb[types[t].path]} : u[1] = t[1]} ELSE {}

Targets(t) ==
  IF IsAlias(t) THEN {Child(t, types[t].ty)}
  ELSE IF IsDeclaration(t) /\ types[t].path \in DOMAIN typeDb
       THEN {typeDb[types[t].path]} ELSE {}

\* The get_type_info call that the innermost handler makes next, if any.
Wanted ==
  LET want(off, max) == {[ty |-> Child(top.ty, off), max |-> max]}
  IN  CASE IsAlias(top.ty) \/ IsDeclaration(top.ty) ->
             {[ty |-> u, max |-> top.max] : u \in Targets(top.ty)}
        [] kind = "pointer" -> IF Unfit(this.size, top.max) THEN {} ELSE want(this.ty, None)
        [] kind = "array"   -> want(this.ty, None)
        [] OTHER -> IF /\ top.at # 0 /\ ~Skipped /\ ~Underflows
                       /\ Current.what \in {"member", "inherit"}
                    THEN want(Current.ty, Space) ELSE {}

\* The assertions of get_type_info on what it returns.
Fits(info, max) ==
  info # NoInfo => /\ DebugBuild => info.packed <= info.size
                   /\ max # None => info.packed <= max

Running == status = "running" /\ stack # <<>>

Callers == SubSeq(stack, 1, Len(stack) - 1)
Return(info) == stack' = Callers /\ processed' = [processed EXCEPT ![top.ty] = info]
ReturnNothing == stack' = Callers /\ UNCHANGED processed

\* Mutant: only a destination leaves its placeholder in `processed'.
EnterUnmarked(t, max) ==
  /\ processed' = IF stack = <<>>
                  THEN [u \in DOMAIN processed \union {t} |->
                          IF u = t THEN NoInfo ELSE processed[u]]
                  ELSE processed
  /\ stack' = Append(stack, Frame(t, max))

Enter(t, max) ==
  /\ processed' = [u \in DOMAIN processed \union {t} |->
                     IF u = t THEN NoInfo ELSE processed[u]]
  /\ stack' = Append(stack, Frame(t, max))

Panic == /\ status' = "panicked"
         /\ UNCHANGED <<types, typeDb, dest, processed, stack, printer>>

-----------------------------------------------------------------------------
(***************************************************************************)
(* main() and get_type_info: entering process_type.                        *)
(***************************************************************************)

\* Mutant: the debug build does not stop at a destination processed before.
StartDestAgain ==
  /\ status = "running" /\ stack = <<>> /\ dest # <<>>
  /\ Enter(Head(dest), None)
  /\ dest' = Tail(dest)
  /\ UNCHANGED <<types, typeDb, printer, status>>

\* The loop over dest calls process_type whether or not the type was processed.
StartDest ==
  /\ status = "running" /\ stack = <<>> /\ dest # <<>>
  /\ ~(DebugBuild /\ Head(dest) \in DOMAIN processed)
  /\ Enter(Head(dest), None)
  /\ dest' = Tail(dest)
  /\ UNCHANGED <<types, typeDb, printer, status>>

\* debug_assert!(!processed.contains_key(&tyidx))
DestAlreadyProcessed ==
  /\ status = "running" /\ stack = <<>> /\ dest # <<>>
  /\ DebugBuild /\ Head(dest) \in DOMAIN processed
  /\ Panic

\* get_type_info of a type not seen before.
Call ==
  /\ Running
  /\ \E w \in Wanted : w.ty \notin DOMAIN processed /\ Enter(w.ty, w.max)
  /\ UNCHANGED <<types, typeDb, dest, printer, status>>

\* get_type_info finds that the type takes more bytes than it may.
AssertionFails ==
  /\ Running
  /\ \E w \in Wanted : w.ty \in DOMAIN processed /\ ~Fits(processed[w.ty], w.max)
  /\ Panic

\* Mutant: a placeholder is waited for, as if another call would fill it in.
GotFinished(t, max, info) ==
  /\ [ty |-> t, max |-> max] \in Wanted
  /\ t \in DOMAIN processed
  /\ info = processed[t] /\ info # NoInfo
  /\ Fits(info, max)

\* get_type_info of t returns `info' to the innermost handler.
Got(t, max, info) ==
  /\ [ty |-> t, max |-> max] \in Wanted
  /\ t \in DOMAIN processed
  /\ info = processed[t]
  /\ Fits(info, max)

-----------------------------------------------------------------------------
(***************************************************************************)
(* The handlers that need no other type.                                   *)
(***************************************************************************)
ProcessOpaque ==
  /\ Running /\ kind = "opaque"
  /\ ReturnNothing
  /\ UNCHANGED <<types, typeDb, dest, printer, status>>

ProcessBase ==
  /\ Running /\ kind = "base"
  /\ LET c == this.path[Len(this.path)]
     IN  IF c.text = "" \/ this.size = None THEN ReturnNothing
         ELSE Return(Info(CType(c.text, c.ident, FALSE), this.size, this.size))
  /\ UNCHANGED <<types, typeDb, dest, printer, status>>

ProcessEnum ==
  /\ Running /\ kind = "enum" /\ ~this.decl
  /\ LET size == this.bytes
         a == AllocIdent(printer.used, printer.uniq, this.path)
     IN  IF Unfit(size, top.max) \/ size \notin {1, 2, 4, 8}
         THEN ReturnNothing /\ UNCHANGED printer
         ELSE /\ Return(Info(CType(a.ident, a.ident, TRUE), size, size))
              /\ printer' = [used |-> a.used, uniq |-> a.uniq,
                             header |-> Append(printer.header,
                               Def(a.ident, "enum", top.ty, <<>>, 1, size))]
  /\ UNCHANGED <<types, typeDb, dest, status>>

\* A pointer, struct or union that cannot be translated: no size, or too large.
Refuse ==
  /\ Running
  /\ \/ kind = "pointer" /\ Unfit(this.size, top.max)
     \/ kind = "struct" /\ ~this.decl /\ this.size = None
     \/ kind = "union" /\ ~this.decl /\ Unfit(this.size, top.max)
     \/ kind = "union" /\ top.at # 0 /\ Current.what = "refused"
  /\ ReturnNothing
  /\ UNCHANGED <<types, typeDb, dest, printer, status>>

\* A declaration no input defines.
UnknownDeclaration ==
  /\ Running /\ IsDeclaration(top.ty) /\ Targets(top.ty) = {}
  /\ ReturnNothing
  /\ UNCHANGED <<types, typeDb, dest, printer, status>>

(***************************************************************************)
(* The handlers that need one other type.                                  *)
(***************************************************************************)
ProcessLink ==
  /\ Running /\ (IsAlias(top.ty) \/ IsDeclaration(top.ty))
  /\ \E u \in Targets(top.ty) : /\ Got(u, top.max, processed[u])
                                /\ Return(processed[u])
  /\ UNCHANGED <<types, typeDb, dest, printer, status>>

ProcessPointer ==
  /\ Running /\ kind = "pointer"
  /\ LET u == Child(top.ty, this.ty)
         pointee == IF processed[u] = NoInfo THEN VoidType ELSE processed[u].type
     IN  /\ Got(u, None, processed[u])
         /\ Return(Info(PointerTo(pointee), this.size, this.size))
  /\ UNCHANGED <<types, typeDb, dest, printer, status>>

\* Mutant: the elements are never padded to their stride.
UnpaddedElement(p, elem) == [type |-> elem.type, printer |-> p]

\* The padded element of an array whose elements are shorter than their stride.
PaddedElement(p, elem) ==
  IF elem.size <= elem.packed THEN [type |-> elem.type, printer |-> p]
  ELSE LET a == AllocIdent(p.used, p.uniq, PlainName(elem.type.ident \o "_Padded"))
           pad == Mem(elem.packed, elem.size - elem.packed, ByteType,
                      [what |-> "padding", nth |-> 0])
       IN  [type |-> CType(a.ident, a.ident, TRUE),
            printer |-> [used |-> a.used, uniq |-> a.uniq,
              header |-> Append(p.header,
                Def(a.ident, "padded", top.ty,
                    <<Mem(0, elem.packed, elem.type, [what |-> "data", nth |-> 1]), pad>>,
                    1, elem.size))]]

\* The number of elements to print, None if the array is refused.
ElementCount(elem) ==
  LET size == this.bytes
      count == Count(types, top.ty)
  IN  IF top.max = 0 THEN 0
      ELSE IF Unfit(size, top.max) \/ count = None THEN None
      ELSE IF size % count = 0 /\ elem.size = size \div count THEN count ELSE None

\* `array_byte_size % ele_count' panics in every build when the count is zero, and
\* so does count() when it divides by the size of the elements.
ArrayDividesByZero ==
  /\ top.max # 0
  /\ ~Unfit(this.bytes, top.max)
  /\ Count(types, top.ty) = 0 \/ CountDividesByZero(types, top.ty)

ProcessArray ==
  /\ Running /\ kind = "array"
  /\ LET u == Child(top.ty, this.ty)
         elem == processed[u]
         padded == PaddedElement(printer, elem)
         p == padded.printer
         n == ElementCount(elem)
         a == AllocIdent(p.used, p.uniq,
                         PlainName(elem.type.ident \o "_Array" \o ToString(n)))
     IN  /\ Got(u, None, processed[u])
         /\ IF elem = NoInfo THEN ReturnNothing /\ UNCHANGED <<printer, status>>
            ELSE IF ArrayDividesByZero
            THEN /\ status' = "panicked" /\ printer' = p
                 /\ UNCHANGED <<processed, stack>>
            ELSE IF n = None THEN ReturnNothing /\ printer' = p /\ UNCHANGED status
            ELSE /\ Return(Info(CType(a.ident, a.ident, TRUE), elem.size * n, elem.size * n))
                 /\ printer' = [used |-> a.used, uniq |-> a.uniq,
                      header |-> Append(p.header,
                        Def(a.ident, "array", top.ty,
                            <<Mem(0, elem.size, padded.type, [what |-> "data", nth |-> 1])>>,
                            n, elem.size * n))]
                 /\ UNCHANGED status
  /\ UNCHANGED <<types, typeDb, dest>>

-----------------------------------------------------------------------------
(***************************************************************************)
(* The loops over members, and what is printed after them.                 *)
(***************************************************************************)
InLoop == Running /\ top.at # 0
From == [what |-> Current.what, nth |-> Current.nth]

Advance(mems) ==
  /\ stack' = Append(Callers, [ty |-> top.ty, max |-> top.max, at |-> NextTurn,
                               mems |-> top.mems \o mems])
  /\ UNCHANGED <<types, typeDb, dest, processed, printer, status>>

MemberUnderflows == InLoop /\ Underflows /\ Panic

SkipEmpty == InLoop /\ Skipped /\ Advance(<<>>)

\* A bitfield, a padding or a variant part: so many bytes.
TakeBytes ==
  /\ InLoop /\ ~Skipped /\ ~Underflows
  /\ Current.what \in {"bitfield", "padding", "variant"}
  /\ Advance(<<Mem(Current.off, Space, ByteType, From)>>)

\* A member or an inherited type: its C type, and in a struct the bytes up to the
\* next item; so many bytes if nothing is known of the type.
TakeMember ==
  /\ InLoop /\ ~Skipped /\ ~Underflows
  /\ LET u == Child(top.ty, Current.ty)
         info == processed[u]
         rest == IF kind = "struct" /\ info.packed < Space
                 THEN <<Mem(Current.off + info.packed, Space - info.packed, ByteType,
                            [what |-> "padding", nth |-> 0])>>
                 ELSE <<>>
     IN  /\ Got(u, Space, processed[u])
         /\ Advance(IF info = NoInfo THEN <<Mem(Current.off, Space, ByteType, From)>>
                    ELSE <<Mem(Current.off, info.packed, info.type, From)>> \o rest)

\* Mutant: a definition is put above those it was printed after.
EmitAbove(form, mems) ==
  LET a == AllocIdent(printer.used, printer.uniq, this.path)
      last == mems[Len(mems)]
      packed == (last.off + last.len) % Modulus
      def == Def(a.ident, form, top.ty, mems, 1, packed)
  IN  IF mems = <<>>
      THEN /\ ReturnNothing
           /\ printer' = [used |-> a.used, uniq |-> a.uniq, header |-> printer.header]
      ELSE /\ Return(Info(CType(a.ident, a.ident, TRUE), packed, this.size))
           /\ printer' = [used |-> a.used, uniq |-> a.uniq,
                          header |-> <<def>> \o printer.header]

\* Mutant: the size of the debug info is taken for the packed size.
EmitUnpacked(form, mems) ==
  LET a == AllocIdent(printer.used, printer.uniq, this.path)
  IN  IF mems = <<>>
      THEN /\ ReturnNothing
           /\ printer' = [used |-> a.used, uniq |-> a.uniq, header |-> printer.header]
      ELSE /\ Return(Info(CType(a.ident, a.ident, TRUE), this.size, this.size))
           /\ printer' = [used |-> a.used, uniq |-> a.uniq,
                          header |-> Append(printer.header,
                            Def(a.ident, form, top.ty, mems, 1, this.size))]

\* process_members: nothing at all is printed for a type without members, but its
\* identifier is used up all the same.
Emit(form, mems) ==
  LET a == AllocIdent(printer.used, printer.uniq, this.path)
      last == mems[Len(mems)]
      packed == (last.off + last.len) % Modulus
      def == Def(a.ident, form, top.ty, mems, 1, packed)
  IN  IF mems = <<>>
      THEN /\ ReturnNothing
           /\ printer' = [used |-> a.used, uniq |-> a.uniq, header |-> printer.header]
      ELSE /\ Return(Info(CType(a.ident, a.ident, TRUE), packed, this.size))
           /\ printer' = [used |-> a.used, uniq |-> a.uniq,
                          header |-> Append(printer.header, def)]

EmitStruct ==
  /\ Running /\ kind = "struct" /\ ~this.decl /\ this.size # None
  /\ top.at = 0
  /\ LET shown == {k \in 1..Len(top.mems) : top.mems[k].from.what # "padding"}
         n == IF shown = {} THEN 0 ELSE CHOOSE k \in shown : \A j \in shown : j <= k
     IN  Emit("struct", SubSeq(top.mems, 1, n))
  /\ UNCHANGED <<types, typeDb, dest, status>>

EmitUnion ==
  /\ Running /\ kind = "union" /\ ~this.decl /\ ~Unfit(this.size, top.max)
  /\ top.at = 0
  /\ Emit("union", Append(top.mems,
       Mem(0, this.size, ByteType, [what |-> "whole", nth |-> 0])))
  /\ UNCHANGED <<types, typeDb, dest, status>>

-----------------------------------------------------------------------------
\* A write to the .h or the .c file fails; `?' unwinds every call.
WriteFails ==
  /\ status = "running"
  /\ status' = "failed"
  /\ UNCHANGED <<types, typeDb, dest, processed, stack, printer>>

Finish ==
  /\ status = "running" /\ stack = <<>> /\ dest = <<>>
  /\ status' = "done"
  /\ UNCHANGED <<types, typeDb, dest, processed, stack, printer>>

Terminated == status # "running" /\ UNCHANGED vars

Init ==
  /\ \E p \in Programs : types = p.types /\ typeDb = p.typeDb /\ dest = p.dest
  /\ processed = <<>>
  /\ stack = <<>>
  /\ printer = [header |-> <<>>, used |-> <<>>, uniq |-> 0]
  /\ status = "running"

Step ==
  \/ StartDest \/ DestAlreadyProcessed \/ Call \/ AssertionFails
  \/ ProcessOpaque \/ ProcessBase \/ ProcessEnum \/ Refuse \/ UnknownDeclaration
  \/ ProcessLink \/ ProcessPointer \/ ProcessArray
  \/ MemberUnderflows \/ SkipEmpty \/ TakeBytes \/ TakeMember
  \/ EmitStruct \/ EmitUnion \/ Finish

Next == Step \/ WriteFails \/ Terminated

Spec == Init /\ [][Next]_vars

\* The one thread keeps running; no write has to fail.
FairSpec == Spec /\ WF_vars(Step)

-----------------------------------------------------------------------------
(***************************************************************************)
(* Correctness.                                                            *)
(***************************************************************************)

\* The parts of the state have the shapes the program gives them.
InfoOK(info) == info = NoInfo \/ (info.packed \in Nat /\ info.size \in Nat)
TypeOK ==
  /\ types \in [TypeIndex -> Type]
  /\ dest \in Seq(TypeIndex)
  /\ DOMAIN processed \subseteq TypeIndex
  /\ \A t \in DOMAIN processed : InfoOK(processed[t])
  /\ \A i \in 1..Len(stack) : stack[i].ty \in TypeIndex
  /\ \A d \in ToSet(printer.header) : d.owner \in TypeIndex /\ d.size \in Nat
  /\ status \in {"running", "done", "panicked", "failed"}

\* process_type is never active twice for one type, whatever the types refer to:
\* the placeholder it leaves in `processed' ends every cycle, so the recursion is
\* no deeper than there are types.
NoReentry ==
  \A i, j \in 1..Len(stack) : stack[i].ty = stack[j].ty => i = j

\* What get_type_info once returned for a type stays what it returns.
MemoStable ==
  [][\A t \in DOMAIN processed :
       processed[t] # NoInfo => processed'[t] = processed[t]]_vars

\* "When process_type is called, ty is certainly not in processed" (its comment).
CalledOncePerType ==
  [][\A t \in TypeIndex :
       Len(stack') > Len(stack) /\ stack'[Len(stack')].ty = t
         => t \notin DOMAIN processed]_vars

\* Every type that a definition uses by value or by pointer is defined above it,
\* so a C compiler accepts the header as it is, also when a write fails halfway.
Uses(d) == {m.type : m \in ToSet(d.mems)}
CompilesInOrder ==
  \A i \in 1..Len(printer.header) :
    \A c \in Uses(printer.header[i]) :
      c.def => \E j \in 1..(i - 1) : printer.header[j].ident = c.name

\* alloc_ident's purpose: no two definitions in the header share an identifier.
UniqueIdents ==
  \A i, j \in 1..Len(printer.header) :
    printer.header[i].ident = printer.header[j].ident => i = j

-----------------------------------------------------------------------------
(* The generated .c file: what the C compiler makes of the header. *)
Defined(name) == CHOOSE d \in ToSet(printer.header) : d.ident = name
CSizeof(type, len) ==
  IF type.ptrs > 0 THEN PointerSize
  ELSE IF type.def THEN Defined(type.name).size
  ELSE IF type = ByteType THEN len
  ELSE types[CHOOSE t \in TypeIndex :
               types[t].kind = "base" /\ types[t].path[1].text = type.name].size

\* What a compiler writes about sizes: one for all pointers, one for each name of a
\* base type, and sizes and offsets that fit a machine word; and what layout() makes
\* of them: a struct's layout begins at 0, and each padding in it has a size.
WellSized(ts) ==
  \A t \in DOMAIN ts :
    LET ty == ts[t]
    IN  /\ ty.kind = "pointer" => ty.size \in {None, PointerSize}
        /\ ty.kind = "base" =>
             /\ Len(ty.path) = 1
             /\ \A u \in DOMAIN ts : ts[u].kind = "base" /\ ts[u].path[1].text = ty.path[1].text
                                     => ts[u].size = ty.size
        /\ ty.kind = "struct" /\ ty.size # None =>
             /\ ty.size < Modulus
             /\ ty.layout # <<>> => ty.layout[1].off = 0
             /\ \A k \in DOMAIN ty.layout :
                  /\ ty.layout[k].off < BitsPerByte * Modulus
                  /\ ty.layout[k].what = "padding" => ty.layout[k].size # None
        /\ ty.kind = "union" /\ ty.size # None =>
             /\ ty.size < Modulus
             /\ \A k \in DOMAIN ty.members :
                  LET size == BitSize(ts, t, ty.members[k])
                  IN  size # None => Bit2Byte(size) <= ty.size

\* Each generated assertion holds: in a packed struct a member starts where the
\* one before it ends, and each sizeof is what the assertion says.
AssertsHold ==
  \A d \in ToSet(printer.header) :
    LET size(k) == CSizeof(d.mems[k].type, d.mems[k].len)
        n == Len(d.mems)
    IN  /\ \A k \in 1..n : d.mems[k].len = size(k)
        /\ d.form \in {"struct", "padded"} =>
             /\ d.mems[1].off = 0
             /\ \A k \in 1..(n - 1) : d.mems[k + 1].off = d.mems[k].off + size(k)
             /\ d.size = d.mems[n].off + size(n)
        /\ d.form = "union" =>
             /\ \A k \in 1..n : d.mems[k].off = 0 /\ size(k) <= d.size
             /\ \E k \in 1..n : size(k) = d.size
        /\ d.form = "array" => d.size = d.count * size(1)

(***************************************************************************)
(* "Translate C++/Rust type into C type with the same memory layout": the  *)
(* scalars of the C type and those of the debug info lie at the same bytes.*)
(***************************************************************************)
Shifted(leaves, off) == {<<off + l[1], l[2]>> : l \in leaves}

Scalars(t) ==
  LET At[n \in Nat] == [u \in TypeIndex |->
        IF n = 0 THEN {} ELSE
        LET ty == types[u]
            items == ToSet(ty.members) \union ToSet(ty.inherits)
            whole(m) == /\ m.off % BitsPerByte = 0
                        /\ m.size = None \/ m.size % BitsPerByte = 0
            of(off) == At[n - 1][Child(u, off)]
        IN  IF IsAlias(u) \/ IsDeclaration(u)
            THEN UNION {At[n - 1][v] : v \in Targets(u)}
            ELSE
            CASE ty.kind = "base"    -> {<<0, ty.path[Len(ty.path)].text>>}
              [] ty.kind = "pointer" -> {<<0, "*">>}
              [] ty.kind = "enum"    -> {<<0, "enum">>}
              [] ty.kind \in {"struct", "union"} ->
                   UNION {Shifted(of(m.ty), m.off \div BitsPerByte) :
                            m \in {i \in items : whole(i)}}
              [] ty.kind = "array" /\ Count(types, u) # None ->
                   UNION {Shifted(of(ty.ty), k * types[Child(u, ty.ty)].bytes) :
                            k \in 0..(Count(types, u) - 1)}
              [] OTHER -> {}]
  IN  At[Cardinality(TypeIndex)][t]

CScalars(type) ==
  LET At[n \in 0..Len(printer.header)] ==  \* of the n-th definition
        IF n = 0 THEN {} ELSE
        LET d == printer.header[n]
            index(name) == CHOOSE j \in 1..Len(printer.header) :
                             printer.header[j].ident = name
            of(c) == IF c.ptrs > 0 THEN {<<0, "*">>}
                     ELSE IF c.def THEN At[index(c.name)]
                     ELSE IF c = ByteType THEN {} ELSE {<<0, c.name>>}
        IN  IF d.form = "enum" THEN {<<0, "enum">>}
            ELSE IF d.form = "array"
            THEN UNION {Shifted(of(d.mems[1].type), k * d.mems[1].len) : k \in 0..(d.count - 1)}
            ELSE UNION {Shifted(of(m.type), m.off) : m \in ToSet(d.mems)}
  IN  IF type.ptrs > 0 THEN {<<0, "*">>}
      ELSE IF type.def
      THEN At[CHOOSE j \in 1..Len(printer.header) : printer.header[j].ident = type.name]
      ELSE {<<0, type.name>>}

\* Whatever is translated keeps the layout the debug info describes.
SameLayout ==
  \A t \in DOMAIN processed :
    processed[t] # NoInfo =>
      /\ CScalars(processed[t].type) = Scalars(t)
      /\ types[t].bytes \in {None, processed[t].size}

\* No assertion of the program fails and no subtraction or division panics.
NoPanic == status # "panicked"

\* A finished symbolic link has what its finished target has (handle_sym_link).
Finished(t) == t \in DOMAIN processed /\ \A i \in 1..Len(stack) : stack[i].ty # t
LinksAgree ==
  \A t \in TypeIndex : \A u \in Targets(t) :
    Finished(t) /\ Finished(u) => processed[t] = processed[u]

\* "type references across files": once everything is translated, nothing that was
\* only declared is unknown if some input defines it.
DeclarationsResolved ==
  status = "done" =>
    \A t \in DOMAIN processed, u \in TypeIndex :
      /\ IsDeclaration(t) /\ types[u].kind = types[t].kind /\ ~types[u].decl
      /\ types[u].path = types[t].path
      => processed[t] # NoInfo

\* The translation is a walk over the types, depth first, that opens each once (in
\* a release build once more per destination that was reached before), never forgets
\* what it found, and only ever adds to the end of the header, when it leaves a type
\* and for that type: get_type_info and process_type implement Walk.
OpenTypes == [i \in 1..Len(stack) |-> stack[i].ty]
Owners    == [i \in 1..Len(printer.header) |-> printer.header[i].owner]
Walked == INSTANCE Walk WITH
  Node <- TypeIndex, Pending <- NoInfo, Restarts <- ~DebugBuild,
  open <- OpenTypes, memo <- processed, written <- Owners
WalksOnce == Walked!WalkSpec

\* Whatever the input, the program ends.
Termination == <>(status # "running")
=============================================================================
