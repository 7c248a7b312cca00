------------------------------- MODULE Types -------------------------------
(***************************************************************************)
(* The debug-info types of the input files, as parser/src/types.rs holds   *)
(* them, and the questions clayout asks of them: how many bytes a type     *)
(* takes (byte_size), how many bits a member takes (bit_size) and how the  *)
(* members of a struct lie in memory (layout).                             *)
(*                                                                         *)
(* A type is named by a TypeIndex: the input file and the offset in it.    *)
(* `types' maps every index to what the file holds there.  An offset that  *)
(* the file cannot resolve is an "opaque" type of unknown size.            *)
(***************************************************************************)
EXTENDS Integers, Sequences, FiniteSets, SequencesExt

CONSTANTS Inputs,    \* input files, numbered in the order of the command line
          Offsets    \* TypeOffset values, the one of `void' included

ASSUME InputsAssumption == Inputs \subseteq Nat /\ IsFiniteSet(Inputs)
ASSUME OffsetsAssumption == IsFiniteSet(Offsets)

TypeIndex == Inputs \X Offsets

\* An offset stored in a type refers to the file that holds the type.
Child(t, off) == <<t[1], off>>

None == -1
OptNat == Nat \union {None}

BitsPerByte == 8
Bit2Byte(n) == (n + BitsPerByte - 1) \div BitsPerByte

\* "opaque" stands for the kinds clayout never translates: void, function,
\* pointer to member, subrange, unspecified, and an unresolvable offset.
Kinds == {"opaque", "base", "def", "const", "pointer",
          "struct", "union", "enum", "array"}

\* One component of a qualified name: the text the debug info gives it ("" if it
\* gives none), the leading run of identifier characters of that text, and what
\* the component names.
Scopes == {"namespace", "function", "type"}
Component == [text : STRING, ident : STRING, scope : Scopes]

\* A member, an inherited type or a variant part, with its offset in bits.
Item == [off : Nat, size : OptNat, ty : Offsets]

\* An item of a struct in memory order; `nth' says which one of its list it is.
LayoutItem == [what : {"padding", "member", "inherit", "variant"}, nth : Nat,
               off : Nat, size : OptNat, ty : Offsets]

\* `size' and `count' are attributes; `bytes' and `layout' are the answers of
\* byte_size() and layout(), which the definitions below give.
Type == [kind : Kinds, path : Seq(Component), decl : BOOLEAN,
         size : OptNat, ty : Offsets, count : OptNat,
         members : Seq(Item), inherits : Seq(Item), variants : Seq(Item),
         bytes : OptNat, layout : Seq(LayoutItem)]

-----------------------------------------------------------------------------
(***************************************************************************)
(* byte_size follows typedefs, modifiers, array elements and the           *)
(* underlying type of an enumeration.  The code recurses without a limit;  *)
(* SizesWithin[n] follows at most n references, which is exact when a type *)
(* does not contain itself.                                                *)
(***************************************************************************)
Times(a, b) == IF a = None \/ b = None THEN None ELSE a * b

ByteSize(types, t) ==
  LET SizesWithin[n \in Nat] ==
        [u \in DOMAIN types |->
           LET ty == types[u]
               inner == IF n = 0 THEN None
                        ELSE SizesWithin[n - 1][Child(u, ty.ty)]
           IN  CASE ty.kind = "def" -> inner
                 [] ty.size = None /\ ty.kind \in {"const", "enum"} -> inner
                 [] ty.size = None /\ ty.kind = "array" -> Times(inner, ty.count)
                 [] OTHER -> ty.size]
  IN  SizesWithin[Cardinality(DOMAIN types)][t]

BitSize(types, t, item) ==
  IF item.size # None THEN item.size
  ELSE Times(types[Child(t, item.ty)].bytes, BitsPerByte)

\* The element count of an array: given, or the array's size over its element's,
\* which panics for elements of size 0.
Count(types, t) ==
  LET ty == types[t]
      elem == types[Child(t, ty.ty)].bytes
  IN  IF ty.count # None THEN ty.count
      ELSE IF ty.size = None \/ elem \in {None, 0} THEN None ELSE ty.size \div elem
CountDividesByZero(types, t) ==
  types[t].count = None /\ types[t].size # None /\ types[Child(t, types[t].ty)].bytes = 0

-----------------------------------------------------------------------------
(***************************************************************************)
(* layout(): the items of a struct in memory order, every gap made an item *)
(* of its own.                                                             *)
(***************************************************************************)
Located(types, t, items, what) ==
  [i \in 1..Len(items) |->
     [what |-> what, nth |-> i, off |-> items[i].off, ty |-> items[i].ty,
      size |-> IF what = "variant" THEN items[i].size
               ELSE BitSize(types, t, items[i])]]

Padding(off, size, ty) ==
  [what |-> "padding", nth |-> 0, off |-> off, ty |-> ty, size |-> size]

\* Size::none() is u64::MAX, so an unknown size sorts last; the sort is stable.
Before(s, i, j) ==
  \/ s[i].off < s[j].off
  \/ /\ s[i].off = s[j].off
     /\ \/ s[i].size # s[j].size /\ s[j].size = None
        \/ s[i].size # None /\ s[i].size < s[j].size
        \/ s[i].size = s[j].size /\ i < j

SortedItems(s) ==
  LET order == SortSeq([i \in 1..Len(s) |-> i], LAMBDA i, j : Before(s, i, j))
  IN  [k \in 1..Len(s) |-> s[order[k]]]

Layout(types, t) ==
  LET ty == types[t]
      s  == SortedItems(Located(types, t, ty.members, "member")
                          \o Located(types, t, ty.inherits, "inherit")
                          \o Located(types, t, ty.variants, "variant"))
      end(k)  == s[k].off + s[k].size
      next(k) == IF k < Len(s) THEN s[k + 1].off
                 ELSE Times(ty.size, BitsPerByte)
      gap(k)  == s[k].size # None /\ next(k) # None /\ next(k) > end(k)
      lead    == IF s # <<>> /\ s[1].off > 0
                 THEN <<Padding(0, s[1].off, ty.ty)>> ELSE <<>>
  IN  lead \o FlattenSeq([k \in 1..Len(s) |->
                IF gap(k)
                THEN <<s[k], Padding(end(k), next(k) - end(k), ty.ty)>>
                ELSE <<s[k]>>])

\* Types with their sizes and layouts worked out; TLC computes a function that went
\* through @@ only once.
Sized(types) ==
  <<>> @@ [t \in DOMAIN types |-> [types[t] EXCEPT !.bytes = ByteSize(types, t)]]
LaidOut(types) ==
  <<>> @@ [t \in DOMAIN types |->
             [types[t] EXCEPT !.layout = IF types[t].kind = "struct"
                                         THEN Layout(types, t) ELSE <<>>]]
Measured(types) == LaidOut(Sized(types))

IsBitfield(l) == l.size # None /\ l.size % BitsPerByte # 0
=============================================================================
