------------------------------ MODULE Location ------------------------------
(***************************************************************************)
(* Where a local variable lives: evaluate_simple of file/dwarf.rs, which   *)
(* runs a location expression on a stack of symbolic locations, and        *)
(* evaluate_local_variable_location, which collects what the expressions   *)
(* of one variable give.  One step reads one operation.  An expression is  *)
(* made up as it is read: every sequence of operations is one.             *)
(*                                                                         *)
(* `real' is the stack machine of the DWARF standard on the same           *)
(* operations, for a frame whose registers hold what `frame' says.         *)
(***************************************************************************)
EXTENDS Integers, Sequences, SequencesExt

CONSTANTS Operations,     \* bound: the operations an expression is made of
          MaxOperations,  \* bound: the operations of all expressions together
          MaxExpressions, \* bound: the entries of a location list
          Frames,         \* bound: what the registers and bases may hold
          Word            \* u64 wraps here

ASSUME BoundsAssumption == MaxOperations \in Nat /\ MaxExpressions \in Nat \ {0}
\* The addresses of a machine of 1, 2 or 4 bytes an address are fewer than u64 has.
ASSUME FramesAssumption ==
  /\ Word \in Nat \ {0}
  /\ \A f \in Frames : /\ f.space \in 1..Word /\ Word % f.space = 0
                       /\ {f.fb, f.cfa, f.tls, f.unknown} \subseteq Int
ASSUME OperationsAssumption ==
  \A op \in Operations :
    /\ op.value \in Int /\ op.size \in Nat
    /\ op.name = "pick" => op.value \in Nat
    /\ op.name = "breg" => \A f \in Frames : f.reg[op.reg] \in Int

VARIABLES frame,      \* [space, fb, cfa, tls, reg, unknown], fixed
          read,       \* how many operations were read
          expression, \* which entry of the location list is evaluated
          stack,      \* Vec<Location>
          placed,     \* `location': set by an operation that must be the last of its piece
          pieces,     \* Vec<Piece>
          nextBit,    \* next_bit_offset: where the next piece begins
          real,       \* the stack and the pieces of the standard's machine
          progress,   \* "reading", "complete", "cut", "error" or "done"
          variable    \* LocalVariable: its address, size and locations

locationVars ==
  <<frame, read, expression, stack, placed, pieces, nextBit, real, progress, variable>>

Unknown == -1   \* a size or an address that is not there

Loc(kind, reg, value) == [kind |-> kind, reg |-> reg, value |-> value]
Other == Loc("Other", 0, 0)
Empty == Loc("Empty", 0, 0)

\* Piece: `size' and offsets in bits.
Piece(bit, size, loc, off, isValue) ==
  [bit |-> bit, size |-> size, loc |-> loc, off |-> off, isValue |-> isValue]

Nothing == [loc |-> Empty, isValue |-> FALSE, some |-> FALSE]

\* How many locations an operation takes off the stack, or needs there.
Operands(op) ==
  CASE op.name \in {"nop", "const", "address", "breg", "fbreg", "cfa", "entry_value"} -> 0
    [] op.name \in {"drop", "plus_uconst", "tls", "neg", "deref", "stack_value"} -> 1
    [] op.name \in {"swap", "plus", "minus", "mul", "xderef"} -> 2
    [] op.name = "rot" -> 3
    [] op.name = "pick" -> op.value + 1
    [] OTHER -> 0

Signed(n) == IF n >= Word \div 2 THEN n - Word ELSE n
Masked(n) == (n % Word) % frame.space

Pushed(op) ==
  CASE op.name = "const"   -> Loc("Literal", 0, op.value % Word)
    [] op.name = "address" -> Loc("Address", 0, op.value)
    [] op.name = "breg"    -> Loc("RegisterOffset", op.reg, op.value)
    [] op.name = "fbreg"   -> Loc("FrameOffset", 0, op.value)
    [] op.name = "cfa"     -> Loc("CfaOffset", 0, 0)
    [] OTHER               -> Other

\* An unsigned offset is added and the sum cut to an address; it is an i64 again
\* in the locations that hold an offset.
PlusConstant(loc, c) ==
  CASE loc.kind = "Literal" -> [loc EXCEPT !.value = Masked(@ + c)]
    [] loc.kind \in {"RegisterOffset", "FrameOffset", "CfaOffset"} ->
         [loc EXCEPT !.value = Signed(Masked(@ + c))]
    [] OTHER -> Other

Tls(loc) == IF loc.kind = "Literal" THEN Loc("TlsOffset", 0, loc.value) ELSE Other

\* Mutant: the two locations below the top change places too.
EffectRotates(op, s) ==
  LET n == Len(s)
      rest(k) == SubSeq(s, 1, n - k)
  IN  CASE op.name \in {"nop", "drop"} -> rest(Operands(op))
        [] op.name = "swap" -> rest(2) \o <<s[n], s[n - 1]>>
        [] op.name = "rot"  -> rest(3) \o <<s[n], s[n - 1], s[n - 2]>>
        [] op.name = "pick" -> Append(s, s[n - op.value])
        [] op.name = "plus_uconst" -> Append(rest(1), PlusConstant(s[n], op.value))
        [] op.name = "tls"  -> Append(rest(1), Tls(s[n]))
        [] op.name \in {"plus", "minus"} -> rest(2)
        [] OTHER -> Append(rest(Operands(op)), Pushed(op))

\* What an operation leaves on the stack.  The match of Plus and of Minus gives a
\* location that nothing pushes.
Effect(op, s) ==
  LET n == Len(s)
      rest(k) == SubSeq(s, 1, n - k)
  IN  CASE op.name \in {"nop", "drop"} -> rest(Operands(op))
        [] op.name = "swap" -> rest(2) \o <<s[n], s[n - 1]>>
        [] op.name = "rot"  -> rest(3) \o <<s[n], s[n - 2], s[n - 1]>>
        [] op.name = "pick" -> Append(s, s[n - op.value])
        [] op.name = "plus_uconst" -> Append(rest(1), PlusConstant(s[n], op.value))
        [] op.name = "tls"  -> Append(rest(1), Tls(s[n]))
        [] op.name \in {"plus", "minus"} -> rest(2)
        [] OTHER -> Append(rest(Operands(op)), Pushed(op))

-----------------------------------------------------------------------------
(***************************************************************************)
(* The machine of the DWARF standard (2.5, 2.6): its stack holds values.   *)
(***************************************************************************)
Value(n) == n % frame.space

RealPushed(op) ==
  CASE op.name \in {"const", "address"} -> Value(op.value)
    [] op.name = "breg"  -> Value(frame.reg[op.reg] + op.value)
    [] op.name = "fbreg" -> Value(frame.fb + op.value)
    [] op.name = "cfa"   -> Value(frame.cfa)
    [] OTHER             -> Value(frame.unknown)

RealEffect(op, s) ==
  LET n == Len(s)
      rest == SubSeq(s, 1, n - Operands(op))
  IN  IF n < Operands(op) THEN s ELSE
      CASE op.name \in {"nop", "drop"} -> rest
        [] op.name = "swap" -> [s EXCEPT ![n] = s[n - 1], ![n - 1] = s[n]]
        \* "the top entry becomes the third, the second becomes the top, the third
        \* becomes the second"
        [] op.name = "rot"  -> [s EXCEPT ![n - 2] = s[n], ![n] = s[n - 1], ![n - 1] = s[n - 2]]
        [] op.name = "pick" -> Append(s, s[n - op.value])
        [] op.name = "plus_uconst" -> Append(rest, Value(s[n] + op.value))
        [] op.name = "tls"   -> Append(rest, Value(frame.tls + s[n]))
        [] op.name = "plus"  -> Append(rest, Value(s[n - 1] + s[n]))
        [] op.name = "minus" -> Append(rest, Value(s[n - 1] - s[n]))
        [] OTHER -> Append(rest, RealPushed(op))

RealPlace(where, value) == [where |-> where, value |-> value]

\* What DW_OP_piece takes from the stack: an address in memory, or nothing at all.
RealTop == IF real.stack = <<>> THEN RealPlace("nowhere", 0)
           ELSE RealPlace("memory", real.stack[Len(real.stack)])

-----------------------------------------------------------------------------
(***************************************************************************)
(* evaluate_simple.                                                        *)
(***************************************************************************)
\* The machines at the first operation of an expression.
FreshReal == [stack |-> <<>>, placed |-> RealPlace("nowhere", 0), pieces |-> <<>>]

LocationInit ==
  /\ frame \in Frames
  /\ read = 0 /\ expression = 1
  /\ stack = <<>> /\ placed = Nothing /\ pieces = <<>> /\ nextBit = 0 /\ real = FreshReal
  /\ progress = "reading"
  /\ variable = [address |-> Unknown, size |-> Unknown, locations |-> <<>>, real |-> <<>>]

Reads(op) ==
  /\ progress = "reading" /\ read < MaxOperations
  /\ op \in Operations
  /\ read' = read + 1

\* The operations that work on the stack alone.
Compute(op) ==
  /\ Reads(op) /\ ~placed.some
  /\ op.name \notin {"piece", "reg", "implicit_value", "implicit_pointer",
                     "stack_value", "bra"}
  /\ Len(stack) >= Operands(op)
  /\ stack' = Effect(op, stack)
  /\ real' = [real EXCEPT !.stack = RealEffect(op, @)]
  /\ UNCHANGED <<frame, expression, placed, pieces, nextBit, progress, variable>>

\* An operation that says where the piece is without an address: a register, or a
\* value that is nowhere.
Place(op) ==
  /\ Reads(op) /\ ~placed.some
  /\ op.name \in {"reg", "implicit_value", "implicit_pointer", "stack_value"}
  /\ Len(stack) >= Operands(op)
  /\ placed' = [some |-> TRUE, isValue |-> op.name \in {"implicit_value", "stack_value"},
                loc |-> CASE op.name = "reg" -> Loc("Register", op.reg, 0)
                          [] op.name = "stack_value" -> stack[Len(stack)]
                          [] OTHER -> Other]
  /\ stack' = SubSeq(stack, 1, Len(stack) - Operands(op))
  /\ real' = [real EXCEPT
       !.stack = SubSeq(@, 1, Len(@) - Operands(op)),
       !.placed = CASE op.name = "reg" -> RealPlace("register", op.reg)
                    [] op.name = "stack_value" -> RealPlace("value", RealTop.value)
                    [] OTHER -> RealPlace("value", frame.unknown)]
  /\ UNCHANGED <<frame, expression, pieces, nextBit, progress, variable>>

Bits(size) == IF size = Unknown THEN 0 ELSE size

\* Mutant: the next piece begins as many bits in as this one is long.
PushPieceAtSize(loc, isValue, size, off) ==
  /\ pieces' = Append(pieces, Piece(nextBit, size, loc, off, isValue))
  /\ nextBit' = Bits(size)

\* add_piece: it begins where the piece before it ends.
PushPiece(loc, isValue, size, off) ==
  /\ pieces' = Append(pieces, Piece(nextBit, size, loc, off, isValue))
  /\ nextBit' = nextBit + Bits(size)

WithRealPiece(place, size, off) ==
  LET n == Len(real.pieces)
      end == IF n = 0 THEN 0 ELSE real.pieces[n].bit + real.pieces[n].size
  IN  Append(real.pieces, [place |-> place, size |-> size, off |-> off, bit |-> end])

\* DW_OP_piece: of what was placed, or of the address on the stack, if any.
AddPiece(op) ==
  /\ Reads(op) /\ op.name = "piece"
  /\ IF placed.some THEN PushPiece(placed.loc, placed.isValue, op.size, op.off)
     ELSE PushPiece(IF stack = <<>> THEN Empty ELSE stack[Len(stack)], FALSE, op.size, op.off)
  /\ stack' = IF placed.some \/ stack = <<>> THEN stack ELSE Front(stack)
  /\ placed' = Nothing
  /\ real' = [real EXCEPT
       !.stack = IF placed.some \/ @ = <<>> THEN @ ELSE Front(@),
       !.pieces = WithRealPiece(IF placed.some THEN real.placed ELSE RealTop, op.size, op.off),
       !.placed = RealPlace("nowhere", 0)]
  /\ UNCHANGED <<frame, expression, progress, variable>>

\* Branches and calls are not followed: the pieces so far are the answer.
Branch(op) ==
  /\ Reads(op) /\ ~placed.some /\ op.name = "bra"
  /\ progress' = "cut"
  /\ UNCHANGED <<frame, expression, stack, placed, pieces, nextBit, real, variable>>

\* An operand is missing, or something else than a piece follows what was placed.
Malformed(op) ==
  /\ Reads(op)
  /\ IF placed.some THEN op.name # "piece" ELSE Len(stack) < Operands(op)
  /\ progress' = "error"
  /\ UNCHANGED <<frame, expression, stack, placed, pieces, nextBit, real, variable>>

\* The bytes are no operation.
Unreadable ==
  /\ progress = "reading"
  /\ progress' = "error"
  /\ UNCHANGED <<frame, read, expression, stack, placed, pieces, nextBit, real, variable>>

\* Mutant: what was placed is a piece of its own after other pieces too.
EndAnyway ==
  /\ progress = "reading"
  /\ progress' = "complete"
  /\ IF placed.some
     THEN /\ PushPiece(placed.loc, placed.isValue, Unknown, 0)
          /\ real' = [real EXCEPT !.pieces = WithRealPiece(real.placed, Unknown, 0)]
     ELSE IF pieces = <<>> /\ stack # <<>>
     THEN /\ PushPiece(stack[Len(stack)], FALSE, Unknown, 0)
          /\ real' = [real EXCEPT !.pieces = WithRealPiece(RealTop, Unknown, 0)]
     ELSE UNCHANGED <<pieces, nextBit, real>>
  /\ UNCHANGED <<frame, read, expression, stack, placed, variable>>

\* The end of the expression: without pieces, what was placed or the top of the
\* stack is the whole object.
EndExpression ==
  /\ progress = "reading"
  /\ progress' = IF placed.some /\ pieces # <<>> THEN "error" ELSE "complete"
  /\ IF pieces = <<>> /\ (placed.some \/ stack # <<>>)
     THEN /\ IF placed.some THEN PushPiece(placed.loc, placed.isValue, Unknown, 0)
             ELSE PushPiece(stack[Len(stack)], FALSE, Unknown, 0)
          /\ real' = [real EXCEPT !.pieces =
                        WithRealPiece(IF placed.some THEN real.placed ELSE RealTop, Unknown, 0)]
     ELSE UNCHANGED <<pieces, nextBit, real>>
  /\ UNCHANGED <<frame, read, expression, stack, placed, variable>>

-----------------------------------------------------------------------------
(***************************************************************************)
(* evaluate_local_variable_location, for the next entry of the list.       *)
(***************************************************************************)
InMemory(p) == ~p.isValue /\ p.loc.kind = "Address"

\* The first address is the variable's, and its piece gives the size.
Collected ==
  LET at == SelectInSeq(pieces, InMemory)
      found == variable.address = Unknown /\ at # 0
  IN  [address |-> IF found THEN pieces[at].loc.value ELSE variable.address,
       size |-> IF found /\ pieces[at].size # Unknown
                THEN (pieces[at].size + 7) \div 8 ELSE variable.size,
       locations |-> variable.locations \o [k \in DOMAIN pieces |-> <<expression, pieces[k]>>],
       real |-> variable.real \o [k \in DOMAIN pieces |-> <<expression, real.pieces[k]>>]]

\* An expression with an error adds nothing.
Collect ==
  /\ progress \in {"complete", "cut", "error"}
  /\ variable' = IF progress = "error" THEN variable ELSE Collected
  /\ stack' = <<>> /\ placed' = Nothing /\ pieces' = <<>> /\ nextBit' = 0 /\ real' = FreshReal
  /\ expression' = expression + 1
  /\ progress' = IF expression < MaxExpressions THEN "reading" ELSE "done"
  /\ UNCHANGED <<frame, read>>

LocationNext ==
  \/ \E op \in Operations : \/ Compute(op) \/ Place(op) \/ AddPiece(op)
                            \/ Branch(op) \/ Malformed(op)
  \/ Unreadable \/ EndExpression \/ Collect

LocationSpec == LocationInit /\ [][LocationNext]_locationVars

-----------------------------------------------------------------------------
\* A location stands for one place in the frame, "Other" for any.
Denotes(loc, place) ==
  LET is(n) == /\ place.where \in {"memory", "value"}
               /\ place.value = Value(n)
  IN  CASE loc.kind = "Other" -> TRUE
        [] loc.kind = "Empty" -> place.where = "nowhere"
        [] loc.kind = "Register" -> place = RealPlace("register", loc.reg)
        [] loc.kind \in {"Literal", "Address"} -> is(loc.value)
        [] loc.kind = "RegisterOffset" -> is(frame.reg[loc.reg] + loc.value)
        [] loc.kind = "FrameOffset" -> is(frame.fb + loc.value)
        [] loc.kind = "CfaOffset" -> is(frame.cfa + loc.value)
        [] loc.kind = "TlsOffset" -> is(frame.tls + loc.value)

\* Through any sequence of operations the stack of locations follows the stack of
\* values: it is as deep, and every location that evaluate_simple claims to know
\* is the address that the operations compute.
StackFollows ==
  /\ Len(stack) = Len(real.stack)
  /\ \A i \in 1..Len(stack) :
       Denotes(stack[i], RealPlace("memory", real.stack[i]))

\* "The location of the piece" (location.rs): every piece that a variable gets is a
\* piece of the object, at the bits and in the place where the object has it. The
\* pieces of one entry of the location list follow each other from the first bit.
PiecesWhereTheyAre ==
  /\ Len(variable.locations) = Len(variable.real)
  /\ \A k \in 1..Len(variable.locations) :
       LET p == variable.locations[k][2]
           r == variable.real[k][2]
       IN  /\ p.bit = r.bit /\ p.size = r.size /\ p.off = r.off
           /\ Denotes(p.loc, r.place)
           /\ p.loc.kind # "Other" => (p.isValue <=> r.place.where = "value")
           /\ p.bit # 0 => /\ k > 1
                           /\ variable.locations[k - 1][1] = variable.locations[k][1]

\* "The size of the piece. If none, then the piece is the complete value"
\* (location.rs): a piece without a size is the only one of its expression.
WholeStandsAlone ==
  \A j, k \in 1..Len(variable.locations) :
    /\ j # k /\ variable.locations[j][1] = variable.locations[k][1]
    => variable.locations[j][2].size # Unknown
=============================================================================
