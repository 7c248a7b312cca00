----------------------------- MODULE MCLocation -----------------------------
(***************************************************************************)
(* One operation of each kind, with operands that tell the places of a     *)
(* frame apart, and machines whose addresses are as wide as u64 and        *)
(* narrower.                                                               *)
(***************************************************************************)
EXTENDS Location

Op(name, reg, value) ==
  [name |-> name, reg |-> reg, value |-> value, size |-> 0, off |-> 0]
PieceOp(size, off) ==
  [name |-> "piece", reg |-> 0, value |-> 0, size |-> size, off |-> off]

SimpleOperations ==
  {Op(n, 0, 0) : n \in {"nop", "cfa", "entry_value", "drop", "tls", "deref", "stack_value",
                        "swap", "mul", "rot", "bra", "implicit_value"}}
  \union {Op("const", 0, 1), Op("const", 0, -1), Op("address", 0, 3), Op("breg", 1, -2),
          Op("fbreg", 0, -1), Op("reg", 1, 0), Op("plus_uconst", 0, 2), Op("pick", 0, 1),
          PieceOp(8, 0), PieceOp(4, 2)}

\* The sum and the difference of two locations, and what they may work on.
SumOperations ==
  {Op("plus", 0, 0), Op("minus", 0, 0), Op("const", 0, 1), Op("fbreg", 0, -1), PieceOp(8, 0)}

MCFrames ==
  {[space |-> s, fb |-> 3, cfa |-> 2, tls |-> 1, reg |-> <<5>>, unknown |-> 4] : s \in {4, 8}}
=============================================================================
