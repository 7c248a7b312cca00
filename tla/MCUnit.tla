------------------------------- MODULE MCUnit -------------------------------
(***************************************************************************)
(* Small units for UnitParser: trees of a few entries in which every entry *)
(* stands where DWARF allows it.                                           *)
(***************************************************************************)
EXTENDS UnitParser, TLC

CanHold(t) ==
  CASE t \in {"unit", "namespace"} -> {"namespace", "function", "struct", "union", "enum",
                                      "named", "unnamed", "variable"}
    [] t = "function" -> {"parameter", "block", "function", "struct", "named", "unnamed",
                          "variable", "other"}
    [] t = "block" -> {"block", "function", "struct", "variable", "other"}
    [] t \in {"struct", "union"} -> {"function", "member", "inheritance", "part", "struct",
                                   "named", "variable"}
    [] t = "enum" -> {"function"}
    [] t = "part" -> {"member", "variant"}
    [] t = "variant" -> {"member"}
    [] t = "other" -> {"variable", "parameter"}
    [] OTHER -> {}

Given(t, parent, name, refers, origin, decl, ty) ==
  [tag |-> t, parent |-> parent, name |-> name, refers |-> refers, origin |-> origin,
   decl |-> decl, ty |-> ty]
Root == Given("unit", 0, NoEntry, NoEntry, FALSE, FALSE, NoEntry)

\* An entry may follow as a child of the last one, or of one the last one is in.
Parents(s) ==
  LET up[d \in 0..Len(s)] == IF d = 0 THEN {0} ELSE {d} \union up[s[d][2]] IN up[Len(s)]

\* Trees of n entries, as pairs of a tag and a parent that may hold it.
Holder(s, d) == IF d = 0 THEN "unit" ELSE s[d][1]
Trees(n, ts) ==
  LET grow[k \in 0..n] ==
        IF k = 0 THEN {<<>>}
        ELSE UNION {UNION {{Append(s, <<t, p>>) : t \in ts \intersect CanHold(Holder(s, p))} :
                             p \in Parents(s)} : s \in grow[k - 1]}
  IN  grow[n]

Unit(s, rust) == [rust |-> rust, die |-> (0 :> Root) @@ s]

\* Trees of four entries with what each entry refers to: nothing, or, from an entry
\* with one of the tags `from', another one with one of the tags `to', or 0 for one of
\* another unit.
Referring(trees, from, to) ==
  {c \in trees \X [1..4 -> (0..4) \union {NoEntry}] :
     \A d \in 1..4 :
       \/ c[2][d] = NoEntry
       \/ /\ c[1][d][1] \in from /\ c[2][d] # d
          /\ c[2][d] = 0 \/ c[1][c[2][d]][1] \in to}
=============================================================================
