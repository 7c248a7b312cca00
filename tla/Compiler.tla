------------------------------ MODULE Compiler ------------------------------
(***************************************************************************)
(* The C++ compiler that wrote the debug info, as far as clayout depends   *)
(* on it: given the shape of each type of a file, the record that the      *)
(* parser holds for it, with the sizes and offsets of the Itanium ABI.     *)
(*                                                                         *)
(* A file is a sequence of shapes; the type at offset k has shape k, and   *)
(* offset 0 is `void'.  Shapes refer to other types by offset, and only    *)
(* pointers refer to a later one: a type never contains itself.            *)
(***************************************************************************)
EXTENDS Types

CONSTANT PointerSize

Maximum(a, b) == IF a > b THEN a ELSE b
RoundUp(n, align) == ((n + align - 1) \div align) * align

Named(s) == <<[text |-> s, ident |-> s, scope |-> "type"]>>

\* The shapes.  `Class' has base classes and then members; a member is an offset.
Void           == [shape |-> "void"]
Base(s, k)     == [shape |-> "base", name |-> s, size |-> k]
Pointer(j)     == [shape |-> "pointer", to |-> j]
Const(j)       == [shape |-> "const", to |-> j]
Typedef(s, j)  == [shape |-> "def", name |-> s, to |-> j]
Array(j, n)    == [shape |-> "array", to |-> j, count |-> n]
Class(s, b, m) == [shape |-> "struct", name |-> s, bases |-> b, members |-> m]
Union(s, m)    == [shape |-> "union", name |-> s, members |-> m]
Enum(s, k)     == [shape |-> "enum", name |-> s, size |-> k]
\* A declaration: the compiler may know the metric of what it declares all the same.
Forward(k, s, metric) == [shape |-> k, name |-> s, declares |-> metric]
\* struct s { char : 3; char : 0; m; char : 2; }
Bits(s, m)     == [shape |-> "bits", name |-> s, members |-> m]

IsForward(sh) == "declares" \in DOMAIN sh

(***************************************************************************)
(* size, alignment, and the size without tail padding: a base class lends  *)
(* its tail padding to what follows, and an empty one takes no room.       *)
(***************************************************************************)
Metric(size, align, data) == [size |-> size, align |-> align, data |-> data]

\* Places `offsets' one after the other from a metric on; `room' is what each takes.
PlacedFrom(metric, offsets, room(_), of(_)) ==
  FoldLeft(LAMBDA acc, j :
             LET at == RoundUp(acc.data, of(j).align)
             IN  [data |-> at + room(of(j)), align |-> Maximum(acc.align, of(j).align),
                  at |-> Append(acc.at, at)],
           metric, offsets)

Start == [data |-> 0, align |-> 1, at |-> <<>>]
BasesOf(sh) == IF sh.shape = "struct" THEN sh.bases ELSE <<>>
PlacedBases(sh, of(_)) == PlacedFrom(Start, BasesOf(sh), LAMBDA m : m.data, of)
PlacedMembers(sh, of(_)) ==
  LET b == PlacedBases(sh, of)
      from == IF sh.shape = "bits" THEN 1 ELSE b.data
  IN  PlacedFrom([b EXCEPT !.data = from, !.at = <<>>], sh.members,
                 LAMBDA m : m.size, of)

\* The metric of a shape, given those of the earlier ones.
MetricOf(sh, M) ==
  LET of(j) == IF j = 0 THEN Metric(1, 1, 1) ELSE M[j]
      p == PlacedMembers(sh, of)
      data == IF sh.shape = "bits" THEN p.data + 1 ELSE p.data
      whole == Maximum(1, RoundUp(data, p.align))
      u == FoldLeft(LAMBDA m, j : Metric(Maximum(m.size, of(j).size),
                                         Maximum(m.align, of(j).align), 0),
                    Metric(1, 1, 0), sh.members)
      usize == RoundUp(u.size, u.align)
  IN  IF IsForward(sh) THEN sh.declares ELSE
      CASE sh.shape \in {"base", "enum"} -> Metric(sh.size, sh.size, sh.size)
        [] sh.shape = "pointer" -> Metric(PointerSize, PointerSize, PointerSize)
        [] sh.shape \in {"const", "def"} -> of(sh.to)
        [] sh.shape = "array" ->
             Metric(of(sh.to).size * sh.count, of(sh.to).align, of(sh.to).size * sh.count)
        [] sh.shape = "union" -> Metric(usize, u.align, usize)
        [] OTHER -> Metric(whole, p.align, data)

Metrics(file) == FoldLeft(LAMBDA M, sh : Append(M, MetricOf(sh, M)), <<>>, file)

-----------------------------------------------------------------------------
Record(k, path, decl, size, ty, count, members, inherits) ==
  [kind |-> k, path |-> path, decl |-> decl, size |-> size, ty |-> ty,
   count |-> count, members |-> members, inherits |-> inherits, variants |-> <<>>,
   bytes |-> None, layout |-> <<>>]

Items(places, offsets, off) ==
  [i \in 1..Len(offsets) |-> [off |-> off + places[i] * BitsPerByte,
                              size |-> None, ty |-> offsets[i]]]

\* What the debug info says of one type.
DebugInfo(file, M, k) ==
  LET sh == file[k]
      of(j) == IF j = 0 THEN Metric(1, 1, 1) ELSE M[j]
      size == M[k].size
      bit(off, n) == <<[off |-> off, size |-> n, ty |-> 0]>>
      mems == Items(PlacedMembers(sh, of).at, sh.members, 0)
      plain(kd, path, sz, ty, n) == Record(kd, path, FALSE, sz, ty, n, <<>>, <<>>)
  IN  IF IsForward(sh) THEN  \* only an opaque enumeration has a size already
        Record(sh.shape, Named(sh.name), TRUE,
               IF sh.shape = "enum" THEN size ELSE None, 0, None, <<>>, <<>>)
      ELSE
      CASE sh.shape \in {"base", "enum"} -> plain(sh.shape, Named(sh.name), sh.size, 0, None)
        [] sh.shape = "pointer" -> plain("pointer", <<>>, PointerSize, sh.to, None)
        [] sh.shape = "const" -> plain("const", <<>>, None, sh.to, None)
        [] sh.shape = "def" -> plain("def", Named(sh.name), None, sh.to, None)
        [] sh.shape = "array" -> plain("array", <<>>, None, sh.to, sh.count)
        [] sh.shape = "void" -> plain("opaque", <<>>, None, 0, None)
        [] sh.shape = "union" ->
             Record("union", Named(sh.name), FALSE, size, 0, None,
                    Items([i \in 1..Len(sh.members) |-> 0], sh.members, 0), <<>>)
        [] sh.shape = "bits" ->
             Record("struct", Named(sh.name), FALSE, size, 0, None,
                    bit(0, 3) \o mems \o bit((M[k].data - 1) * BitsPerByte, 2), <<>>)
        [] OTHER ->
             Record("struct", Named(sh.name), FALSE, size, 0, None, mems,
                    Items(PlacedBases(sh, of).at, sh.bases, 0))

\* The types of several files of the same length, with what the parser answers.
Compile(files) ==
  LET M == [f \in 1..Len(files) |-> Metrics(files[f])]
  IN  Measured([t \in (1..Len(files)) \X (0..Len(files[1])) |->
        IF t[2] = 0 THEN Record("opaque", <<>>, FALSE, 0, 0, None, <<>>, <<>>)
        ELSE DebugInfo(files[t[1]], M[t[1]], t[2])])
=============================================================================
