------------------------------- MODULE Idents -------------------------------
(***************************************************************************)
(* The identifiers of the generated header: Printer::alloc_ident of        *)
(* main/src/main.rs.  `used' is Printer::used_idents, a function from the  *)
(* identifiers handed out so far to the number of times each was suffixed; *)
(* `uniq' is the value of ID_GENERATOR.  The generator also numbers paddings*)
(* and placeholders in the code; here it only advances for an anonymous    *)
(* type, because only the distinctness of the numbers matters.             *)
(***************************************************************************)
EXTENDS Types

\* The identifiers of a qualified name, outermost first; none if the type itself
\* has no identifier, and components without one (anonymous) are left out.
NameParts(path) ==
  IF path = <<>> \/ path[Len(path)].ident = "" THEN <<>>
  ELSE LET named == SelectSeq(path, LAMBDA c : c.ident # "")
       IN  [i \in 1..Len(named) |-> named[i].ident]

\* parts[k..].join("_")
JoinFrom(parts, k) ==
  FoldLeft(LAMBDA acc, part : acc \o "_" \o part, parts[k],
           SubSeq(parts, k + 1, Len(parts)))

\* Mutant: the identifier handed out is not recorded.
AllocForgets(used, uniq, path) ==
  LET parts == NameParts(path)
  IN  IF parts = <<>>
      THEN [ident |-> "AnonType" \o ToString(uniq), used |-> used, uniq |-> uniq + 1]
      ELSE [ident |-> parts[Len(parts)], used |-> used, uniq |-> uniq]

\* The shortest qualification not used yet; the full name with a counter when
\* all are used.  A counted identifier is not itself recorded as used.
AllocIdent(used, uniq, path) ==
  LET parts == NameParts(path)
      free  == {k \in 1..Len(parts) : JoinFrom(parts, k) \notin DOMAIN used}
      full  == JoinFrom(parts, 1)
      ident == JoinFrom(parts, CHOOSE k \in free : \A j \in free : j <= k)
  IN  CASE parts = <<>> ->
             [ident |-> "AnonType" \o ToString(uniq),
              used |-> used, uniq |-> uniq + 1]
        [] parts # <<>> /\ free # {} ->
             [ident |-> ident, used |-> (ident :> 0) @@ used, uniq |-> uniq]
        [] OTHER ->
             [ident |-> full \o "_" \o ToString(used[full] + 1),
              used |-> [used EXCEPT ![full] = @ + 1], uniq |-> uniq]

\* A name the translator makes up itself, outside every namespace.
PlainName(s) == <<[text |-> s, ident |-> s, scope |-> "type"]>>
=============================================================================
