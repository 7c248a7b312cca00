------------------------------- MODULE TypeDb -------------------------------
(***************************************************************************)
(* The first half of main(): one pass over the types of every input file,  *)
(* in the order of the files but, the types of a file being in a HashMap,  *)
(* in no particular order within one.  It collects the types the user      *)
(* asked for (`dest') and an index of the named types (`typeDb') in which  *)
(* a declaration is looked up later.                                       *)
(***************************************************************************)
EXTENDS Types

VARIABLES types, typeDb, dest,
          asked,  \* Args::dest, qualified names split into their parts
          left    \* the offsets of each file not visited yet

\* TypeName::try_from: which types have a TypeName, possibly an anonymous one.
HasTypeName(t) == types[t].kind \in {"base", "def", "struct", "union", "enum"}

\* Type::is_anon: a struct or union without a name, or inside a type without one.
\* Anonymous namespaces and functions do not count.
IsAnon(t) ==
  LET path == types[t].path
  IN  /\ types[t].kind \in {"struct", "union"}
      /\ \E k \in 1..Len(path) :
           /\ path[k].text = ""
           /\ \A j \in k..(Len(path) - 1) : path[j].scope = "type"

StartsWith(text, prefix) ==
  Len(prefix) <= Len(text) /\ SubSeq(text, 1, Len(prefix)) = prefix

\* TypeName::ends_with: the asked name is a suffix of the qualified name, except
\* that the type's own name need only start with what was asked.
EndsWith(path, query) ==
  \/ query = <<>>
  \/ /\ Len(query) <= Len(path)
     /\ path[Len(path)].text # ""
     /\ StartsWith(path[Len(path)].text, query[Len(query)])
     /\ \A k \in 1..(Len(query) - 1) :
          path[Len(path) - k].text = query[Len(query) - k]

IsDest(t) == \E a \in asked : EndsWith(types[t].path, a)

Indexed(t) == HasTypeName(t) /\ ~types[t].decl

CurrentFile == CHOOSE f \in Inputs :
                 left[f] # {} /\ \A g \in Inputs : g < f => left[g] = {}

\* HashMap::insert: what was found by the name before is forgotten.
Inserted(db, name, t) ==
  [n \in DOMAIN db \union {name} |-> IF n = name THEN t ELSE db[n]]

\* Mutant: the first definition of a name is kept, as or_insert would.
VisitKeepsFirst ==
  /\ \E f \in Inputs : left[f] # {}
  /\ \E off \in left[CurrentFile] :
       LET t == <<CurrentFile, off>>
       IN  /\ left' = [left EXCEPT ![CurrentFile] = @ \ {off}]
           /\ dest' = IF Indexed(t) /\ IsDest(t) THEN Append(dest, t) ELSE dest
           /\ typeDb' = IF Indexed(t) /\ ~IsAnon(t)
                        THEN typeDb @@ (types[t].path :> t) ELSE typeDb
  /\ UNCHANGED <<types, asked>>

\* Mutant: a type asked for is left out if its name is indexed already.
VisitSkipsKnown ==
  /\ \E f \in Inputs : left[f] # {}
  /\ \E off \in left[CurrentFile] :
       LET t == <<CurrentFile, off>>
       IN  /\ left' = [left EXCEPT ![CurrentFile] = @ \ {off}]
           /\ dest' = IF Indexed(t) /\ IsDest(t) /\ types[t].path \notin DOMAIN typeDb
                      THEN Append(dest, t) ELSE dest
           /\ typeDb' = IF Indexed(t) /\ ~IsAnon(t)
                        THEN Inserted(typeDb, types[t].path, t) ELSE typeDb
  /\ UNCHANGED <<types, asked>>

Visit ==
  /\ \E f \in Inputs : left[f] # {}
  /\ \E off \in left[CurrentFile] :
       LET t == <<CurrentFile, off>>
       IN  /\ left' = [left EXCEPT ![CurrentFile] = @ \ {off}]
           /\ dest' = IF Indexed(t) /\ IsDest(t) THEN Append(dest, t) ELSE dest
           /\ typeDb' = IF Indexed(t) /\ ~IsAnon(t)
                        THEN Inserted(typeDb, types[t].path, t) ELSE typeDb
  /\ UNCHANGED <<types, asked>>

AllVisited == \A f \in Inputs : left[f] = {}

IndexInit ==
  /\ typeDb = <<>>
  /\ dest = <<>>
  /\ left = [f \in Inputs |-> Offsets]

-----------------------------------------------------------------------------
\* Every definition that has a name can be found by it, and what is found is a
\* definition of that name in the last input that has one.
IndexComplete ==
  AllVisited =>
    /\ \A t \in TypeIndex :
         Indexed(t) /\ ~IsAnon(t) => types[t].path \in DOMAIN typeDb
    /\ \A n \in DOMAIN typeDb :
         /\ types[typeDb[n]].path = n /\ ~types[typeDb[n]].decl
         /\ \A t \in TypeIndex :
              Indexed(t) /\ ~IsAnon(t) /\ types[t].path = n => t[1] <= typeDb[n][1]

\* The destinations are the definitions asked for, each once, in file order.
DestsComplete ==
  AllVisited =>
    /\ ToSet(dest) = {t \in TypeIndex : Indexed(t) /\ IsDest(t)}
    /\ \A i, j \in 1..Len(dest) :
         i < j => dest[i] # dest[j] /\ dest[i][1] <= dest[j][1]
=============================================================================
