------------------------------ MODULE Answers -------------------------------
(***************************************************************************)
(* What the details that a client gets say of what is inlined in what.     *)
(***************************************************************************)
EXTENDS Details

\* The details of a function and of all that is inlined in it.  What is inlined at
\* a depth was parsed by as many calls in each other, of which there are MaxCalls.
Parts(details) ==
  LET level[n \in 0..MaxCalls] ==
        IF n = 0 THEN {details}
        ELSE UNION {{p.inlined[k].details : k \in DOMAIN p.inlined} : p \in level[n - 1]}
  IN  UNION {level[n] : n \in 0..MaxCalls}

\* Every parameter and variable of a function, of what it was abstracted from and of
\* what is inlined in it, is in the list of its own instance once, with its own name
\* where it has one and with the locations of that instance and no other's.
EntriesMerged ==
  outcome = "done" => \A p \in Parts(answer) : AccountsFor(p)

\* An error in one function empties what is fetched of it as a whole: what the client
\* gets has every function that is inlined in it, and of an origin all or nothing.
HasInlined(details) ==
  LET f == details.chain[Len(details.chain)]
      from == IF die[f].tag = "inlined" THEN {f} ELSE ToSet(details.chain)
  IN  {details.inlined[k].at : k \in DOMAIN details.inlined}
        = UNION {Own(d, "inlined") : d \in from}
AllOrNothing ==
  outcome = "done" /\ answer.chain # <<>> => \A p \in Parts(answer) : HasInlined(p)
=============================================================================
