-------------------------------- MODULE Walk --------------------------------
(***************************************************************************)
(* What the translation of types promises to whoever asks get_type_info    *)
(* for one: a walk over the types, depth first, which remembers what it    *)
(* found of each and writes the definitions of a type when it leaves it.   *)
(* Which types a type needs, and what is found, is not said here.          *)
(***************************************************************************)
EXTENDS Integers, Sequences

CONSTANTS Node,     \* the types there are
          Pending,  \* what is remembered of a type that is still open
          Restarts  \* TRUE if the walk may start again at a type it has left

VARIABLES open,    \* the types from the one asked for to the current one
          memo,    \* what was found of each type seen
          written  \* the type of each definition in the header

walkVars == <<open, memo, written>>

WalkInit == open = <<>> /\ memo = <<>> /\ written = <<>>

current == open[Len(open)]

\* A type is opened when it is needed for the first time; only a walk that starts
\* anew may come to one that it has left.
Visit(t) ==
  /\ \A i \in 1..Len(open) : open[i] # t
  /\ t \in DOMAIN memo => Restarts /\ open = <<>>
  /\ open' = Append(open, t)
  /\ memo' = [u \in DOMAIN memo \union {t} |-> IF u = t THEN Pending ELSE memo[u]]
  /\ UNCHANGED written

\* At most so many definitions of the current type are added at the end.
WriteUpTo(max) == \E n \in 0..max : written' = written \o [k \in 1..n |-> current]

\* Something or nothing is found of the current type; an array may take two
\* definitions, one of its padded elements.
Leave ==
  /\ open # <<>>
  /\ open' = SubSeq(open, 1, Len(open) - 1)
  /\ \/ memo' = [memo EXCEPT ![current] = memo'[current]]
     \/ UNCHANGED memo
  /\ WriteUpTo(2)

\* The program stops between two definitions of a type.
BreakOff == open # <<>> /\ WriteUpTo(1) /\ UNCHANGED <<open, memo>>

WalkNext == (\E t \in Node : Visit(t)) \/ Leave \/ BreakOff

WalkSpec == WalkInit /\ [][WalkNext]_walkVars
=============================================================================
