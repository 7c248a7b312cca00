------------------------------ MODULE MCDetails ------------------------------
(***************************************************************************)
(* The functions 1, 5 and 9 and what stands in them.  5 inlines 7 and 9    *)
(* inlines 11, which inlines 7.  What is abstracted from what varies, in   *)
(* cycles and to functions that are in no unit too; so do the kinds of the *)
(* entries, whether they stand in a block, and which of them is unreadable.*)
(***************************************************************************)
EXTENDS Details

D(tag, kids, origin, named, placed) ==
  [tag |-> tag, kids |-> kids, origin |-> origin, named |-> named, placed |-> placed,
   bad |-> FALSE]
Missing == 99

Shape(flat, o5, sixth, o7, o9, o11, o12, o13) ==
  <<D("subprogram", IF flat THEN <<2, 3>> ELSE <<4>>, NoDie, TRUE, FALSE),
    D("parameter", <<>>, NoDie, TRUE, FALSE),
    D("variable", <<>>, NoDie, TRUE, FALSE),
    D("block", <<3, 2>>, NoDie, FALSE, FALSE),
    D("subprogram", <<6, 7>>, o5, FALSE, FALSE),
    D(sixth[1], <<>>, sixth[2], sixth[3], TRUE),
    D("inlined", <<8>>, o7, FALSE, FALSE),
    D("variable", <<>>, IF o7 = 1 THEN 3 ELSE NoDie, FALSE, TRUE),
    D("subprogram", IF flat THEN <<13, 11>> ELSE <<10>>, o9, FALSE, FALSE),
    D("block", <<11, 13>>, NoDie, FALSE, FALSE),
    D("inlined", <<12, 7>>, o11, FALSE, FALSE),
    D("parameter", <<>>, o12, FALSE, TRUE),
    D("variable", <<>>, o13, FALSE, TRUE)>>

Sixths == {<<"parameter", 2, TRUE>>, <<"parameter", NoDie, FALSE>>,
           <<"variable", 3, FALSE>>, <<"variable", NoDie, TRUE>>}

Shapes ==
  {Shape(flat, o5, sixth, o7, o9, o11, o12, o13) :
     flat \in BOOLEAN, o5 \in {NoDie, 1, 9}, sixth \in Sixths, o7 \in {1, NoDie},
     o9 \in {NoDie, 1, 5, Missing}, o11 \in {1, 5, 9}, o12 \in {2, NoDie},
     o13 \in {3, 6, NoDie}}

\* An entry is abstracted from one of its own kind that has no origin itself.
Proper(f) ==
  \A d \in DOMAIN f :
    f[d].tag \in {"parameter", "variable"} /\ f[d].origin \in DOMAIN f =>
      f[f[d].origin].tag = f[d].tag /\ f[f[d].origin].origin = NoDie

Spoil(f, b) == IF b = 0 THEN f ELSE [f EXCEPT ![b].bad = TRUE]

MCTrees ==
  {[die |-> Spoil(f, b), asked |-> 9] : f \in {g \in Shapes : Proper(g)}, b \in {0, 6, 8}}
=============================================================================
