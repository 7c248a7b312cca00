----------------------------- MODULE MCFindings -----------------------------
(***************************************************************************)
(* The programs that break what the source or its documentation says, one  *)
(* input each.  Every one is a file that a C++ compiler writes.            *)
(***************************************************************************)
EXTENDS Translator
C == INSTANCE Compiler

Given(file, dests) ==
  {[types |-> C!Compile(<<file>>), typeDb |-> <<>>, dest |-> dests]}

\* struct E {};  struct S : E { char c; };
EmptyBase ==
  Given(<<C!Base("char", 1), C!Class("E", <<>>, <<>>), C!Class("S", <<2>>, <<1>>)>>,
        <<<<1, 3>>>>)

\* struct Node { const Node *next; };
Cycle ==
  Given(<<C!Pointer(3), C!Class("Node", <<>>, <<1>>), C!Const(2)>>, <<<<1, 2>>>>)
=============================================================================
