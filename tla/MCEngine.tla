------------------------------ MODULE MCEngine ------------------------------
(***************************************************************************)
(* Two instances of the engine. Whole: two execs of one correlation that   *)
(* clients invoke, and one without a correlation that the code of the      *)
(* first invokes. Chain: two execs of one correlation, of which the code   *)
(* of the first invokes the second, which then has to wait for it.         *)
(***************************************************************************)
EXTENDS Engine, TLC

CONSTANTS e1, e2, e3, c1, r1, r2

MCCorrelations == {c1}

\* Whole: e1 and e2 share c1, the code of e1 invokes e3.
WholeExecs == {e1, e2, e3}
WholeCorrelationOf == e1 :> c1 @@ e2 :> c1 @@ e3 :> NoCorrelation
WholeInvokedBy == e1 :> NoExec @@ e2 :> NoExec @@ e3 :> e1

\* Chain: the code of e1 invokes e2, which then waits for it.
ChainExecs == {e1, e2}
ChainCorrelationOf == e1 :> c1 @@ e2 :> c1
ChainInvokedBy == e1 :> NoExec @@ e2 :> e1
=============================================================================
