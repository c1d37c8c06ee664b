-------------------------- MODULE MCOrchestration --------------------------
(***************************************************************************)
(* Three execs of one correlation and one of another: the backlog reaches  *)
(* a length of two, beside an exec it must not hold up. (An exec without a *)
(* correlation is part of MCEngine's instance.)                            *)
(***************************************************************************)
EXTENDS Orchestration, TLC

CONSTANTS e1, e2, e3, e4, c1, c2

MCExecs == {e1, e2, e3, e4}
MCCorrelations == {c1, c2}
MCCorrelationOf == e1 :> c1 @@ e2 :> c1 @@ e3 :> c1 @@ e4 :> c2
=============================================================================
