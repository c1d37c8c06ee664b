----------------------------- MODULE MCNodeFlow -----------------------------
(***************************************************************************)
(* Node 4 is the one a Decision prunes; three connections make a cycle,    *)
(* wire a port twice, or lead past node 4 to one behind it. Of the types   *)
(* with a compiler only Input with a truth value is not drawn: its program *)
(* is that of Start.                                                       *)
(***************************************************************************)
EXTENDS NodeFlow

MCMenuTypes == {"Start", "Decision", "Print", "Input_String"}

\* Four nodes have three connections if one of them is no Start, and two if two
\* are not; an Input is there with fewer.
MCWeight == [t \in StoredTypes |-> CASE t = "Start" -> 1 [] t = "Input" -> 3 [] OTHER -> 2]
=============================================================================
