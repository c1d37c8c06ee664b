-------------------------- MODULE MCExecRepository --------------------------
(***************************************************************************)
(* Two execs, each call issued under two command ids at most (a retry of   *)
(* one id, or a second caller with an id of its own).                      *)
(***************************************************************************)
EXTENDS ExecRepository
=============================================================================
