---------------------------- MODULE ExecLifecycle ----------------------------
(***************************************************************************)
(* What an execution ("exec") promises, whichever repository stores it: it *)
(* is planned once and then moves forward only,                            *)
(*                                                                         *)
(*   Planned -> Scheduled -> Queued -> Started -> Completed | Failed       *)
(*                                                                         *)
(* The abstract specification of the exec repositories (ExecRepository is  *)
(* shown to implement it) and the store the composed modules build on.     *)
(***************************************************************************)

CONSTANT Execs           \* the exec ids that are ever generated

VARIABLE status          \* status[e]: the ExecStatus of e, "Absent" before plan

Statuses == {"Absent", "Planned", "Scheduled", "Queued", "Started",
             "Completed", "Failed"}

Terminal == {"Completed", "Failed"}

\* Handed over by the orchestration and not finished yet.
InFlight == {"Scheduled", "Queued", "Started"}

Init == status = [e \in Execs |-> "Absent"]

\* One step of the lifecycle: the repository stores a record of kind `to`
\* only for an exec whose current version is of kind `from`.
Advance(e, from, to) ==
  /\ status[e] = from
  /\ status' = [status EXCEPT ![e] = to]

Plan(e)     == Advance(e, "Absent",    "Planned")
Schedule(e) == Advance(e, "Planned",   "Scheduled")
Queue(e)    == Advance(e, "Scheduled", "Queued")
Start(e)    == Advance(e, "Queued",    "Started")
Complete(e) == Advance(e, "Started",   "Completed")
Fail(e)     == Advance(e, "Started",   "Failed")

Next == \E e \in Execs : \/ Plan(e) \/ Schedule(e) \/ Queue(e)
                         \/ Start(e) \/ Complete(e) \/ Fail(e)

Spec == Init /\ [][Next]_status
=============================================================================
