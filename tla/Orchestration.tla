--------------------------- MODULE Orchestration ---------------------------
(***************************************************************************)
(* The orchestration service: execs that share a correlation run one after *)
(* the other. The first planned exec of a correlation is scheduled and is  *)
(* "in flight" until its completion (or failure) event is handled; the     *)
(* ones planned meanwhile wait in the correlation's backlog.               *)
(*                                                                         *)
(* The entry points hold the service's lock, so each is one step. They are *)
(* PlannedHandled and FinishedHandled below; Next adds the environment the *)
(* service is written for: execs advance through the repository, and the   *)
(* planned and the last event of every exec is handled once. Module Engine *)
(* replaces that environment by the event log, the threads and the runner. *)
(***************************************************************************)
EXTENDS Integers, Sequences

CONSTANTS
  Execs,
  Correlations,
  NoCorrelation,   \* an exec invoked without a correlation id
  NoExec,
  CorrelationOf    \* the correlation an exec was planned with

ASSUME CorrelationOfAssumption ==
  CorrelationOf \in [Execs -> Correlations \cup {NoCorrelation}]
ASSUME NoCorrelationAssumption == NoCorrelation \notin Correlations
ASSUME NoExecAssumption == NoExec \notin Execs

VARIABLES
  status,      \* the exec repository, as ExecLifecycle sees it
  inflight,    \* the exec a correlation is in flight with, or NoExec
  backlog,     \* the planned execs of a correlation that wait
  execs,       \* the execs the service knows to be scheduled or further
  arrivals,    \* history: how many execs' planned event has been handled
  arrival,     \* history: arrival[e] = n, that of e was the n-th; 0 if not yet
  settled      \* history: the execs whose last event has been handled

service == <<inflight, backlog, execs>>
history == <<arrivals, arrival, settled>>
vars == <<status, service, history>>

Lifecycle == INSTANCE ExecLifecycle

Init ==
  /\ Lifecycle!Init
  /\ inflight = [c \in Correlations |-> NoExec]
  /\ backlog  = [c \in Correlations |-> <<>>]
  /\ execs    = {}
  /\ arrivals = 0
  /\ arrival  = [e \in Execs |-> 0]
  /\ settled  = {}
-----------------------------------------------------------------------------
\* scheduleExec(e), called with the finished exec it replaces, if any. When e
\* is not planned any more the repository throws and execs is not updated, but
\* what the caller did to inflight and backlog before stays done.
ScheduleExec(e, finished) ==
  \/ /\ Lifecycle!Schedule(e)
     /\ execs' = execs \cup {e} \cup finished
  \/ /\ status[e] # "Planned"
     /\ UNCHANGED <<status, execs>>

\* Mutant: nobody looks whether the correlation is in flight.
ScheduleAlways(e) ==
  /\ inflight' = [c \in Correlations |-> IF c = CorrelationOf[e] THEN e ELSE inflight[c]]
  /\ ScheduleExec(e, {})
  /\ UNCHANGED backlog

\* Mutant: the backlog is a stack.
ScheduleStacked(e) ==
  LET c == CorrelationOf[e] IN
  /\ c \in Correlations
  /\ IF inflight[c] = NoExec
     THEN /\ inflight' = [inflight EXCEPT ![c] = e]
          /\ ScheduleExec(e, {})
          /\ UNCHANGED backlog
     ELSE /\ backlog' = [backlog EXCEPT ![c] = <<e>> \o @]
          /\ UNCHANGED <<status, inflight, execs>>

\* OrchestrationService.schedule
Schedule(e) ==
  LET c == CorrelationOf[e] IN
  \/ /\ c = NoCorrelation
     /\ ScheduleExec(e, {})
     /\ UNCHANGED <<inflight, backlog>>
  \/ /\ c \in Correlations
     /\ inflight[c] = NoExec
     /\ inflight' = [inflight EXCEPT ![c] = e]
     /\ ScheduleExec(e, {})
     /\ UNCHANGED backlog
  \/ /\ c \in Correlations
     /\ inflight[c] # NoExec
     /\ backlog' = [backlog EXCEPT ![c] = Append(@, e)]
     /\ UNCHANGED <<status, inflight, execs>>

\* Mutant: the correlation is released and its backlog forgotten.
FinishForgets(e) ==
  /\ inflight' = [inflight EXCEPT ![CorrelationOf[e]] = NoExec]
  /\ execs' = execs \cup {e}
  /\ UNCHANGED <<status, backlog>>

\* Mutant: the correlation is not released.
FinishKeeps(e) ==
  /\ execs' = execs \cup {e}
  /\ UNCHANGED <<status, inflight, backlog>>

\* Mutant: what the correlation is in flight with now is noted, if anything.
FinishNotesNext(e) ==
  /\ inflight' = [inflight EXCEPT ![CorrelationOf[e]] = NoExec]
  /\ execs' = execs \cup {inflight'[CorrelationOf[e]]}
  /\ UNCHANGED <<status, backlog>>

\* OrchestrationService.completed and .failed, which do the same: the
\* correlation is released, whoever holds it, and passed to the next in line.
Finish(e) ==
  LET c == CorrelationOf[e] IN
  \/ /\ c = NoCorrelation
     /\ execs' = execs \cup {e}
     /\ UNCHANGED <<status, inflight, backlog>>
  \/ /\ c \in Correlations
     /\ backlog[c] = <<>>
     /\ inflight' = [inflight EXCEPT ![c] = NoExec]
     /\ execs' = execs \cup {e}
     /\ UNCHANGED <<status, backlog>>
  \/ /\ c \in Correlations
     /\ backlog[c] # <<>>
     /\ inflight' = [inflight EXCEPT ![c] = Head(backlog[c])]
     /\ backlog'  = [backlog EXCEPT ![c] = Tail(@)]
     /\ ScheduleExec(Head(backlog[c]), {e})

\* ExecPlannedHandler and ExecCompletedHandler / ExecFailedHandler call the
\* service; the history notes the order.
PlannedHandled(e) ==
  /\ Schedule(e)
  /\ arrivals' = arrivals + 1
  /\ arrival' = [arrival EXCEPT ![e] = arrivals + 1]
  /\ UNCHANGED settled

FinishedHandled(e) ==
  /\ Finish(e)
  /\ settled' = settled \cup {e}
  /\ UNCHANGED <<arrivals, arrival>>

\* The repository moves an exec without the service.
Progress(e) ==
  /\ \/ Lifecycle!Plan(e)
     \/ Lifecycle!Queue(e)
     \/ Lifecycle!Start(e)
     \/ Lifecycle!Complete(e)
     \/ Lifecycle!Fail(e)
  /\ UNCHANGED <<service, history>>

Next ==
  \E e \in Execs :
    \/ Progress(e)
    \/ status[e] # "Absent" /\ arrival[e] = 0 /\ PlannedHandled(e)
    \/ status[e] \in Lifecycle!Terminal /\ e \notin settled /\ FinishedHandled(e)

Spec == Init /\ [][Next]_vars

\* Every event is handled and every exec goes on: what the threads of the
\* backend and a runner do as long as none of them stops.
FairSpec ==
  /\ Spec
  /\ \A e \in Execs :
       /\ WF_vars(arrival[e] = 0 /\ status[e] # "Absent" /\ PlannedHandled(e))
       /\ WF_vars(e \notin settled /\ status[e] \in Lifecycle!Terminal
                   /\ FinishedHandled(e))
       /\ WF_vars(status[e] # "Absent" /\ Progress(e))
-----------------------------------------------------------------------------
Correlated(e, f) ==
  CorrelationOf[e] = CorrelationOf[f] /\ CorrelationOf[e] \in Correlations

InBacklog(e) ==
  \E i \in DOMAIN backlog[CorrelationOf[e]] : backlog[CorrelationOf[e]][i] = e

\* Every variable has its type: the service's books only ever name execs.
TypeOK ==
  /\ status \in [Execs -> Lifecycle!Statuses]
  /\ inflight \in [Correlations -> Execs \cup {NoExec}]
  /\ backlog \in [Correlations -> Seq(Execs)]
  /\ execs \subseteq Execs
  /\ arrivals \in Nat
  /\ arrival \in [Execs -> Nat]
  /\ settled \subseteq Execs

\* Execs of a correlation run strictly one after the other, in the order their
\* planned events were handled: one that has left Planned has all its elders
\* finished, and their last events handled. No two are ever in flight at once.
SerialInOrder ==
  \A e, f \in Execs :
    /\ Correlated(e, f)
    /\ 0 < arrival[e] /\ arrival[e] < arrival[f]
    /\ status[f] # "Planned"
    => e \in settled

\* A planned exec the service knows of is never stranded: it waits in its own
\* correlation's backlog, behind an exec whose last event is still to come.
NoneStranded ==
  \A e \in Execs :
    arrival[e] # 0 /\ status[e] = "Planned"
      => LET c == CorrelationOf[e] IN
         /\ c \in Correlations
         /\ InBacklog(e)
         /\ inflight[c] \in Execs \ settled

\* The service's books agree with the repository: `execs` are the execs that
\* are scheduled or further, and `inflight` names, for each correlation, the one
\* exec under way, from its scheduling to the handling of its last event.
BooksExact ==
  /\ execs = {e \in Execs : status[e] \notin {"Absent", "Planned"}}
  /\ \A e \in Execs : CorrelationOf[e] \in Correlations =>
       (inflight[CorrelationOf[e]] = e <=> e \in execs \ settled)

\* Every planned exec is eventually finished and settled, however many of its
\* correlation wait before it: the backlog always drains.
AllSettle == \A e \in Execs : status[e] # "Absent" ~> e \in settled
=============================================================================
