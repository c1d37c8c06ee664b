--------------------------- MODULE ExecRepository ---------------------------
(***************************************************************************)
(* The event-sourced exec repository, in its memory and sqlite forms.      *)
(*                                                                         *)
(* Every call appends at most one record to the history of one exec, and   *)
(* keeps two projections of the histories: the current version of every    *)
(* exec, and the queue of execs a runner may start. A call whose command   *)
(* id is already in the history is a retry: it stores nothing and answers  *)
(* with the version the first call produced. Each call runs under the      *)
(* repository's lock (memory) or in one transaction (sqlite): one step.    *)
(***************************************************************************)
EXTENDS Integers, Sequences, FiniteSets

CONSTANTS
  Execs,      \* exec ids; snowflake ids, so numbers in order of generation
  Attempts    \* how often a caller may issue a call: 1 is the first attempt

ASSUME ExecsAssumption == Execs \subseteq Nat
ASSUME AttemptsAssumption == 1 \in Attempts

VARIABLES
  backend,    \* which repository this is: "memory" or "sqlite"; never changes
  records,    \* records[e]: the history of e, oldest record first
  current,    \* the ProjectionCurrent: kind of the stored version of e
  queue       \* the ProjectionQueue, in order of insertion

vars == <<backend, records, current, queue>>

Backends == {"memory", "sqlite"}

Kinds == {"Planned", "Scheduled", "Queued", "Started", "Completed", "Failed"}

\* Command ids are snowflakes minted for one call, so no two operations share
\* one; a retry of a call carries the id of the call it repeats.
CmdIds == Kinds \X Attempts

Record == [kind : Kinds, cmd : CmdIds]

Broken == "broken"     \* the records do not fold to a version: it throws

\* The kinds whose timestamps toDomainObject dereferences for a version.
Needs(kind) == CASE kind = "Planned"   -> {"Planned"}
                 [] kind = "Scheduled" -> {"Planned", "Scheduled"}
                 [] kind = "Queued"    -> {"Planned", "Scheduled", "Queued"}
                 [] OTHER -> {"Planned", "Scheduled", "Queued", "Started", kind}

\* createEntity folds the records, each setting the status and its timestamp;
\* toDomainObject then needs a first Planned record and every timestamp on the
\* way to the last status.
CreateDomainObject(recs) ==
  IF /\ recs # <<>>
     /\ recs[1].kind = "Planned"
     /\ Needs(recs[Len(recs)].kind) \subseteq {recs[i].kind : i \in DOMAIN recs}
  THEN recs[Len(recs)].kind
  ELSE Broken

\* Mutant: retries are not recognised.
NeverApplied(cmd, e) == FALSE

CommandAlreadyApplied(cmd, e) ==
  \E i \in DOMAIN records[e] : records[e][i].cmd = cmd

\* Mutant: takeWhile instead of takeWhileInclusive.
UpToExclusive(recs, cmd) ==
  SubSeq(recs, 1, (CHOOSE i \in DOMAIN recs :
                     /\ recs[i].cmd = cmd
                     /\ \A j \in 1..(i - 1) : recs[j].cmd # cmd) - 1)

\* takeWhileInclusive { it.cmdId != cmdId }: up to the first record of cmd.
UpTo(recs, cmd) ==
  SubSeq(recs, 1, CHOOSE i \in DOMAIN recs :
                    /\ recs[i].cmd = cmd
                    /\ \A j \in 1..(i - 1) : recs[j].cmd # cmd)

VersionOf(recs, cmd) == CreateDomainObject(UpTo(recs, cmd))

CurrentVersion(recs) ==
  IF recs = <<>> THEN "Absent" ELSE VersionOf(recs, recs[Len(recs)].cmd)
-----------------------------------------------------------------------------
Init ==
  /\ backend \in Backends
  /\ records = [e \in Execs |-> <<>>]
  /\ current = [e \in Execs |-> "Absent"]
  /\ queue   = <<>>

\* Store a record of this kind, and bring the current projection up to date.
\* In every other case a call stores nothing: when the history holds the
\* command it answers VersionOf(records[e], cmd), and when the exec is not in
\* the state the call requires it throws.
Store(e, kind, cmd) ==
  LET recs == Append(records[e], [kind |-> kind, cmd |-> cmd])
  IN  /\ ~CommandAlreadyApplied(cmd, e)
      /\ records' = [records EXCEPT ![e] = recs]
      /\ current' = [current EXCEPT ![e] = CurrentVersion(recs)]
      /\ UNCHANGED backend

Requires(e, version) == CurrentVersion(records[e]) = version

\* plan has no check of the current version: it relies on a fresh exec id.
Plan(e, cmd) ==
  /\ Store(e, "Planned", cmd)
  /\ UNCHANGED queue

\* Mutant: schedule does not check the current version.
ScheduleUnchecked(e, cmd) ==
  /\ Store(e, "Scheduled", cmd)
  /\ UNCHANGED queue

Schedule(e, cmd) ==
  /\ Requires(e, "Planned")
  /\ Store(e, "Scheduled", cmd)
  /\ UNCHANGED queue

Queue(e, cmd) ==
  /\ Requires(e, "Scheduled")
  /\ Store(e, "Queued", cmd)
  /\ queue' = Append(queue, e)

Complete(e, cmd) ==
  /\ Requires(e, "Started")
  /\ Store(e, "Completed", cmd)
  /\ UNCHANGED queue

Fail(e, cmd) ==
  /\ Requires(e, "Started")
  /\ Store(e, "Failed", cmd)
  /\ UNCHANGED queue

\* queue.removeFirst() (memory) or DELETE ... ORDER BY id LIMIT 1 (sqlite).
IsNext(i) ==
  /\ i \in DOMAIN queue
  /\ IF backend = "memory" THEN i = 1
     ELSE \A j \in DOMAIN queue : queue[i] <= queue[j]

\* Mutant: the oldest entry is deleted, whichever one was read.
RemoveFirst(i) == Tail(queue)

RemoveAt(i) == SubSeq(queue, 1, i - 1) \o SubSeq(queue, i + 1, Len(queue))

\* start pops one exec and starts it. It is not idempotent: called again with
\* the same command id it starts the next exec.
Start(cmd) ==
  \E i \in DOMAIN queue :
    /\ IsNext(i)
    /\ Requires(queue[i], "Queued")
    /\ Store(queue[i], "Started", cmd)
    /\ queue' = RemoveAt(i)
-----------------------------------------------------------------------------
\* Exec ids are generated for one invoke request, whose id is the command id
\* of plan: an exec is only ever planned by its own command.
Next ==
  \/ \E e \in Execs : Plan(e, <<"Planned", 1>>)
  \/ \E e \in Execs, a \in Attempts :
       \/ Schedule(e, <<"Scheduled", a>>)
       \/ Queue(e, <<"Queued", a>>)
       \/ Complete(e, <<"Completed", a>>)
       \/ Fail(e, <<"Failed", a>>)
  \/ \E a \in Attempts : Start(<<"Started", a>>)

Spec == Init /\ [][Next]_vars
-----------------------------------------------------------------------------
\* Every variable has its type: no projection ever stores a history that does
\* not fold to a version, whatever calls are made in whatever order.
TypeOK ==
  /\ backend \in Backends
  /\ records \in [Execs -> Seq(Record)]
  /\ current \in [Execs -> Kinds \cup {"Absent"}]
  /\ queue \in Seq(Execs)

\* The queue holds exactly the execs that find reports as Queued, each once:
\* no exec is lost between queue and start, and none is handed out twice.
QueueProjectionExact ==
  /\ \A e \in Execs : (\E i \in DOMAIN queue : queue[i] = e) <=> current[e] = "Queued"
  /\ \A i, j \in DOMAIN queue : queue[i] = queue[j] => i = j

\* Retrying any command ever applied answers with the version it produced the
\* first time, however far the exec has moved on since. Only start recognises
\* no retry, and answers none.
RetryAnswersFirstVersion ==
  \A e \in Execs : \A i \in DOMAIN records[e] :
    records[e][i].kind # "Started"
      => VersionOf(records[e], records[e][i].cmd) = records[e][i].kind

\* The status of an exec is what find reads.
Abstract == INSTANCE ExecLifecycle WITH status <- current

\* The repository implements the lifecycle: no sequence of calls, retried or
\* out of turn, moves what find reports of an exec other than one step
\* forward, although the calls look at the histories only.
ImplementsLifecycle == Abstract!Spec
=============================================================================
