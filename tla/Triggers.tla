------------------------------ MODULE Triggers ------------------------------
(***************************************************************************)
(* Topics and triggers: requests create topics and triggers, switch and    *)
(* delete them and append events; event triggers follow a topic and fixed  *)
(* rate triggers a clock, and each invokes its function by a request.      *)
(*                                                                         *)
(* The invoker's batches, the handlers of internal events and the tasks of *)
(* all triggers run on the worker pool, which is one thread; the scheduler *)
(* thread moves the TriggerCreated events to it. A step is one call into a *)
(* repository, the log or a queue. The repositories are the sqlite ones:   *)
(* they survive Crash, tasks and queues do not. Functions and their code   *)
(* exist for good, names are unique, and a fixed rate is a second or more. *)
(***************************************************************************)
EXTENDS LogBrokerSqlite, FiniteSets

CONSTANTS
  Topics,          \* names of user topics
  CreatedTopic,    \* the internal topic of the TriggerCreated events
  EventTriggers, FixedRates,
  EventService,    \* the consumer of CreatedTopic
  Requests,        \* the requests that may be made, each once
  TopicsBefore,    \* those that made topics and triggers in an earlier life
  TriggersBefore,  \* of the database; the triggers in the order of the log
  BatchLimit,      \* how many requests the invoker takes (Limit(10))
  MaxWaiting,      \* bound on the submitted requests at a time
  MaxCrashes,      \* bound on restarts
  MaxTicks         \* bound on the invocations by fixed rate triggers

Triggers == EventTriggers \cup FixedRates

ASSUME TopicsAssumption ==
  /\ LogTopics = Topics \cup {CreatedTopic} /\ CreatedTopic \notin Topics
  /\ Consumers = EventTriggers \cup {EventService} /\ EventService \notin EventTriggers
  /\ Follows[EventService] = CreatedTopic
  /\ \A x \in EventTriggers : Follows[x] \in Topics

\* FixedRateTriggerService.setup looks at the ten newest triggers only.
ASSUME TriggersAssumption ==
  IsFiniteSet(Triggers) /\ Cardinality(Triggers) <= 10 /\ EventTriggers \cap FixedRates = {}

ASSUME RequestsAssumption ==
  \A r \in Requests :
    /\ r.kind = "createTopic" => r.topic \in Topics
    /\ r.kind \in {"createTrigger", "setStatus", "delete"} => r.trigger \in Triggers
    /\ r.kind = "setStatus" => r.to \in {"Active", "Inactive"}
    /\ r.kind \in {"append", "complete"} => r.topics \in Seq(Topics)
    /\ r.kind = "append" => Len(r.topics) = 1

\* The adapter gives every trigger it makes a request for an id of its own.
ASSUME CreationsAssumption ==
  \A r, q \in Requests :
    r.kind = "createTrigger" /\ q.kind = "createTrigger" /\ r.trigger = q.trigger => r = q

ASSUME BeforeAssumption ==
  /\ TopicsBefore \subseteq {r \in Requests : r.kind = "createTopic"}
  /\ TriggersBefore \in Seq({r \in Requests : r.kind = "createTrigger"})
  /\ \A i, j \in DOMAIN TriggersBefore : TriggersBefore[i] = TriggersBefore[j] => i = j

ASSUME BoundsAssumption ==
  /\ BatchLimit \in Nat \ {0} /\ MaxWaiting \in Nat
  /\ MaxCrashes \in Nat /\ MaxTicks \in Nat

VARIABLES
  phase,      \* of the process: "down", "refreshed" (the context), "ready"
  known,      \* the topics of the topic repository
  trigger,    \* trigger[x]: its status in the current projection, or "None"
  reqStatus,
  batch,      \* the requests the invoker has taken and not answered
  worker,     \* the call the worker thread is about to make
  pool,       \* the TriggerCreated events waiting for it
  handing,    \* the id of the event handed over and not committed
  polling,    \* the event triggers whose polling is scheduled
  schedules,  \* schedules[x]: how many tasks invoke the fixed rate trigger x
  invoked,    \* invoked[x]: the events an event trigger made requests for
  ticks,      \* the requests made by fixed rate triggers
  crashes

stored == <<known, trigger, reqStatus>>
tasks  == <<polling, schedules>>
made   == <<invoked, ticks>>
vars == <<broker, stored, phase, batch, worker, pool, handing, tasks, made, crashes>>

Idle == [at |-> "idle"]
None == {}

HandledBefore(r) ==
  r \in TopicsBefore \/ \E i \in DOMAIN TriggersBefore : TriggersBefore[i] = r

Init ==
  /\ InitBroker([t \in LogTopics |->
       IF t # CreatedTopic THEN <<>>
       ELSE [i \in DOMAIN TriggersBefore |-> <<TriggersBefore[i], TriggersBefore[i].trigger>>]])
  /\ phase     = "down"
  /\ known     = {r.topic : r \in TopicsBefore}
  /\ trigger   = [x \in Triggers |->
                   IF \E i \in DOMAIN TriggersBefore : TriggersBefore[i].trigger = x
                   THEN "Active" ELSE "None"]
  /\ reqStatus = [r \in Requests |-> IF HandledBefore(r) THEN "Completed" ELSE "None"]
  /\ batch     = {}
  /\ worker    = Idle
  /\ pool      = <<>>
  /\ handing   = None
  /\ polling   = {}
  /\ schedules = [x \in FixedRates |-> 0]
  /\ invoked   = [x \in EventTriggers |-> <<>>]
  /\ ticks     = 0
  /\ crashes   = 0

Exists(x) == trigger[x] \in {"Active", "Inactive"}
-----------------------------------------------------------------------------
\* The process starts: FixedRateTriggerService.setup before the context is
\* refreshed and the invoker starts ...

\* Mutant: what was scheduled before the restart is not scheduled again.
SetupNothing ==
  /\ phase = "down"
  /\ phase' = "refreshed"
  /\ UNCHANGED <<broker, stored, batch, worker, pool, handing, tasks, made, crashes>>

Setup ==
  /\ phase = "down"
  /\ phase' = "refreshed"
  /\ schedules' = [x \in FixedRates |-> IF trigger[x] = "Active" THEN 1 ELSE 0]
  /\ UNCHANGED <<broker, stored, batch, worker, pool, handing, polling, made, crashes>>

\* ... and EventTriggerService.onApplicationEvent once the application is ready:
\* the triggers there are now, active or not, and none that comes later.
Ready ==
  /\ phase = "refreshed"
  /\ phase' = "ready"
  /\ polling' = {x \in EventTriggers : Exists(x)}
  /\ UNCHANGED <<broker, stored, batch, worker, pool, handing, schedules, made, crashes>>

Crash ==
  /\ phase # "down"
  /\ crashes < MaxCrashes
  /\ phase' = "down"
  /\ batch' = {} /\ worker' = Idle /\ pool' = <<>> /\ handing' = None
  /\ polling' = {}
  /\ schedules' = [x \in FixedRates |-> 0]
  /\ crashes' = crashes + 1
  /\ UNCHANGED <<broker, stored, made>>
-----------------------------------------------------------------------------
\* The adapters: a request is made for what exists.
Submitted == {r \in Requests : reqStatus[r] = "Submitted"}

Submit(r) ==
  /\ phase = "ready"
  /\ reqStatus[r] = "None"
  /\ Cardinality(Submitted) < MaxWaiting
  /\ r.kind = "createTrigger" /\ r.trigger \in EventTriggers => Follows[r.trigger] \in known
  /\ r.kind \in {"setStatus", "delete"} => Exists(r.trigger)
  /\ r.kind = "append" => r.topics[1] \in known
  /\ reqStatus' = [reqStatus EXCEPT ![r] = "Submitted"]
  /\ UNCHANGED <<broker, known, trigger, phase, batch, worker, pool, handing, tasks,
                 made, crashes>>

WorkerFree == phase # "down" /\ worker = Idle /\ batch = {}

\* next(Limit(10)): some of the submitted requests, in no promised order.
TakeBatch ==
  /\ WorkerFree
  /\ Submitted # {}
  /\ \E B \in SUBSET Submitted :
       /\ Cardinality(B) <= BatchLimit
       /\ Cardinality(B) < BatchLimit => B = Submitted
       /\ batch' = B
       /\ reqStatus' = [r \in Requests |-> IF r \in B THEN "Processing" ELSE reqStatus[r]]
  /\ UNCHANGED <<broker, known, trigger, phase, worker, pool, handing, tasks, made, crashes>>

\* One of the batch after the other is handled.
Begin(r) ==
  /\ worker = Idle
  /\ worker' = [at |-> "handle", req |-> r, n |-> 1]
  /\ UNCHANGED <<broker, stored, phase, batch, pool, handing, tasks, made, crashes>>

\* Mutant: the request answered is taken for one of the batch still.
AnswerKeeps(r, outcome) ==
  /\ reqStatus' = [reqStatus EXCEPT ![r] = outcome]
  /\ UNCHANGED batch
  /\ worker' = Idle

Answer(r, outcome) ==
  /\ reqStatus' = [reqStatus EXCEPT ![r] = outcome]
  /\ batch' = batch \ {r}
  /\ worker' = Idle

Goto(next) == worker' = [worker EXCEPT !.at = next]

Handling(r, call) ==
  /\ worker.at = call
  /\ r = worker.req
  /\ UNCHANGED <<phase, pool, handing, tasks, made, crashes>>

\* The handler throws, the request is failed.
Refuse(r) ==
  /\ Handling(r, "handle")
  /\ \/ r.kind = "createTopic" /\ r.topic \in known
     \/ r.kind = "createTrigger" /\ r.trigger \in EventTriggers
        /\ Follows[r.trigger] \notin known
     \/ r.kind = "delete" /\ ~Exists(r.trigger)
     \/ r.kind = "append" /\ r.topics[1] \notin known
  /\ Answer(r, "Failed")
  /\ UNCHANGED <<broker, known, trigger>>

\* TopicCreateHandler: the topic's record and name, and its row in the broker.
CreateTopic(r) ==
  /\ Handling(r, "handle")
  /\ r.kind = "createTopic"
  /\ r.topic \notin known
  /\ known' = known \cup {r.topic}
  /\ Goto("ack")
  /\ UNCHANGED <<broker, trigger, reqStatus, batch>>

\* TriggerCreateHandler, with the topic of an event trigger looked up first.
CreateTrigger(r) ==
  /\ Handling(r, "handle")
  /\ r.kind = "createTrigger"
  /\ r.trigger \in EventTriggers => Follows[r.trigger] \in known
  /\ trigger' = [trigger EXCEPT ![r.trigger] = "Active"]
  /\ Goto("emitCreated")
  /\ UNCHANGED <<broker, known, reqStatus, batch>>

EmitCreated(r) ==
  /\ Handling(r, "emitCreated")
  /\ AppendEvent(r, CreatedTopic, r.trigger)
  /\ Goto("ack")
  /\ UNCHANGED <<stored, batch>>

\* TriggerSetStatusHandler: set looks at no record before it stores its own and
\* projects the result; a trigger deleted since the request was made is back.
\* (The event of it and the one of a deletion have no handler: not modelled.)
SetStatus(r) ==
  /\ Handling(r, "handle")
  /\ r.kind = "setStatus"
  /\ trigger' = [trigger EXCEPT ![r.trigger] = r.to]
  /\ Goto("ack")
  /\ UNCHANGED <<broker, known, reqStatus, batch>>

Delete(r) ==
  /\ Handling(r, "handle")
  /\ r.kind = "delete"
  /\ Exists(r.trigger)
  /\ trigger' = [trigger EXCEPT ![r.trigger] = "Deleted"]
  /\ Goto("ack")
  /\ UNCHANGED <<broker, known, reqStatus, batch>>

\* AppendToHandler, and ExecCompleteHandler.appendEvents: for one event after
\* the other the topic is found or made ...
Publishes(r) == r.kind \in {"append", "complete"}

MakeTopic(r) ==
  /\ Handling(r, "handle")
  /\ r.kind = "complete" /\ worker.n <= Len(r.topics)
  /\ r.topics[worker.n] \notin known
  /\ known' = known \cup {r.topics[worker.n]}
  /\ UNCHANGED <<broker, trigger, reqStatus, batch, worker>>

\* ... and the event appended, with the command of the request.
Publish(r) ==
  /\ Handling(r, "handle")
  /\ Publishes(r) /\ worker.n <= Len(r.topics)
  /\ r.topics[worker.n] \in known
  /\ AppendEvent(r, r.topics[worker.n], worker.n)
  /\ worker' = [worker EXCEPT !.n = @ + 1]
  /\ UNCHANGED <<stored, batch>>

Ack(r) ==
  /\ \/ Handling(r, "ack")
     \/ Handling(r, "handle") /\ Publishes(r) /\ worker.n > Len(r.topics)
  /\ Answer(r, "Completed")
  /\ UNCHANGED <<broker, known, trigger>>
-----------------------------------------------------------------------------
\* InternalEventService: the scheduler thread hands a TriggerCreated event to
\* the worker pool and commits it.
HandOver ==
  /\ phase = "ready"
  /\ handing = None
  /\ \E k \in DOMAIN events[CreatedTopic] :
       /\ FirstUnread(EventService, k)
       /\ handing' = {events[CreatedTopic][k].id}
       /\ pool' = Append(pool, events[CreatedTopic][k].value)
  /\ UNCHANGED <<broker, stored, phase, batch, worker, tasks, made, crashes>>

CommitHandedOver ==
  /\ \E id \in handing : Commit(EventService, id)
  /\ handing' = None
  /\ UNCHANGED <<stored, phase, batch, worker, pool, tasks, made, crashes>>

\* TriggerCreatedHandler: a fixed rate trigger is scheduled, an event trigger
\* is not.
TriggerCreated ==
  /\ WorkerFree
  /\ pool # <<>>
  /\ pool' = Tail(pool)
  /\ schedules' = [x \in FixedRates |-> IF x = Head(pool) THEN schedules[x] + 1 ELSE schedules[x]]
  /\ UNCHANGED <<broker, stored, phase, batch, worker, handing, polling, made, crashes>>

\* FixedRateTriggerService.requestInvocation: the trigger must exist, whatever
\* its status; otherwise the call throws and the task goes on.
Tick(x) ==
  /\ WorkerFree
  /\ schedules[x] > 0 /\ Exists(x)
  /\ ticks < MaxTicks
  /\ ticks' = ticks + 1
  /\ UNCHANGED <<broker, stored, phase, batch, worker, pool, handing, tasks, invoked, crashes>>

\* The task of an event trigger: consumeBatch of one event, whose request is
\* made if the trigger still exists ...
\* Mutant: only if it is active.
InvokeIfActive(x) ==
  /\ WorkerFree
  /\ x \in polling /\ trigger[x] = "Active"
  /\ \E k \in DOMAIN events[Follows[x]] :
       LET id == events[Follows[x]][k].id IN
       /\ FirstUnread(x, k)
       /\ invoked' = [invoked EXCEPT ![x] = Append(@, id)]
       /\ worker' = [at |-> "commit", consumer |-> x, id |-> id]
  /\ UNCHANGED <<broker, stored, phase, batch, pool, handing, tasks, ticks, crashes>>

Invoke(x) ==
  /\ WorkerFree
  /\ x \in polling /\ Exists(x)
  /\ \E k \in DOMAIN events[Follows[x]] :
       LET id == events[Follows[x]][k].id IN
       /\ FirstUnread(x, k)
       /\ invoked' = [invoked EXCEPT ![x] = Append(@, id)]
       /\ worker' = [at |-> "commit", consumer |-> x, id |-> id]
  /\ UNCHANGED <<broker, stored, phase, batch, pool, handing, tasks, ticks, crashes>>

\* ... and then committed.
CommitInvoked ==
  /\ worker.at = "commit"
  /\ Commit(worker.consumer, worker.id)
  /\ worker' = Idle
  /\ UNCHANGED <<stored, phase, batch, pool, handing, tasks, made, crashes>>
-----------------------------------------------------------------------------
Start == Setup \/ Ready

Handle(r) ==
  \/ Refuse(r) \/ CreateTopic(r) \/ CreateTrigger(r) \/ EmitCreated(r) \/ SetStatus(r)
  \/ Delete(r) \/ MakeTopic(r) \/ Publish(r) \/ Ack(r)

Invoker == TakeBatch \/ \E r \in batch : Begin(r) \/ Handle(r)

InternalEvents == HandOver \/ CommitHandedOver

Next ==
  \/ Start \/ Crash
  \/ \E r \in Requests : Submit(r)
  \/ Invoker
  \/ InternalEvents \/ TriggerCreated
  \/ \E x \in FixedRates : Tick(x)
  \/ \E x \in EventTriggers : Invoke(x)
  \/ CommitInvoked

Spec == Init /\ [][Next]_vars

\* The process is started again and its threads, whichever of them, do not
\* stand still while one has something to do. That is enough: requests and
\* restarts are finitely many, so no task is put off for ever.
Threads ==
  \/ Start \/ Invoker \/ InternalEvents \/ TriggerCreated \/ CommitInvoked
  \/ \E x \in EventTriggers : Invoke(x)

FairSpec == Spec /\ WF_vars(Threads)
-----------------------------------------------------------------------------
\* Every variable has its type, the requests in the hands of the invoker are
\* the Processing ones of its batch, and a process that is down holds nothing.
TypeOK ==
  /\ BrokerTypeOK
  /\ events \in [LogTopics -> Seq([id : Nat, cmd : Requests, value : Nat \cup Triggers])]
  /\ phase \in {"down", "refreshed", "ready"}
  /\ known \subseteq Topics
  /\ trigger \in [Triggers -> {"None", "Active", "Inactive", "Deleted"}]
  /\ reqStatus \in [Requests -> {"None", "Submitted", "Processing", "Completed", "Failed"}]
  /\ batch \subseteq {r \in Requests : reqStatus[r] = "Processing"}
  /\ \/ worker = Idle
     \/ worker \in [at : {"handle", "emitCreated", "ack"}, req : batch, n : Nat \ {0}]
     \/ worker \in [at : {"commit"}, consumer : EventTriggers, id : Nat] /\ batch = {}
  /\ pool \in Seq(Triggers)
  /\ handing \subseteq Nat
  /\ polling \subseteq {x \in EventTriggers : trigger[x] # "None"}
  /\ schedules \in [FixedRates -> Nat]
  /\ invoked \in [EventTriggers -> Seq(Nat)]
  /\ ticks \in 0..MaxTicks /\ crashes \in 0..MaxCrashes
  /\ phase = "down" => /\ batch = {} /\ worker = Idle /\ pool = <<>> /\ handing = None
                       /\ polling = {} /\ \A x \in FixedRates : schedules[x] = 0

\* All events a request publishes carry the command of the request: of those
\* for one topic, a request that is Completed leaves the first in the log, and
\* only that one; a request that was not leaves no other one either.
FirstEventKept ==
  \A r \in {q \in Requests : Publishes(q)}, t \in Topics :
    LET mine == {i \in DOMAIN r.topics : r.topics[i] = t} IN
    /\ \A i \in EventsOf(r, t) : /\ \A j \in mine : events[t][i].value <= j
                                 /\ EventsOf(r, t) = {i}
    /\ reqStatus[r] = "Completed" /\ mine # {} => EventsOf(r, t) # {}

\* An event trigger invokes its function for the events of its topic in the
\* order of the log and leaves none out, across commits, restarts and the ids
\* that dropped rows have spent; only a crash between a request and its commit
\* makes it invoke twice.
Repeats(x) == {i \in DOMAIN invoked[x] : i > 1 /\ invoked[x][i] = invoked[x][i - 1]}

NextInLog(x, i) ==
  LET rows == events[Follows[x]] IN
  \E k \in DOMAIN rows :
    /\ invoked[x][i] = rows[k].id
    /\ \/ i = 1 /\ k = 1
       \/ i > 1 /\ invoked[x][i - 1] = rows[k].id
       \/ i > 1 /\ k > 1 /\ invoked[x][i - 1] = rows[k - 1].id

InvokedInOrder ==
  \A x \in EventTriggers :
    /\ \A i \in DOMAIN invoked[x] : NextInLog(x, i)
    /\ Cardinality(Repeats(x)) <= crashes

\* A fixed rate trigger that nobody switched off is scheduled, by the event of
\* its creation or by the setup of a restart, unless that event has still to be
\* handled; by both only after a restart, and never a third time.
CreationPending(x) ==
  \/ \E i \in DOMAIN pool : pool[i] = x
  \/ \E k \in Unread(EventService) : events[CreatedTopic][k].value = x
  \/ worker.at = "emitCreated" /\ worker.req.trigger = x

FixedRateScheduled ==
  \A x \in FixedRates :
    /\ phase = "ready" /\ trigger[x] = "Active"
       /\ (\A r \in Requests : r.kind = "setStatus" /\ r.trigger = x
                                 => reqStatus[r] \in {"None", "Submitted"})
         => schedules[x] > 0 \/ CreationPending(x)
    /\ schedules[x] <= IF crashes > 0 THEN 2 ELSE 1

CaughtUp(x) ==
  \A k \in DOMAIN events[Follows[x]] :
    \E i \in DOMAIN invoked[x] : invoked[x][i] = events[Follows[x]][k].id

\* A polled trigger catches up with its topic again and again, as long as it is
\* not deleted: whatever failed, was switched off or lost in a restart before,
\* every event is invoked for in the end.
AllInvoked ==
  \A x \in EventTriggers : []<>(x \in polling => trigger[x] = "Deleted" \/ CaughtUp(x))
=============================================================================
