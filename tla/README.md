# Hamal: TLA+ models and proofs

Hamal runs user functions ("execs") on remote runners. A backend process (Kotlin, Spring) keeps
requests, execs, functions, triggers, an event log, tokens and state, in memory or in sqlite files;
runners poll it through the *bridge* for execs to run and report back; a web front end draws flows of
nodes that a runner compiles and runs. This directory holds TLA+ models of the execution protocol, of
topics and triggers, and of the flow from editor to runner; the TLC configurations that check them on
small instances; and TLAPS proofs for every instance of the modules that are closed enough to be
proved about.

Paths below are relative to `src/platform` unless they start with `app/`: *core* is
`backend/core/src/main/kotlin/io/hamal/core`, *memory*, *sqlite*, *record* and *api* are the
repository modules under `backend/repository`, *common* is
`lib/common/src/main/kotlin/io/hamal/lib/common`. `PROJECT.json` names the exact lines each
definition stands for.

## 1. The system

### Components, their state, and what makes them correct

| Component | State | Operations | Hard part | Correct when | Module |
|---|---|---|---|---|---|
| Exec repository (memory `record/exec`, sqlite `record/exec`, both over `RecordRepository`) | per exec a history of records; projections "current" and "queue" | plan, schedule, queue, start, complete, fail | retries with the same command id; calls out of turn, checked against the history while readers see the projections | what is read of an exec only moves forward; the queue hands each queued exec out once; a retry answers what the first call answered | `ExecRepository`, abstract: `ExecLifecycle` |
| Orchestration service (core `orchestration`) | `inflight` and `backlog` per correlation, `execs` | schedule, completed, failed | events of one correlation arrive in any order; a release that is missed stops the correlation | execs of a correlation run one after the other, in order, and none is left behind | `Orchestration` |
| Request queue and invoker (memory/sqlite `Request.kt`, core `request/RequestInvoker.kt`) | requests with status | queue, next, complete, fail | a taken request is handled in many writes without a transaction | an answer is true | `Engine` |
| Exec request handlers (core `request/handler/exec`) | none of their own | invoke, complete, fail | the order of four or five writes to different stores | state and events are in place before the next exec may run | `Engine` |
| Internal events, scheduler, worker pool (core `event`, `config/AsyncConfig.kt`, `component`) | topics, offsets, the pool's queue | emit, consume, commit, run | handed over before committed, handled after committed | each event handled once, in a possible order, while nothing crashes | `Engine` |
| Bridge and runner (`backend/bridge`, `runner/runner`) | what a runner runs | dequeue, run, complete, fail, invoke | HTTP threads beside the worker thread; answers and reports get lost | a started exec's runner has its token and its correlation's last state | `Engine` |
| Exec tokens (memory/sqlite `Auth.kt`) | tokens by exec | create, find, revoke | created and revoked by event handlers, read by others | a token exists as long as anyone may need it | `Engine` |
| Correlated state (memory/sqlite `State.kt`) | state by correlation | set, find | written by completion, read by dequeue | an exec runs with the last state | `Engine` |
| Memory log broker (memory `log`) | topic repositories, events, consumer offsets | append, consume, commit | two kinds of locks, first use of a topic, plain fields read outside a lock | nothing lost, order kept | `LogBrokerMemory` |
| Snowflake ids (common `snowflake`) | clock, previous call, next sequence | next | exhausted millisecond, clock stepping back | ids grow and never collide | `Snowflake` |
| Sqlite log broker (sqlite `log`) | per topic a table of events, next event id by consumer | append, read, commit | `INSERT OR IGNORE` on a command id, which spends an id; restarts | nothing committed is read again, nothing is left out | `LogBrokerSqlite` |
| Triggers (core `service`, `request/handler/trigger`, sqlite `record/trigger`) | status by trigger; the tasks scheduled for them, in memory | create, set status, delete; setup, poll, invoke | tasks are made by an event, by a start or by both; the request and the commit of an event are two writes | one invocation per event, in order; a fixed rate trigger is scheduled | `Triggers` |
| Topics (core `request/handler/topic`, sqlite `record/topic`) | topics and their log topics | create, append | several events under one command id | the first event of a command is kept | `Triggers` |
| Node editor (`app/nyanbot/src/components/nodes`) | the flow: nodes, ports, controls, connections; the selected node; listeners of drags in flight | add, connect, move, edit | listeners are closures of a render, and actions queue behind renders | the flow is well formed, nothing is overwritten | `NodeEditor` |
| Node compiler (`lib/nodes`), `std.once` (`runner/extension/std/once`) | the program's stack, visited nodes, kept results | compile, visit, call | wires that form cycles, cross or start elsewhere | a node runs once and after its source, the program ends | `FlowRun`, `NodeFlow` |
| Functions, code, deployment (core `request/handler/func`) | functions with a deployed and a current version; code versions | create, update, deploy | two repositories without a transaction | a function names a version that exists | not modelled |
| Concurrency helpers (common `LruCache`, `OnceEvery`, `KeyedOnceEvery`) | cached values, last invocation | find, put, invoke | - | - | not modelled, used by no other code |
| Namespaces, workspaces, accounts, recipes, extensions, feedback, reset | records | create, update | little | - | not modelled |
| HTTP API, security, SDK | none | routing, conversion, access checks | - | - | not modelled |
| SQLite access (`lib/sqlite`) | a connection | transactions | - | one step | taken as one step |
| Web sessions (`app/*/src/hook`) | the token in local storage | login, logout, fetch | an answer for a session that is over | - | not modelled |
| Script runtime (`lib/kua`), plugins, pages of the front ends | - | - | - | - | not modelled |

### How they interact

A client's HTTP thread (or the code of a running exec, through its runner) appends a request. The
request invoker, a periodic task of the worker pool, takes up to ten, authorizes each with the token
of its sender and calls the handler. The handler of an invoke plans the exec and emits
`ExecPlannedEvent` to an internal topic; those of complete and fail finish the exec and emit
`ExecCompletedEvent` or `ExecFailedEvent`. The scheduler thread polls every internal topic, hands each
event to the worker pool and then commits its offset. The worker handles events: a planned exec gets a
token and is given to the orchestration, which schedules it (emitting `ExecScheduledEvent`) or puts it
in the backlog; a scheduled exec is queued; a finished exec releases its correlation and loses its
token. A runner's poll starts the oldest queued execs on the bridge's HTTP thread, which reads state
and token for the answer.

A request that appends to a topic, and an exec that publishes events when it completes, write to the
log of a user topic. An event trigger polls its topic with a task of its own, a fixed rate trigger is
a task of its own, and both make an invoke request, which goes the way of a client's. All these tasks
run on the worker thread too.

In the browser, mouse listeners dispatch actions, React queues them and applies the reducer to one
after the other. Run posts the flow as code of type `Nodes` to the adhoc endpoint; it becomes an exec
like any other, and the runner that gets it compiles it to Lua.

Requests and events share *one* worker thread (`AsyncConfig.kt:27`). Much of what holds below holds
because of this: with two worker threads (the mutant of `StateHandoff`) an exec may run with the
state of the exec before the last.

## 2. The modules

```
ExecLifecycle  <== implements ==  ExecRepository      (TLC and TLAPS)
     ^ INSTANCE
Orchestration  <== implements ==  Engine              (TLC and TLAPS)
     ^ lifecycle and service actions used by Engine
LogBrokerMemory      Snowflake                        (below Engine's log and ids)

LogBrokerSqlite  --EXTENDS->  Triggers
NodeEditor, FlowRun  --EXTENDS->  NodeFlow            (drawn, posted, compiled, run)
```

A module `XProofs` holds the theorems about `X`. `EngineProofs` uses those of `OrchestrationProofs`,
and `NodeFlowProofs` those of `NodeEditorProofs`, as the modules they are about use each other.

**ExecLifecycle** is the abstract specification of an exec store: one status per exec and six steps.
It is the specification `ExecRepository` is shown to implement and the store `Orchestration` and
`Engine` are built on, so what those two show does not depend on how the store is made.

**ExecRepository** has the event-sourced repository itself: `records` are the histories (one record
per stored command), `current` and `queue` the two projections. `CreateDomainObject` is
`createEntity` and `toDomainObject`; `VersionOf` is `versionOf`, with `takeWhileInclusive`;
`Requires` is `check(currentVersion(id) is ...)`. A call whose command is known, or whose check fails,
stores nothing and is no step; what such a retry *answers* is the operator
`VersionOf`, and `RetryAnswersFirstVersion` is about it. `backend` chooses between
`queue.removeFirst()` in memory and `DELETE ... ORDER BY id` in sqlite. A call is one step because the
memory repository holds its lock, and the sqlite one a transaction, from start to end, and nothing
between its writes can fail; what would happen if it did is outside the model. The calls decide by the
histories, `find` reads `current` and the queue's readers `queue`: the refinement to `ExecLifecycle`
and `QueueProjectionExact` are about what is read. `clear` is a
test utility and left out.

**Orchestration** is the service, with its lock held per entry point, under the environment it is
written for: each exec's planned and last event is handled once, in any order, while the execs go on.
`arrivals`, `arrival` and `settled` are history variables. `completed` and `failed` are the same code
and one action.

**Engine** composes everything of the flow above. One step is one call of a handler into a repository,
the log, a queue or the orchestration. `worker[w].at` is the call the worker makes next, and the
actions of a handler follow each other in the order of the source. `Crash` is the death and restart of
the backend on its sqlite files: `durable` survives, the rest is empty, because nothing reads
it back. A crash of the process is meant; the sqlite connection runs with `synchronous = off`, so a
crash of the machine may lose more. Modelling notes:

- emitting `ExecScheduledEvent` happens inside the orchestration's lock; it is a step of its own here
  (`EmitScheduled`). Only the worker thread ever takes that lock, so nobody else can tell.
- `HandOver`/`Commit` is one event of a poll. A poll of several events is a sequence of them; other
  topics in between are interleavings the code does not have and the model includes.
- requests are handled in order of submission. The sqlite repository selects without `ORDER BY`; see
  the hazard list.
- `Dequeue` starts any queued exec. The order is `ExecRepository`'s.
- The identity of an event or a request is that of its exec; payloads are left out. A state value is
  the exec that wrote it.
- `Untidy` turns on what the network and other callers may do: an answer or a report lost, a report
  on any exec from elsewhere, since the bridge does not ask who reports.

**LogBrokerMemory** goes below Engine's `log`: the broker's lock, the `KeyedOnce` that makes a topic's
repository on first use (a double-checked semaphore), and consumers with their offsets. `done` and
`result` are plain fields; a thread that has not been through the semaphore since they were written
may read either as it was (`FastPath`, `SlowPath`, `StaleResult`). The model takes only that semaphore
as a happens-before edge, which is the weaker assumption.

**Snowflake** is the id generator: two numbers of state, a clock that ticks and steps back, and a call
that spins when a millisecond is used up.

**LogBrokerSqlite** is the sqlite broker: rows with ids, the sequence the ids come from, and what each
consumer has committed. Every operation is one statement, so one step. A row the database ignores
still spends its id (`AppendEvent`); that is sqlite's AUTOINCREMENT. It is a module of operators on
its three variables, which `Triggers` uses.

**Triggers** is everything that happens to topics and triggers. `phase` is the start of the process:
`Setup` is `FixedRateTriggerService.setup`, before the context is refreshed, `Ready` is
`EventTriggerService.onApplicationEvent`, once the application is ready. `trigger[x]` is the status in
the current projection; `polling` and `schedules` are the tasks, which `Crash` takes away. `worker` is
the worker thread's next call, as in Engine; `Begin` picks any request of the batch, since sqlite
promises no order. `invoked` and `ticks` are history: the requests triggers made. `SetStatus` on a
trigger deleted in between revives it, as the repository does. Left out: hook, endpoint and cron
triggers; the events of a status change or a deletion, which have no handler; the invoked
functions. `EventTriggers` of the model are followed by one consumer each, with the batch of one
event the code uses.

**NodeEditor** has three layers. `PressNode`, `StartNodeDrag`, `Drag`, `Release` and their siblings are
the mouse with the listeners of `Draggable` and `PortWidget`; they append what the listeners dispatch
to `queue`. `Reduce...` is the reducer, one action of the queue at a time, with the re-render
(`Rerender`). `nodeDrags`, `menuDrags` and `portDrags` are the listeners registered with `window` and
`document`; `fresh` says that no render has come since, so registering again is the same closure. A
press whose release the page does not see (`ReleaseUnseen`) leaves its listeners behind. A throw in
the reducer takes the page down (`alive`), since no error boundary stands above the editor.
`twoDrags` is history. Pixels are left out: a position is the index of the widget that put the node
there. A text is `"plain"` or `"breaking"`, for one that does not fit between the quotes of a Lua
literal.

**FlowRun** is the compiler as operators on a flow (`Compiles`, `StartNode`, `EdgesOf`,
`Functions`), and the compiled program as a machine with the stack of its calls: `visit_node` goes
depth first (`VisitNode`, `FollowEdges`), a node's function goes through `std.once` (`CallNode`,
`UseSource`, `Finish`). Runaway recursion ends as the sandbox ends it, in failure (`CallsItself`).
The breadth-first search is modelled by what it returns: `Reachable` is the least set of nodes that
holds the root and that the connections do not lead out of (`Closed`). "Without a cycle" is said the same way
(`ReadsEnd`): of any nodes that read, one is wired to a node that is not among them.
Of the values only the texts of Start and Input nodes matter, and these once: they are part of the
program's source, unescaped, so a breaking one makes a program that does not load (`Loads`), wherever
its node is. A text that ends the literal and goes on as code of its own would be another program; such
texts are left out.

**NodeFlow** composes it with the editor: a flow is what the reducer made, so only flows that can be
drawn are run.

## 3. What is checked

Run with `tlc -config X.cfg MCY.tla`. Deadlock is checked for the node editor, where a page always
goes on. Elsewhere checking it is off: a system where all execs have ended, nothing is requested, or
a bound is reached, has nothing left to do.

| Run | Instance | Distinct states | Shows |
|---|---|---|---|
| exec_repository | 2 execs, 2 command ids per call, both backends | 4,640 | type, `QueueProjectionExact`, `RetryAnswersFirstVersion`, `ImplementsLifecycle` |
| orchestration | 3 execs of one correlation, 1 of another | 14,400 | `SerialInOrder`, `NoneStranded`, `BooksExact`; `AllSettle` under fairness |
| engine | *Whole*: 2 execs of a correlation and 1 without, invoked by the first; 2 runners | 30,823 | `StateHandoff`, `NoRequestFails`, `ImplementsOrchestration`; `InvokeEnds` under fairness |
| engine_faults | *Chain*: 2 execs of a correlation, the first invokes the second; 1 restart, lost answers and reports, stray reports | 2,830,000 | `TokenLive`, `AnswersAreTrue` across restarts at any step and whatever gets lost |
| engine_restart | *Chain*, 1 restart | violation | `ExecsKnown` fails, finding 1 |
| snowflake | 2 generators, 3 sequence numbers, 3 milliseconds | 9,801 | `Growing`, `Apart` |
| snowflake_back | the same, clock steps back during the spin | violation | `BlocksUntilNext` fails, finding 2 |
| log_broker_memory | 2 appenders of 2 events, 1 consumer polling 2 at a time | 12,035 | `NothingLost`, `SeenInOrder` |
| log_broker_deadlock | the same | violation | `NoCircularWait` fails, finding 3 |
| triggers | 2 topics, an event and a fixed rate trigger, 6 requests, 1 restart | 686,891 | `FirstEventKept`, `InvokedInOrder`, `FixedRateScheduled`; `AllInvoked` under fairness |
| node_editor | 2 nodes, 2 connections, 2 mouse buttons, 2 drags of a kind, the user acting while an action is queued | 1,881,396 | `PortsOwned`, `ConnectionsJoin`, `CrashNeedsTwoDrags`, `DragMovesOwnNode`, `FlowOnlyGrows` |
| node_flow | flows of up to 4 nodes and 3 connections, weighted | 529,755 | `EndsOnce`, `ReadsAfterSource`, `WellWiredNeverFails`, `CompletedRanAll`; `RunEnds` under fairness |

*Why these bounds.* Two command ids are a call and its retry, or two competing callers; two execs are
what the queue needs to hand out the wrong one. Three execs of a correlation give a backlog of
length two, so order in the backlog shows; the fourth must not be held up. In the engine, two execs of
a correlation are enough for one to overtake the other's completion, the third exec shows a request
made by running code against the revocation of its token, and two runners let execs run at once.
`BatchLimit = 2` (10 in the code) makes batches that are full, not full and left over.
One restart
loses whatever is in memory at any step; the faults of the network go on after it. Three sequence numbers and three
milliseconds exhaust each millisecond. Two appenders of two events make every race for a topic's
first use and polls that start, continue and end at each position of the log.

In the triggers run an exec publishes to one topic twice and to another one that may have to be made,
so a row is dropped, its id is spent and the next event, a client's, lies behind the gap. The event
trigger is there from an earlier life of the database, the fixed rate trigger is created now, so the
one restart meets both ways a task comes about. A batch of one request makes every order of requests.
In the editor two buttons are what overlapping drags need, the two node types differ in all that types
differ in (an output and a port drawn nowhere; two controls and no output), and a second node shows
whether indices collide. With one action queued while the user goes on, a drag may begin, move and
drop before a node, a connection or a selection from before it is rendered. In the flows node 4 is the
one a Decision prunes; three connections make a cycle, wire one port twice, or lead past node 4 to one
behind it. A flow's size is bounded by weights: a connection and an edited text count 1, a Start 1, a
Decision and a Print 2, an Input 3, up to 8. So four nodes have three connections with one Decision or Print
among them, and two connections with two; three nodes have three connections with two of them; and an Input
has its text edited beside a reader wired to a Start.

*Fairness.* `Orchestration!FairSpec`: every event is handled and every planned exec goes on; module
Engine is where that comes from. `Engine!FairSpec`: a call the worker is in returns (weak fairness);
its pool is FIFO and its two sources are polled for ever, so requests and events both get their turn
however the other kind keeps coming (strong fairness of `TakeBatch` and `RunTask`, which are disabled
while the worker is busy); the scheduler thread goes round the topics (strong fairness of `HandOver`,
disabled while an event is handed over but not committed); a runner polls and ends what it runs.
Nobody has to invoke anything, code that never ends is outside, and there are no crashes in that
run:
after a crash a taken request stays `Processing` for ever and a waiting exec is never scheduled,
which is what the code does.
`Triggers!FairSpec`: the process is started
again after a crash, and its threads together do not stand still while one of them has a step to make.
Requests and restarts are finitely many and a trigger's task is at rest without an event, so that is
all `AllInvoked` needs; a task that were put off for ever would need others to be busy for ever.
`NodeFlow!FlowSpec`: the program, which is one thread of the runner, goes on while it can. The editor
has no liveness: nothing makes a user act.

*Mutants.* `PROJECT.json` pairs each property of each passing run with a mutation of one mapped definition (a
stacked backlog, a dropped check, a second worker thread, a commit that is off by one, ...) under which TLC
finds that property violated.

### Findings

1. **engine_restart** - `OrchestrationService` keeps "all execs in state of scheduled or greater"
   (its comment) in memory only. After a restart on sqlite files the map is empty while such execs
   exist; correlations in flight and backlogs are gone with it. `ExecsKnown` is violated.
2. **snowflake_back** - `SequenceSource.next` "Blocks if sequence is exhausted until next
   millisecond", but the loop ends on *any* other reading of the clock: if the clock steps back while
   a call waits, it returns with an earlier millisecond and may issue ids again.
3. **log_broker_deadlock** - `ConsumerTest` has `Can run concurrent to appender`. An appender in a
   topic's first use holds the Once's semaphore and waits for the broker's lock (`getTopic`), while a
   consumer holds the lock and waits for the semaphore. `NoCircularWait` is violated by a few steps.

## 4. What is proved

`tlapm X.tla` checks each proof module. The theorems hold for every value of the constants that
satisfies the named assumptions in the modules (execs are numbers, the first attempt is an
attempt; correlations and the null values are apart; field widths are positive, and the sequence
has at least two numbers; internal and user topics are apart, and consumers follow the topic they are
for; a trigger is created by one request, since the adapter gives each a new id; appenders are finitely
many and no consumers; the menu offers types of the library; an exec is
invoked by an exec or by a client, and a batch has room for a request).

**ExecRepositoryProofs** - `TypeCorrect`, `QueueExact`, `RetriesAnswer` and
`Implements` (what `find` reports refines `ExecLifecycle`, for any number of execs, callers, retries and
either backend). None of these is inductive alone: to know that a history folds to its last kind one must
know what it looks like. The invariant says that a history is a path through the lifecycle, from
Planned, whose commands are pairwise distinct, and that both projections are exact. The lemmas are
about the fold: the last record decides the version, a path contains every timestamp the version
needs, and cutting at a command's first record cuts at that record, because commands are distinct.
The refinement follows: a stored record is a step of the lifecycle, everything else a stutter. It is a
refinement of what is read, so it needs `Projected`: the calls check the histories, and what they find
there is what `current` shows.

**OrchestrationProofs** - `TypeCorrect`, `Serial`, `NobodyStranded` and `Books`. `SerialInOrder` relates
only arrivals and settlement and says nothing of the books it follows from. The invariant
adds: only planned execs are handled and only finished ones settled (`Handled`), arrivals are numbered
without repetition (`Numbered`), a backlog holds planned execs in order of arrival and only behind an
exec in flight (`BacklogSorted`), the exec in flight is under way and not settled
(`InflightUnderway`), and every handled exec of a correlation is settled, in flight or in the backlog
(`Placed`); `ExecsExact` ties `execs` to the statuses.

**SnowflakeProofs** - `TypeCorrect`, `NeverCollide` (`Apart`, for clocks that step back at any time) and
`AlwaysGrow` (`Growing`, as long as no clock steps back while its call spins, which is the constant
`BackWhileSpinning` and finding 2). The lemmas are arithmetic: an id determines its partition, and
an id grows with (elapsed, sequence). The invariant bounds every issued id by the generator's
(previousCalledAt, nextSequence).

**TriggersProofs** - `TypeCorrect`, `FirstKept` (`FirstEventKept`) and `InOrder` (`InvokedInOrder`). Three
invariants, each built on the one before. `Typed` adds to the types that the requests of the internal
topic are those that create triggers. `Once` follows a request through its life: a request that has
not begun has no rows, one that is under way has rows only for the events its handler has come to, of
each topic the first, and one that is Completed has gone through all. `Orderly` relates an event
trigger to its log: the event invoked for last is the one before the committed id or the one the
worker is about to commit (`InStep`), and a repeated invocation was paid for by a crash (`Counted`).
Steps that touch none of a trigger's state are dealt with once (`RestIsAside`), the commit, the
invocation and the crash each on their own.
`FixedRatesRun` (`FixedRateScheduled`) says that an active fixed rate trigger has a task, or is about to
get one, and has no second task but one that a restart made. Its invariant is `Booked`. A task comes
about by the event of a creation or by the setup of a start, and the property alone does not know
which of the two is still to come. `Booked` follows the creation of each trigger: one row of the log
per creation (`CreationsOnce`, `CreationFresh`), which is due, handed over or in the pool, in one of
these places only (`HandedOver`, `PoolOnce`); a trigger that still has its event in front of it has no
task yet but one from a setup after a crash (`Rounds`); a task is there or a creation is pending as
long as nobody switched the trigger (`Scheduled`).

**LogBrokerMemoryProofs** - `TypeCorrect`, `NothingLostEver` (`NothingLost`) and `SeenInOrderAlways`
(`SeenInOrder`). `Base` says that one thread at a time is inside the Once (`MutexOK`), so one
repository is made (`OnceOK`) and everyone who resolved one has that one (`ResolvedOK`), however late
the plain fields become visible. From then on there is one log: it holds what was acknowledged, each
event once (`AppendedOK`), and a consumer has seen a prefix of it, fetched the ids that follow, and
committed up to the event it is at (`Position`, in `ConsumedOK`). That no offset passes the end of the
log needs the number of appenders to be finite.

**NodeEditorProofs** - `TypeCorrect`, `PortsHaveOneOwner`, `ConnectionsAlwaysJoin`, `FlowGrows`,
`OnlyTwoDragsCrash` and `DragsMoveTheirOwn`, for any number of nodes, drags, buttons and any length of
the queue. `Typed` contains that all indices are dense, which is what makes a size plus one a free
index, that every port has one owner and every connection joins two of them, and that the mouse and
every queued action speak only of what the flow already holds; so an action may wait behind any number
of others. `OneDrag` says that, while node drags do not overlap, each queued move finds its own node
selected when its turn comes: the crash needs two.

**NodeFlowProofs** - `RunTypeCorrect` (`RunTypeOK`), `OnceKept` (`EndsOnce`), `SourcesFirst`
(`ReadsAfterSource`), `WellWiredRuns` (`WellWiredNeverFails`) and `AllRan` (`CompletedRanAll`): for any
library and any flow the editor can post. That a posted flow joins nodes that
are there comes from the editor's invariant (`TypedInvariant`). `RunInv` adds what the calls on the stack
mean. Each call but the last waits for the next one (`StackOK`: a function for its source, a visit for
the function of its node), and no two wait in the same node (`NotTwice`), because the one that would be
second fails instead; without these, a node could end twice or before its source. A visited node has run
or is in its visit, and each of its edges leads to a visited node or is still ahead of a visit on the
stack (`VisitOK`, the invariant of depth-first search, with the exception a Decision makes for node 4):
with an empty stack, nothing but the pruned node leads out of what was visited, so all that is reached
on a way around it was visited and has run (`AllRan`). In a flow that is well wired the calls stay where node 1 leads (`WiredOK`), and a call that
meets its own node would be a cycle of readers: the set of readers waiting on the stack, of which
`ReadsEnd` says that one reads from outside. `WellWiredRuns` is about flows that are well wired and load:
without the second condition it does not hold, as an apostrophe in the text of an Input fails any flow
(`lib/nodes/src/main/kotlin/io/hamal/lib/nodes/compiler/node/Input.kt:31`). The well-wired flows, and the smallest edge, need the
minimum principle of a well-founded order (`WFMin`), which has no operator parameter.

**EngineProofs** - one theorem per invariant of the engine's runs, and the refinement:

| Theorem | States | As long as |
|---|---|---|
| `TypeCorrect`, `TokensLive`, `AnswersTrue` | `TypeOK`, `TokenLive`, `AnswersAreTrue` | always: any crashes, anything lost or stray |
| `Implements`, `EngineSerial` | `ImplementsOrchestration`, the orchestration's `SerialInOrder` | nothing crashes |
| `RequestsSucceed`, `StateHandedOver` | `NoRequestFails`, `StateHandoff` | nothing crashes, nothing is lost or stray (`Untidy = FALSE`) |

The conditions are needed. After a crash the orchestration has forgotten who is in flight, so a second exec of a correlation may
start beside the first; and a stray report completes an exec that its runner goes on running. Either breaks
the order the last two rows depend on.

All of them use that there is one worker thread (`Steps`, `OneWorker`). Each invariant has its step
lemmas in a section of its own. `Typed` says what the worker is at: a call for the first request of
the batch, or for the exec of an event. `Tokened` follows a token's owner from the token call through
the backlog, and knows that whatever is about to be revoked has a last event, and has finished; so no
replay after a crash takes a token away early. `LoggedOnce` says that the log has one planned and one
last event of an exec, and that its status agrees. `HandledOnce` puts each of these events in one place
(not handed over yet, in the pool's queue, at the worker, or handled); this is what a crash between
handing over and commit breaks. From the two, every step is a step of `Orchestration` or stutters.
`Promising` orders the requests that are not answered yet: a report finds its exec started, there is
one of each exec, and what an exec's code invoked is ahead of it in the queue, so it is authorized
while the token is there (`TokenLive`).

`Truthful` is what `AnswersAreTrue` needs. An answer is given by the last call of a handler, and is true
because of the four before it; so the invariant says how far the handler of the first request has got
(`WorkerTruthful`), that a request waits once and that what it asks for is not done before its turn
(`WaitsOnce`; without it, a `Failed` answer could be contradicted later), and that only completed execs
have published, each once (`PublishesOnce`). A crash empties the batch: what was half done
stays `Processing` and is never answered, so nothing false is said of it.

`Handoff` is what `StateHandoff` needs: the state of a correlation is that of its last completed exec,
but between the emission of the completion and the write of the state, when the worker is at that
write and the exec is not settled (the *window*). No exec of the correlation may be dequeued in the window. This is not
visible in the engine's own variables. It is the orchestration's `BooksExact`: an exec that is under
way and not settled is the one in flight, and there is one (`Alone`). The engine is an orchestration
by the refinement, so the invariant of `OrchestrationProofs` holds of it: the module is instantiated
with the refinement mapping (`Orchestrated`), and `OrchestrationHolds` cites its step lemmas. `EngineSerial` is the
same argument for `SerialInOrder`. Both logs that the properties look at are spoken of as sets of
indices (`Publications`, `LastCompleted`): what is appended adds the last index, and no induction over
the log is needed.

*Only model-checked:* the liveness properties `AllSettle`, `InvokeEnds`, `AllInvoked` and `RunEnds`. Out
of the prover's reach altogether: liveness under fairness and `ENABLED`, and inductions over data (what
a recursive definition computes for every input). None of the modules declares a recursive operator.

## 5. What is left

*Not modelled*, and why:

- Functions, code and deployment, namespaces, workspaces, accounts, recipes, extensions and feedback:
  the event-sourced repository of `ExecRepository` again, with one or two kinds of record and no protocol
  between them. The one multi-store write among them (a function's update) is in the hazard list.
- Hook and endpoint triggers: a request each, and for endpoints a loop that queries until an exec ends
  or five seconds are over. Cron triggers are stored and never scheduled by the code.
- `LruCache`, `OnceEvery`, `KeyedOnceEvery`: no code of the repository uses them.
- The web pages and hooks: one fetch each, whose answer is shown. The session hooks have races of
  their own (a late 403 resets a newer session, `app/fn-guru/src/hook/http.ts:29`; a failed login is
  stored as if it had answered, `app/fn-guru/src/hook/account.ts:85`), of two steps each, which a model
  would only restate.
- Vendored code: `app/fn-guru/public/monaco` is the Monaco editor as built by its authors. It is most of
  the JavaScript of the repository by lines, and none of it is Hamal's.
- HTTP routing and conversion, the SDK, Lua bindings, plugins, packaging: no shared state, no protocol.

*Worth doing next:* an abstract log that both brokers implement as far as they do (the memory one keeps
every event of a command), with the refinements proved, and a refinement of the triggers to an abstract
"one invocation per event"; what survives of the orchestration's promises after a restart, as a theorem
about a weaker specification.
