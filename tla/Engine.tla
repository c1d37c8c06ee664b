------------------------------- MODULE Engine -------------------------------
(***************************************************************************)
(* The execution engine end to end: clients and running code enqueue       *)
(* requests, the worker thread handles them and the internal events, the   *)
(* scheduler thread moves events from the log to the worker, the bridge    *)
(* hands started execs to runners, and a runner reports back by a request. *)
(*                                                                         *)
(* A step is one call into a repository, the log, the orchestration or a   *)
(* queue: everything another thread can see between two such calls is a    *)
(* state here. What is durable (requests, execs, log, offsets, tokens and  *)
(* states, in the sqlite profile) survives Crash; the rest does not.       *)
(***************************************************************************)
EXTENDS Integers, Sequences

CONSTANTS
  Execs, Correlations, NoCorrelation, NoExec, CorrelationOf,
  InvokedBy,      \* the exec whose code invokes this one, NoExec for a client
  Runners,
  BatchLimit,     \* how many requests the invoker takes at a time (Limit(10))
  MaxCrashes,     \* bound on the backend's restarts
  Untidy          \* whether the answer or the report of a runner may get lost,
                  \* and reports come from elsewhere (the bridge asks nobody)

ASSUME CorrelationsAssumption ==
  /\ CorrelationOf \in [Execs -> Correlations \cup {NoCorrelation}]
  /\ NoCorrelation \notin Correlations /\ NoExec \notin Execs
ASSUME InvokedByAssumption == InvokedBy \in [Execs -> Execs \cup {NoExec}]
ASSUME BatchLimitAssumption == BatchLimit \in Nat \ {0}
ASSUME MaxCrashesAssumption == MaxCrashes \in Nat /\ Untidy \in BOOLEAN

VARIABLES
  status, inflight, backlog, execs, arrivals, arrival, settled, \* Orchestration
  requests,    \* the submitted requests, in order
  reqStatus,   \* RequestStatus of every request, "None" before it is made
  batch,       \* the requests the invoker has taken and not finished; its
               \* head is the one being handled
  worker,      \* worker[w]: the call thread w is about to make
  tasks,       \* the events waiting in the worker pool's queue
  log,         \* log[t]: the events of an internal topic
  committed,   \* committed[t]: how many of them the consumer has committed
  handing,     \* the topic the scheduler thread handed an event over from and
               \* has not committed yet, or NoTopic
  tokens,      \* how many exec tokens of an exec exist
  state,       \* state[c]: the exec that wrote the state of c last, or NoExec
  published,   \* user events appended on completion, by the exec emitting them
  runner,      \* what each runner does
  crashes

durable == <<status, requests, reqStatus, log, committed, tokens, state, published>>
service == <<inflight, backlog, execs>>
history == <<arrivals, arrival, settled>>
vars == <<durable, service, history, batch, worker, tasks, handing, runner, crashes>>

Lifecycle == INSTANCE ExecLifecycle
Orch == INSTANCE Orchestration

\* Mutant: a second worker thread.
TwoWorkers == 1..2

\* ThreadPoolTaskScheduler.poolSize of the worker pool.
Workers == 1..1

\* The internal topics whose handlers change anything.
Topics == {"Planned", "Scheduled", "Completed", "Failed"}
NoTopic == "none"

Request == {"Invoke", "Complete", "Fail"} \X Execs

Idle == [at |-> "idle", exec |-> NoExec, scheduled |-> NoExec]
Free == [at |-> "idle", exec |-> NoExec, state |-> NoExec]

\* The calls of the request handlers, in the order each handler makes them.
RequestCalls == {"authorize", "plan", "emitPlanned", "complete", "emitCompleted",
                 "setState", "publish", "fail", "emitFailed", "ack"}

Init ==
  /\ Orch!Init
  /\ requests  = <<>>
  /\ reqStatus = [r \in Request |-> "None"]
  /\ batch     = <<>>
  /\ worker    = [w \in Workers |-> Idle]
  /\ tasks     = <<>>
  /\ log       = [t \in Topics |-> <<>>]
  /\ committed = [t \in Topics |-> 0]
  /\ handing   = NoTopic
  /\ tokens    = [e \in Execs |-> 0]
  /\ state     = [c \in Correlations |-> NoExec]
  /\ published = <<>>
  /\ runner    = [r \in Runners |-> Free]
  /\ crashes   = 0
-----------------------------------------------------------------------------
\* Requests: an HTTP thread submits, RequestInvoker handles.

\* Mutant: the requests are a stack.
SubmitOnTop(req) ==
  /\ reqStatus[req] = "None"
  /\ requests'  = <<req>> \o requests
  /\ reqStatus' = [reqStatus EXCEPT ![req] = "Submitted"]

Submit(req) ==
  /\ reqStatus[req] = "None"
  /\ requests'  = Append(requests, req)
  /\ reqStatus' = [reqStatus EXCEPT ![req] = "Submitted"]

\* A client invokes a function, runs ad hoc code or fires a trigger.
ClientInvoke(e) ==
  /\ InvokedBy[e] = NoExec
  /\ Submit(<<"Invoke", e>>)
  /\ UNCHANGED <<status, log, committed, tokens, state, published, service, history,
                 batch, worker, tasks, handing, runner, crashes>>

Goto(w, call) == worker' = [worker EXCEPT ![w].at = call]

\* next(Limit(10)): the requests taken are Processing from now on. The invoker
\* is one periodic task: it never runs on two threads.
TakeBatch(w) ==
  LET n == IF Len(requests) < BatchLimit THEN Len(requests) ELSE BatchLimit IN
  /\ worker[w] = Idle
  /\ \A v \in Workers : worker[v].at \notin RequestCalls
  /\ requests # <<>>
  /\ batch'     = SubSeq(requests, 1, n)
  /\ requests'  = SubSeq(requests, n + 1, Len(requests))
  /\ reqStatus' = [r \in Request |->
                     IF \E i \in 1..n : requests[i] = r THEN "Processing" ELSE reqStatus[r]]
  /\ Goto(w, "authorize")
  /\ UNCHANGED <<status, log, committed, tokens, state, published, service, history,
                 tasks, handing, runner, crashes>>

\* complete(requestId) or fail(requestId), and on to the next of the batch.
Answer(w, outcome) ==
  /\ reqStatus' = [reqStatus EXCEPT ![Head(batch)] = outcome]
  /\ batch' = Tail(batch)
  /\ Goto(w, IF Len(batch) = 1 THEN "idle" ELSE "authorize")

\* A call of the handler of the request at the head of the batch; the handler
\* goes on with `call`, or throws and the request is failed.
Handling(w, call, next) ==
  /\ worker[w].at = call
  /\ Goto(w, next)
  /\ UNCHANGED <<requests, reqStatus, batch, history, tasks, committed, handing,
                 runner, crashes>>

Refuse(w) ==
  /\ Answer(w, "Failed")
  /\ UNCHANGED <<status, requests, log, committed, tokens, state, published, service,
                 history, tasks, handing, runner, crashes>>

Subject == Head(batch)[2]

\* authGet(requestedBy): the token of the exec that made the request must still
\* exist. Clients and runners have credentials that outlive the request.
Authorized ==
  Head(batch)[1] = "Invoke" /\ InvokedBy[Subject] # NoExec
    => tokens[InvokedBy[Subject]] > 0

FirstCall == CASE Head(batch)[1] = "Invoke"   -> "plan"
               [] Head(batch)[1] = "Complete" -> "complete"
               [] Head(batch)[1] = "Fail"     -> "fail"

Authorize(w) ==
  \/ /\ worker[w].at = "authorize"
     /\ Authorized
     /\ Handling(w, "authorize", FirstCall)
     /\ UNCHANGED <<status, log, tokens, state, published, service>>
  \/ /\ worker[w].at = "authorize"
     /\ ~Authorized
     /\ Refuse(w)

Emit(topic, e) == log' = [log EXCEPT ![topic] = Append(@, e)]

\* ExecInvokeHandler
PlanExec(w) ==
  /\ Handling(w, "plan", "emitPlanned")
  /\ Lifecycle!Plan(Subject)
  /\ UNCHANGED <<log, tokens, state, published, service>>

EmitPlanned(w) ==
  /\ Handling(w, "emitPlanned", "ack")
  /\ Emit("Planned", Subject)
  /\ UNCHANGED <<status, tokens, state, published, service>>

\* ExecCompleteHandler: an exec that is not Started any more is refused.
CompleteExec(w) ==
  \/ /\ Handling(w, "complete", "emitCompleted")
     /\ Lifecycle!Complete(Subject)
     /\ UNCHANGED <<log, tokens, state, published, service>>
  \/ /\ worker[w].at = "complete"
     /\ status[Subject] # "Started"
     /\ Refuse(w)

EmitCompleted(w) ==
  /\ Handling(w, "emitCompleted", "setState")
  /\ Emit("Completed", Subject)
  /\ UNCHANGED <<status, tokens, state, published, service>>

SetState(w) ==
  /\ Handling(w, "setState", "publish")
  /\ state' = [c \in Correlations |->
                 IF c = CorrelationOf[Subject] THEN Subject ELSE state[c]]
  /\ UNCHANGED <<status, log, tokens, published, service>>

Publish(w) ==
  /\ Handling(w, "publish", "ack")
  /\ published' = Append(published, Subject)
  /\ UNCHANGED <<status, log, tokens, state, service>>

\* ExecFailHandler
FailExec(w) ==
  \/ /\ Handling(w, "fail", "emitFailed")
     /\ Lifecycle!Fail(Subject)
     /\ UNCHANGED <<log, tokens, state, published, service>>
  \/ /\ worker[w].at = "fail"
     /\ status[Subject] # "Started"
     /\ Refuse(w)

EmitFailed(w) ==
  /\ Handling(w, "emitFailed", "ack")
  /\ Emit("Failed", Subject)
  /\ UNCHANGED <<status, tokens, state, published, service>>

Ack(w) ==
  /\ worker[w].at = "ack"
  /\ Answer(w, "Completed")
  /\ UNCHANGED <<status, requests, log, committed, tokens, state, published, service,
                 history, tasks, handing, runner, crashes>>
-----------------------------------------------------------------------------
\* Internal events: the scheduler thread polls one topic after the other and
\* hands each event to the worker pool, then commits its offset. A poll of up
\* to ten events is ten times HandOver and Commit, and other topics in between
\* are the coarser interleaving: this one includes it.

\* Mutant: the scheduler polls again before it has committed.
HandOverAgain(t) ==
  /\ committed[t] < Len(log[t])
  /\ tasks' = Append(tasks, <<t, log[t][committed[t] + 1]>>)
  /\ handing' = t
  /\ UNCHANGED <<durable, service, history, batch, worker, runner, crashes>>

HandOver(t) ==
  /\ handing = NoTopic
  /\ committed[t] < Len(log[t])
  /\ tasks' = Append(tasks, <<t, log[t][committed[t] + 1]>>)
  /\ handing' = t
  /\ UNCHANGED <<durable, service, history, batch, worker, runner, crashes>>

Commit ==
  /\ handing # NoTopic
  /\ committed' = [committed EXCEPT ![handing] = @ + 1]
  /\ handing' = NoTopic
  /\ UNCHANGED <<status, requests, reqStatus, log, tokens, state, published, service,
                 history, batch, worker, tasks, runner, crashes>>

\* The worker takes the next event from the pool's queue and calls its handler.
FirstOf == [Planned |-> "token", Scheduled |-> "queue",
            Completed |-> "finish", Failed |-> "finish"]

RunTask(w) ==
  /\ worker[w] = Idle
  /\ tasks # <<>>
  /\ tasks' = Tail(tasks)
  /\ worker' = [worker EXCEPT ![w] =
                  [at |-> FirstOf[Head(tasks)[1]], exec |-> Head(tasks)[2], scheduled |-> NoExec]]
  /\ UNCHANGED <<durable, service, history, batch, handing, runner, crashes>>

\* A call of an event handler.
Serving(w, call) ==
  /\ worker[w].at = call
  /\ UNCHANGED <<requests, reqStatus, batch, committed, state, published,
                 tasks, handing, runner, crashes>>

Done(w) == worker' = [worker EXCEPT ![w] = Idle]

\* Handlers that call the orchestration go on by emitting the Scheduled event
\* of the exec it scheduled, if it did.
NewlyScheduled == {e \in Execs : status[e] = "Planned" /\ status'[e] = "Scheduled"}

\* ExecPlannedHandler
CreateToken(w) ==
  /\ Serving(w, "token")
  /\ tokens' = [tokens EXCEPT ![worker[w].exec] = @ + 1]
  /\ Goto(w, "schedule")
  /\ UNCHANGED <<status, log, service, history>>

\* Mutant: the Scheduled event is emitted even for an exec that has to wait.
ScheduleEmitsAlways(w) ==
  /\ Serving(w, "schedule")
  /\ Orch!PlannedHandled(worker[w].exec)
  /\ worker' = [worker EXCEPT ![w].at = "emitScheduled",
       ![w].scheduled = IF NewlyScheduled = {} THEN NoExec ELSE worker[w].exec]
  /\ UNCHANGED <<log, tokens>>

ScheduleOrBacklog(w) ==
  /\ Serving(w, "schedule")
  /\ Orch!PlannedHandled(worker[w].exec)
  /\ IF NewlyScheduled = {} THEN Done(w)
     ELSE \E e \in NewlyScheduled :
            worker' = [worker EXCEPT ![w].at = "emitScheduled", ![w].scheduled = e]
  /\ UNCHANGED <<log, tokens>>

\* Mutant: the token is kept when another exec was scheduled.
EmitScheduledKeepsToken(w) ==
  /\ Serving(w, "emitScheduled")
  /\ Emit("Scheduled", worker[w].scheduled)
  /\ Done(w)
  /\ UNCHANGED <<status, tokens, service, history>>

\* The event of the exec that was scheduled, whichever handler scheduled it; a
\* handler of a last event goes on to revoke the token of the finished exec.
EmitScheduled(w) ==
  /\ Serving(w, "emitScheduled")
  /\ Emit("Scheduled", worker[w].scheduled)
  /\ IF worker[w].scheduled = worker[w].exec THEN Done(w) ELSE Goto(w, "revoke")
  /\ UNCHANGED <<status, tokens, service, history>>

\* ExecScheduledHandler: the Queued event it emits next is only logged.
QueueExec(w) ==
  /\ Serving(w, "queue")
  /\ Done(w)
  /\ \/ Lifecycle!Queue(worker[w].exec)
     \/ status[worker[w].exec] # "Scheduled" /\ UNCHANGED status
  /\ UNCHANGED <<log, tokens, service, history>>

\* ExecCompletedHandler and ExecFailedHandler. When the next exec in line is
\* not planned any more the call throws, and the token is never revoked.
FinishExec(w) ==
  LET c    == CorrelationOf[worker[w].exec]
      next == IF c \in Correlations /\ backlog[c] # <<>> THEN {Head(backlog[c])} ELSE {}
  IN  /\ Serving(w, "finish")
      /\ Orch!FinishedHandled(worker[w].exec)
      /\ CASE NewlyScheduled # {} ->
                worker' = [worker EXCEPT ![w].at = "emitScheduled",
                                         ![w].scheduled = CHOOSE e \in next : TRUE]
           [] NewlyScheduled = {} /\ next = {} -> Goto(w, "revoke")
           [] NewlyScheduled = {} /\ next # {} -> Done(w)
      /\ UNCHANGED <<log, tokens>>

\* Mutant: the token of the exec that was scheduled is revoked.
RevokeNext(w) ==
  LET e == IF worker[w].scheduled = NoExec THEN worker[w].exec ELSE worker[w].scheduled
  IN  /\ Serving(w, "revoke")
      /\ tokens' = [tokens EXCEPT ![e] = IF @ > 0 THEN @ - 1 ELSE 0]
      /\ Done(w)
      /\ UNCHANGED <<status, log, service, history>>

RevokeToken(w) ==
  /\ Serving(w, "revoke")
  /\ tokens' = [tokens EXCEPT ![worker[w].exec] = IF @ > 0 THEN @ - 1 ELSE 0]
  /\ Done(w)
  /\ UNCHANGED <<status, log, service, history>>
-----------------------------------------------------------------------------
\* The bridge and the runners. The Started event is only logged: left out.

AtBridge ==
  UNCHANGED <<log, committed, tokens, state, published, service, history, batch,
              worker, tasks, handing, crashes>>

\* POST /v1/dequeue: the exec is started ...
Dequeue(r) ==
  /\ runner[r] = Free
  /\ \E e \in Execs :
       /\ Lifecycle!Start(e)
       /\ runner' = [runner EXCEPT ![r] = [at |-> "starting", exec |-> e, state |-> NoExec]]
  /\ UNCHANGED <<requests, reqStatus>>
  /\ AtBridge

\* ... then the state of its correlation and its token are looked up for the
\* answer. Without a token the answer is an error: the runner polls on.
Reply(r) ==
  LET e == runner[r].exec
      c == CorrelationOf[e]
  IN  /\ runner[r].at = "starting"
      /\ runner' = [runner EXCEPT ![r] =
           IF tokens[e] = 0 THEN Free
           ELSE [at |-> "running", exec |-> e,
                 state |-> IF c \in Correlations THEN state[c] ELSE NoExec]]
      /\ UNCHANGED <<status, requests, reqStatus>>
      /\ AtBridge

\* The runner never hears of the exec the bridge started for it.
LoseReply(r) ==
  /\ Untidy
  /\ runner[r].at = "starting"
  /\ runner' = [runner EXCEPT ![r] = Free]
  /\ UNCHANGED <<status, requests, reqStatus>>
  /\ AtBridge

\* The code invokes another exec, with the token of its own: AuthFilter lets
\* the request in as long as the token exists.
Spawn(r) ==
  /\ runner[r].at = "running"
  /\ tokens[runner[r].exec] > 0
  /\ \E e \in Execs : InvokedBy[e] = runner[r].exec /\ Submit(<<"Invoke", e>>)
  /\ UNCHANGED <<status, runner>>
  /\ AtBridge

\* The code is through: complete or fail is requested, and the runner polls on.
Report(r) ==
  /\ runner[r].at = "running"
  /\ \E op \in {"Complete", "Fail"} : Submit(<<op, runner[r].exec>>)
  /\ runner' = [runner EXCEPT ![r] = Free]
  /\ UNCHANGED status
  /\ AtBridge

\* The report does not get through; the runner does not try again.
LoseReport(r) ==
  /\ Untidy
  /\ runner[r].at = "running"
  /\ runner' = [runner EXCEPT ![r] = Free]
  /\ UNCHANGED <<status, requests, reqStatus>>
  /\ AtBridge

\* The bridge takes a report on any exec there is, from whoever sends it.
StrayReport(e) ==
  /\ Untidy
  /\ status[e] # "Absent"
  /\ \E op \in {"Complete", "Fail"} : Submit(<<op, e>>)
  /\ UNCHANGED <<status, runner>>
  /\ AtBridge

\* Mutant: requests that were taken are submitted again after a restart.
CrashRequeues ==
  /\ crashes < MaxCrashes
  /\ crashes'  = crashes + 1
  /\ inflight' = [c \in Correlations |-> NoExec]
  /\ backlog'  = [c \in Correlations |-> <<>>]
  /\ execs'    = {}
  /\ requests' = batch \o requests
  /\ reqStatus' = [r \in Request |->
                     IF reqStatus[r] = "Processing" THEN "Submitted" ELSE reqStatus[r]]
  /\ batch'    = <<>>
  /\ worker'   = [w \in Workers |-> Idle]
  /\ tasks'    = <<>>
  /\ handing'  = NoTopic
  /\ runner'   = [r \in Runners |-> IF runner[r].at = "starting" THEN Free ELSE runner[r]]
  /\ UNCHANGED <<status, log, committed, tokens, state, published, history>>

\* The backend process dies and starts again on its sqlite files. Nothing reads
\* the orchestration's books, the taken requests or the pool's queue back in.
Crash ==
  /\ crashes < MaxCrashes
  /\ crashes'  = crashes + 1
  /\ inflight' = [c \in Correlations |-> NoExec]
  /\ backlog'  = [c \in Correlations |-> <<>>]
  /\ execs'    = {}
  /\ batch'    = <<>>
  /\ worker'   = [w \in Workers |-> Idle]
  /\ tasks'    = <<>>
  /\ handing'  = NoTopic
  /\ runner'   = [r \in Runners |-> IF runner[r].at = "starting" THEN Free ELSE runner[r]]
  /\ UNCHANGED <<durable, history>>
-----------------------------------------------------------------------------
WorkerStep(w) ==
  \/ TakeBatch(w) \/ Authorize(w)
  \/ PlanExec(w) \/ EmitPlanned(w)
  \/ CompleteExec(w) \/ EmitCompleted(w) \/ SetState(w) \/ Publish(w)
  \/ FailExec(w) \/ EmitFailed(w)
  \/ Ack(w)
  \/ RunTask(w) \/ CreateToken(w) \/ ScheduleOrBacklog(w) \/ EmitScheduled(w)
  \/ QueueExec(w) \/ FinishExec(w) \/ RevokeToken(w)

Next ==
  \/ \E e \in Execs : ClientInvoke(e) \/ StrayReport(e)
  \/ \E w \in Workers : WorkerStep(w)
  \/ \E t \in Topics : HandOver(t)
  \/ Commit
  \/ \E r \in Runners : \/ Dequeue(r) \/ Reply(r) \/ LoseReply(r)
                        \/ Spawn(r) \/ Report(r) \/ LoseReport(r)
  \/ Crash

Spec == Init /\ [][Next]_vars

\* The pool is FIFO and polls its two sources for ever, the scheduler thread
\* goes round the topics, and a runner answers for the code it runs (a code
\* that never ends is outside). Nobody has to invoke anything.
FairSpec ==
  /\ Spec
  /\ \A w \in Workers :
       /\ WF_vars(worker[w] # Idle /\ WorkerStep(w))
       /\ SF_vars(TakeBatch(w))
       /\ SF_vars(RunTask(w))
  /\ \A t \in Topics : SF_vars(HandOver(t))
  /\ WF_vars(Commit)
  /\ \A r \in Runners : WF_vars(Dequeue(r) \/ Reply(r) \/ Report(r))
-----------------------------------------------------------------------------
\* Every variable has its type: in particular no event is ever emitted for an
\* exec that the orchestration did not schedule.
TypeOK ==
  /\ Orch!TypeOK
  /\ requests \in Seq(Request) /\ batch \in Seq(Request)
  /\ reqStatus \in [Request -> {"None", "Submitted", "Processing", "Completed", "Failed"}]
  /\ worker \in [Workers ->
       [at : RequestCalls \cup {"idle", "token", "schedule", "emitScheduled", "queue",
                                "finish", "revoke"},
        exec : Execs \cup {NoExec}, scheduled : Execs \cup {NoExec}]]
  /\ tasks \in Seq(Topics \X Execs)
  /\ log \in [Topics -> Seq(Execs)]
  /\ committed \in [Topics -> Nat] /\ handing \in Topics \cup {NoTopic}
  /\ tokens \in [Execs -> Nat]
  /\ state \in [Correlations -> Execs \cup {NoExec}]
  /\ published \in Seq(Execs)
  /\ runner \in [Runners -> [at : {"idle", "starting", "running"},
                             exec : Execs \cup {NoExec}, state : Execs \cup {NoExec}]]
  /\ crashes \in 0..MaxCrashes

Logged(topic, e) == \E i \in DOMAIN log[topic] : log[topic][i] = e

\* f is the exec of correlation c that was completed last, or NoExec.
CompletedOf(c) == {i \in DOMAIN log["Completed"] : CorrelationOf[log["Completed"][i]] = c}

LastCompleted(c, f) ==
  \/ CompletedOf(c) = {} /\ f = NoExec
  \/ \E i \in CompletedOf(c) : log["Completed"][i] = f /\ \A j \in CompletedOf(c) : j <= i

\* State is handed over: an exec runs with the state its correlation's last
\* completed exec left, never with an older one. This ties the order of four
\* calls of ExecCompleteHandler to the release of the correlation on a later
\* event, to the queue, and to the read in /v1/dequeue on an HTTP thread.
StateHandoff ==
  \A r \in Runners :
    LET c == CorrelationOf[runner[r].exec]
    IN  runner[r].at = "running" /\ c \in Correlations => LastCompleted(c, runner[r].state)

\* An exec has a token from before it can be handed to a runner until after it
\* has finished, whatever is replayed after a crash: /v1/dequeue never fails
\* after it has started an exec, which nobody would start again.
TokenLive ==
  \A e \in Execs : status[e] \in {"Scheduled", "Queued", "Started"} => tokens[e] > 0

\* No request is ever failed while nothing is lost: what an exec's code invokes
\* is authorized by the exec's token before its completion takes that away, and
\* a report always finds its exec Started.
NoRequestFails == \A req \in Request : reqStatus[req] # "Failed"

Publications(e) == {i \in DOMAIN published : published[i] = e}

\* An answered request tells the truth, also across a crash at any point: when
\* it is Completed all its effects are in place, once; when it is Failed it had
\* none: the exec was finished by another request, or not there to finish.
AnswersAreTrue ==
  \A e \in Execs :
    /\ reqStatus[<<"Invoke", e>>] = "Completed" => status[e] # "Absent" /\ Logged("Planned", e)
    /\ reqStatus[<<"Invoke", e>>] = "Failed" => status[e] = "Absent"
    /\ reqStatus[<<"Fail", e>>] = "Completed" => status[e] = "Failed" /\ Logged("Failed", e)
    /\ reqStatus[<<"Fail", e>>] = "Failed" => ~Logged("Failed", e)
    /\ reqStatus[<<"Complete", e>>] = "Completed" =>
         /\ status[e] = "Completed" /\ Logged("Completed", e)
         /\ \E i \in DOMAIN published : Publications(e) = {i}
         /\ CorrelationOf[e] \in Correlations => state[CorrelationOf[e]] # NoExec
    /\ reqStatus[<<"Complete", e>>] = "Failed" =>
         ~Logged("Completed", e) /\ Publications(e) = {}

\* The engine implements the orchestration it was built around: log, threads,
\* bridge and runners together give it each event once and in a possible order.
ImplementsOrchestration == Orch!Spec

\* The orchestration's map knows every exec that is scheduled or further, which
\* is what its declaration says it holds: "all execs in state of scheduled or
\* greater".
ExecsKnown == {e \in Execs : status[e] \notin {"Absent", "Planned"}} \subseteq execs

\* Every invoke that is taken in ends: the exec finishes, the correlation is
\* passed on, and its token is gone for good.
InvokeEnds ==
  \A e \in Execs :
    reqStatus[<<"Invoke", e>>] = "Submitted"
      ~> [](status[e] \in Lifecycle!Terminal /\ e \in settled /\ tokens[e] = 0)
=============================================================================
