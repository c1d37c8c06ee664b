---------------------------- MODULE EngineProofs ----------------------------
(***************************************************************************)
(* For any execs, correlations, runners and batches: an exec has a token   *)
(* as long as it is under way, and what a request is answered is true,     *)
(* across any number of crashes. While nothing crashes, the engine         *)
(* implements the orchestration, and the execs of a correlation run in     *)
(* order. If the network loses nothing either, no request is ever failed,  *)
(* and an exec runs with the state of the last exec of its correlation that*)
(* completed.                                                              *)
(***************************************************************************)
EXTENDS Engine, SequenceTheorems, TLAPS

EventCalls == {"token", "schedule", "emitScheduled", "queue", "finish", "revoke"}

StoreOK ==
  /\ status \in [Execs -> Lifecycle!Statuses]
  /\ tokens \in [Execs -> Nat]
  /\ state \in [Correlations -> Execs \cup {NoExec}]
  /\ published \in Seq(Execs)
  /\ crashes \in 0..MaxCrashes

ServiceOK ==
  /\ inflight \in [Correlations -> Execs \cup {NoExec}]
  /\ backlog \in [Correlations -> Seq(Execs)]
  /\ execs \subseteq Execs
  /\ arrivals \in Nat
  /\ arrival \in [Execs -> Nat]
  /\ settled \subseteq Execs

RequestsOK ==
  /\ requests \in Seq(Request) /\ batch \in Seq(Request)
  /\ reqStatus \in [Request -> {"None", "Submitted", "Processing", "Completed", "Failed"}]

EventsOK ==
  /\ tasks \in Seq(Topics \X Execs)
  /\ log \in [Topics -> Seq(Execs)]
  /\ committed \in [Topics -> Nat] /\ handing \in Topics \cup {NoTopic}

RunnersOK ==
  /\ runner \in [Runners -> [at : {"idle", "starting", "running"},
                             exec : Execs \cup {NoExec}, state : Execs \cup {NoExec}]]
  /\ \A r \in Runners : runner[r].at # "idle" => runner[r].exec \in Execs

\* The one worker thread: the call it is about to make, and what it makes it for.
At == worker[1].at
Ex == worker[1].exec
Sch == worker[1].scheduled

WorkerStates == [at : RequestCalls \cup {"idle"} \cup EventCalls,
                 exec : Execs \cup {NoExec}, scheduled : Execs \cup {NoExec}]

\* It is at a call for the first request of the batch, or for the exec of an event.
WorkerOK ==
  /\ worker \in [Workers -> WorkerStates]
  /\ At \in RequestCalls <=> batch # <<>>
  /\ At \in {"plan", "emitPlanned"} => Head(batch)[1] = "Invoke"
  /\ At \in {"complete", "emitCompleted", "setState", "publish"} => Head(batch)[1] = "Complete"
  /\ At \in {"fail", "emitFailed"} => Head(batch)[1] = "Fail"
  /\ At \in EventCalls => Ex \in Execs
  /\ At = "emitScheduled" => Sch \in Execs

Typed == StoreOK /\ ServiceOK /\ RequestsOK /\ EventsOK /\ RunnersOK /\ WorkerOK

Terminated(e) == status[e] \in {"Completed", "Failed"}

\* The token of an exec outlives its way from the schedule call on, through the
\* backlog if it has to wait; what revokes it follows a last event.
WorkerTokened ==
  /\ At = "schedule" => tokens[Ex] > 0
  /\ At \in {"finish", "revoke"} => Terminated(Ex)
  /\ At = "emitScheduled" => Sch = Ex \/ Terminated(Ex)
  /\ At \in {"emitCompleted", "emitFailed"} => Terminated(Subject)

Tokened ==
  /\ TokenLive /\ WorkerTokened
  /\ \A c \in Correlations : \A i \in DOMAIN backlog[c] :
       tokens[backlog[c][i]] > 0 \/ Terminated(backlog[c][i])
  /\ \A t \in {"Completed", "Failed"} : \A i \in DOMAIN log[t] : Terminated(log[t][i])
  /\ \A i \in DOMAIN tasks : tasks[i][1] \in {"Completed", "Failed"} => Terminated(tasks[i][2])

\* How many events of a topic the scheduler thread has handed over.
Handed(t) == committed[t] + (IF handing = t THEN 1 ELSE 0)
Passed(t, e) == \E k \in 1..Handed(t) : log[t][k] = e

NotLogged(t, e) == \A i \in DOMAIN log[t] : log[t][i] # e

WorkerLogged ==
  /\ At = "emitPlanned" => status[Subject] # "Absent" /\ NotLogged("Planned", Subject)
  /\ At = "emitCompleted" => status[Subject] = "Completed" /\ NotLogged("Completed", Subject)
  /\ At = "emitFailed" => status[Subject] = "Failed" /\ NotLogged("Failed", Subject)

\* Of every exec there is one planned and one last event ...
LoggedOnce ==
  /\ \A t \in {"Planned", "Completed", "Failed"} :
       \A i, j \in DOMAIN log[t] : log[t][i] = log[t][j] => i = j
  /\ \A i \in DOMAIN log["Planned"] : status[log["Planned"][i]] # "Absent"
  /\ \A t \in {"Completed", "Failed"} : \A i \in DOMAIN log[t] : status[log[t][i]] = t
  /\ WorkerLogged

NoTask(t, e) == \A i \in DOMAIN tasks : tasks[i] # <<t, e>>

WorkerHandled ==
  /\ At \in {"token", "schedule"} =>
       /\ Passed("Planned", Ex) /\ arrival[Ex] = 0
       /\ NoTask("Planned", Ex)
  /\ At = "finish" =>
       /\ Passed("Completed", Ex) \/ Passed("Failed", Ex)
       /\ Ex \notin settled /\ NoTask("Completed", Ex) /\ NoTask("Failed", Ex)

\* ... and it is in one place: not handed over yet, waiting in the pool's queue,
\* at the worker, or handled.
HandledOnce ==
  /\ \A t \in Topics : Handed(t) <= Len(log[t])
  /\ \A i \in DOMAIN tasks : Passed(tasks[i][1], tasks[i][2])
  /\ \A i, j \in DOMAIN tasks : tasks[i] = tasks[j] /\ tasks[i][1] # "Scheduled" => i = j
  /\ \A i \in DOMAIN tasks :
       /\ tasks[i][1] = "Planned" => arrival[tasks[i][2]] = 0
       /\ tasks[i][1] \in {"Completed", "Failed"} => tasks[i][2] \notin settled
  /\ WorkerHandled
  /\ \A e \in Execs : arrival[e] # 0 => Passed("Planned", e)
  /\ \A e \in settled : Passed("Completed", e) \/ Passed("Failed", e)

\* The requests that are not answered yet, in order.
Pending == batch \o requests

\* The handler of the first of them has made its first call.
Begun == At \in {"emitPlanned", "emitCompleted", "setState", "publish",
                "emitFailed", "ack"}

Reports(req, e) == req \in {<<"Complete", e>>, <<"Fail", e>>}

\* A report is made once the exec was started, and finds it so; what an exec's
\* code invoked comes before its report.
Promising ==
  /\ \A req \in Request : reqStatus[req] # "Failed"
  /\ \A i \in DOMAIN Pending : reqStatus[Pending[i]] # "None"
  /\ \A req \in Request, e \in Execs :
       Reports(req, e) /\ reqStatus[req] # "None" => status[e] \in {"Started", "Completed", "Failed"}
  /\ \A r \in Runners : runner[r].at # "idle" =>
       /\ status[runner[r].exec] = "Started"
       /\ \A req \in Request : Reports(req, runner[r].exec) => reqStatus[req] = "None"
       /\ \A s \in Runners : runner[s].at # "idle" /\ runner[s].exec = runner[r].exec => s = r
  /\ \A i \in DOMAIN Pending, e \in Execs : Reports(Pending[i], e) =>
       /\ i > 1 \/ ~Begun => status[e] = "Started"
       /\ \A j \in DOMAIN Pending : Reports(Pending[j], e) => j = i
  /\ \A i \in DOMAIN Pending, f \in Execs :
       /\ Pending[i] = <<"Invoke", f>> /\ (i > 1 \/ ~Begun)
       /\ InvokedBy[f] # NoExec
       => /\ status[InvokedBy[f]] = "Started"
          /\ \A j \in DOMAIN Pending : j < i => ~Reports(Pending[j], InvokedBy[f])
-----------------------------------------------------------------------------
\* What a step does to the worker.

LEMMA OneWorker == \A w \in Workers : w = 1
BY DEF Workers

LEMMA AppendKeeps ==
  ASSUME NEW S, NEW q \in Seq(S), NEW e \in S
  PROVE  /\ Append(q, e) \in Seq(S)
         /\ Len(q) \in Nat /\ Len(Append(q, e)) = Len(q) + 1
         /\ DOMAIN q = 1..Len(q) /\ DOMAIN Append(q, e) = 1..(Len(q) + 1)
         /\ \A i \in DOMAIN q : i \in DOMAIN Append(q, e) /\ Append(q, e)[i] = q[i]
         /\ Append(q, e)[Len(q) + 1] = e
         /\ \A i \in DOMAIN Append(q, e) :
              (i \in DOMAIN q /\ Append(q, e)[i] = q[i]) \/ (i = Len(q) + 1 /\ Append(q, e)[i] = e)
OBVIOUS

LEMMA TailKeeps ==
  ASSUME NEW S, NEW q \in Seq(S), q # << >>
  PROVE  /\ Head(q) \in S /\ Tail(q) \in Seq(S) /\ Head(q) = q[1] /\ 1 \in DOMAIN q
         /\ Len(q) \in Nat \ {0} /\ Len(Tail(q)) = Len(q) - 1
         /\ DOMAIN q = 1..Len(q) /\ DOMAIN Tail(q) = 1..(Len(q) - 1)
         /\ \A i \in DOMAIN Tail(q) : i + 1 \in DOMAIN q /\ i + 1 # 1 /\ Tail(q)[i] = q[i + 1]
OBVIOUS

LEMMA GotoMoves ==
  ASSUME worker \in [Workers -> WorkerStates],
         NEW call \in RequestCalls \cup {"idle"} \cup EventCalls, Goto(1, call)
  PROVE  worker' \in [Workers -> WorkerStates] /\ At' = call /\ Ex' = Ex /\ Sch' = Sch
<1>1. 1 \in Workers
  BY DEF Workers
<1>2. worker[1] \in WorkerStates /\ worker' = [worker EXCEPT ![1] = [worker[1] EXCEPT !.at = call]]
  BY <1>1 DEF Goto
<1>3. [worker[1] EXCEPT !.at = call] \in WorkerStates
  BY <1>2 DEF WorkerStates
<1>4. worker'[1] = [worker[1] EXCEPT !.at = call]
  BY <1>1, <1>2
<1> QED
  BY <1>1, <1>2, <1>3, <1>4 DEF At, Ex, Sch, WorkerStates

LEMMA EmitMoves ==
  ASSUME worker \in [Workers -> WorkerStates], NEW e \in Execs,
         worker' = [worker EXCEPT ![1].at = "emitScheduled", ![1].scheduled = e]
  PROVE  /\ worker' \in [Workers -> WorkerStates]
         /\ At' = "emitScheduled" /\ Ex' = Ex /\ Sch' = e
<1> DEFINE s == [worker[1] EXCEPT !.at = "emitScheduled", !.scheduled = e]
<1>1. 1 \in Workers /\ worker[1] \in WorkerStates
  BY DEF Workers
<1>2. s \in WorkerStates /\ s.at = "emitScheduled" /\ s.exec = worker[1].exec /\ s.scheduled = e
  BY <1>1 DEF WorkerStates, EventCalls
<1>3. worker' = [worker EXCEPT ![1] = s]
  BY <1>1
<1> HIDE DEF s
<1>4. worker'[1] = s /\ worker' \in [Workers -> WorkerStates]
  BY <1>1, <1>2, <1>3
<1> QED
  BY <1>2, <1>4 DEF At, Ex, Sch

LEMMA RunMoves ==
  ASSUME worker \in [Workers -> WorkerStates], RunTask(1),
         Head(tasks)[2] \in Execs, FirstOf[Head(tasks)[1]] \in EventCalls
  PROVE  /\ worker' \in [Workers -> WorkerStates]
         /\ At' = FirstOf[Head(tasks)[1]] /\ Ex' = Head(tasks)[2]
<1> DEFINE s == [at |-> FirstOf[Head(tasks)[1]], exec |-> Head(tasks)[2], scheduled |-> NoExec]
<1>1. 1 \in Workers /\ s \in WorkerStates
  BY DEF Workers, WorkerStates
<1>2. worker' = [worker EXCEPT ![1] = s]
  BY DEF RunTask
<1>3. s.at = FirstOf[Head(tasks)[1]] /\ s.exec = Head(tasks)[2]
  OBVIOUS
<1> HIDE DEF s
<1>4. worker'[1] = s /\ worker' \in [Workers -> WorkerStates]
  BY <1>1, <1>2
<1> QED
  BY <1>3, <1>4 DEF At, Ex

LEMMA DoneIdles ==
  ASSUME worker \in [Workers -> WorkerStates], Done(1)
  PROVE  worker' \in [Workers -> WorkerStates] /\ At' = "idle" /\ worker'[1] = Idle
<1>1. 1 \in Workers /\ Idle \in WorkerStates
  BY DEF Workers, Idle, WorkerStates
<1> QED
  BY <1>1 DEF Done, At, Idle

LEMMA IdleIs == ASSUME worker[1] = Idle  PROVE At = "idle"
BY DEF At, Idle

\* The first request of a batch.
LEMMA SubjectIs ==
  ASSUME RequestsOK, batch # << >>
  PROVE  Subject \in Execs /\ Head(batch) \in Request /\ Head(batch) = <<Head(batch)[1], Subject>>
         /\ Head(batch)[1] \in {"Invoke", "Complete", "Fail"}
<1>1. Head(batch) \in Request
  BY DEF RequestsOK
<1> QED
  BY <1>1 DEF Request, Subject

LEMMA TakeBatchTakes ==
  ASSUME Typed, TakeBatch(1)
  PROVE  /\ At = "idle" /\ At' = "authorize" /\ Ex' = Ex /\ Sch' = Sch
         /\ batch = << >> /\ batch' # << >>
         /\ batch' \in Seq(Request) /\ requests' \in Seq(Request)
         /\ batch' \o requests' = requests
         /\ reqStatus' \in [Request -> {"None", "Submitted", "Processing", "Completed", "Failed"}]
         /\ worker' \in [Workers -> WorkerStates]
<1> DEFINE n == IF Len(requests) < BatchLimit THEN Len(requests) ELSE BatchLimit
<1>1. /\ worker[1] = Idle /\ requests # << >>
      /\ batch' = SubSeq(requests, 1, n) /\ requests' = SubSeq(requests, n + 1, Len(requests))
      /\ reqStatus' = [r \in Request |->
                     IF \E i \in 1..n : requests[i] = r THEN "Processing" ELSE reqStatus[r]]
      /\ Goto(1, "authorize")
  BY DEF TakeBatch
<1>2. requests \in Seq(Request) /\ Len(requests) \in Nat \ {0} /\ BatchLimit \in Nat \ {0}
  BY <1>1, BatchLimitAssumption DEF Typed, RequestsOK
<1>3. n \in 1..Len(requests)
  BY <1>2
<1> HIDE DEF n
<1>4. /\ batch' \in Seq(Request) /\ requests' \in Seq(Request)
      /\ Len(batch') = n /\ Len(requests') = Len(requests) - n
  BY <1>1, <1>2, <1>3
<1>5. batch' \o requests' = requests
  <2>1. SubSeq(requests, 1, n) \o SubSeq(requests, n + 1, Len(requests))
          = SubSeq(requests, 1, Len(requests))
    BY <1>2, <1>3, ConcatAdjacentSubSeq
  <2> QED
    BY <1>1, <1>2, <2>1, SubSeqFull
<1>6. batch' # << >>
  BY <1>3, <1>4
<1>7. At = "idle" /\ batch = << >>
  BY <1>1, IdleIs DEF Typed, WorkerOK, RequestCalls
<1>8. reqStatus' \in [Request -> {"None", "Submitted", "Processing", "Completed", "Failed"}]
  BY <1>1 DEF Typed, RequestsOK
<1> QED
  BY <1>1, <1>4, <1>5, <1>6, <1>7, <1>8, GotoMoves DEF Typed, WorkerOK, RequestCalls

LEMMA AnswerAnswers ==
  ASSUME Typed, batch # << >>, NEW outcome \in {"Completed", "Failed"}, Answer(1, outcome)
  PROVE  /\ At' \in {"idle", "authorize"} /\ Ex' = Ex /\ Sch' = Sch
         /\ At' = "authorize" <=> batch' # << >>
         /\ batch' = Tail(batch) /\ batch' \in Seq(Request)
         /\ reqStatus' = [reqStatus EXCEPT ![Head(batch)] = outcome]
         /\ reqStatus' \in [Request -> {"None", "Submitted", "Processing", "Completed", "Failed"}]
         /\ worker' \in [Workers -> WorkerStates]
<1> DEFINE next == IF Len(batch) = 1 THEN "idle" ELSE "authorize"
<1>1. /\ batch' = Tail(batch) /\ Goto(1, next)
      /\ reqStatus' = [reqStatus EXCEPT ![Head(batch)] = outcome]
  BY DEF Answer
<1>2. batch \in Seq(Request) /\ Len(batch) \in Nat \ {0}
  BY DEF Typed, RequestsOK
<1>3. batch' \in Seq(Request) /\ Len(batch') = Len(batch) - 1
  BY <1>1, <1>2
<1>4. batch' # << >> <=> Len(batch) # 1
  BY <1>2, <1>3
<1>5. next \in {"idle", "authorize"} /\ (next = "authorize" <=> batch' # << >>)
  BY <1>4
<1> HIDE DEF next
<1>6. next \in RequestCalls \cup {"idle"} \cup EventCalls
  BY <1>5 DEF RequestCalls
<1> QED
  BY <1>1, <1>3, <1>5, <1>6, GotoMoves DEF Typed, WorkerOK, RequestsOK

\* A call of a request's handler moves the worker on and leaves the rest alone.
LEMMA HandlingMoves ==
  ASSUME Typed, NEW call, NEW next \in RequestCalls, Handling(1, call, next)
  PROVE  /\ At = call /\ At' = next /\ Ex' = Ex /\ Sch' = Sch
         /\ worker' \in [Workers -> WorkerStates] /\ Subject' = Subject
         /\ UNCHANGED <<requests, reqStatus, batch, arrivals, arrival, settled, tasks,
                        committed, handing, runner, crashes>>
BY GotoMoves DEF Handling, At, Typed, WorkerOK, history, Subject

LEMMA RefuseRefuses ==
  ASSUME Typed, At \in RequestCalls, Refuse(1)
  PROVE  /\ At' \in {"idle", "authorize"} /\ Ex' = Ex /\ Sch' = Sch
         /\ At' = "authorize" <=> batch' # << >>
         /\ batch # << >> /\ batch' = Tail(batch) /\ batch' \in Seq(Request)
         /\ reqStatus' = [reqStatus EXCEPT ![Head(batch)] = "Failed"]
         /\ reqStatus' \in [Request -> {"None", "Submitted", "Processing", "Completed", "Failed"}]
         /\ worker' \in [Workers -> WorkerStates]
         /\ UNCHANGED <<status, requests, log, committed, tokens, state, published, inflight,
                        backlog, execs, arrivals, arrival, settled, tasks, handing, runner, crashes>>
<1>1. batch # << >>
  BY DEF Typed, WorkerOK
<1>2. /\ Answer(1, "Failed")
      /\ UNCHANGED <<status, requests, log, committed, tokens, state, published, inflight,
                     backlog, execs, arrivals, arrival, settled, tasks, handing, runner, crashes>>
  BY DEF Refuse, service, history
<1> QED
  BY <1>1, <1>2, AnswerAnswers

\* The planned event of Ex: it is scheduled, or waits, or is long since under way.
LEMMA ScheduleDoes ==
  ASSUME Typed, ScheduleOrBacklog(1)
  PROVE  /\ At = "schedule" /\ Ex \in Execs /\ Orch!PlannedHandled(Ex)
         /\ UNCHANGED <<requests, reqStatus, batch, committed, state, published, tasks, handing,
                        runner, crashes, log, tokens, settled>>
         /\ arrivals' = arrivals + 1 /\ arrival' = [arrival EXCEPT ![Ex] = arrivals + 1]
         /\ ServiceOK' /\ worker' \in [Workers -> WorkerStates]
         /\ \A c \in Correlations : \A i \in DOMAIN backlog'[c] :
              backlog'[c][i] = Ex \/ \E k \in DOMAIN backlog[c] : backlog'[c][i] = backlog[c][k]
         /\ \/ status' = status /\ At' = "idle"
            \/ /\ status[Ex] = "Planned" /\ status' = [status EXCEPT ![Ex] = "Scheduled"]
               /\ At' = "emitScheduled" /\ Ex' = Ex /\ Sch' = Ex
<1>1. /\ At = "schedule" /\ Orch!PlannedHandled(Ex)
      /\ UNCHANGED <<requests, reqStatus, batch, committed, state, published, tasks, handing,
                     runner, crashes, log, tokens>>
      /\ IF NewlyScheduled = {} THEN Done(1)
         ELSE \E e \in NewlyScheduled :
                worker' = [worker EXCEPT ![1].at = "emitScheduled", ![1].scheduled = e]
  BY DEF ScheduleOrBacklog, Serving, At, Ex
<1>2. /\ Ex \in Execs /\ ServiceOK /\ worker \in [Workers -> WorkerStates]
      /\ status \in [Execs -> Lifecycle!Statuses]
  BY <1>1 DEF Typed, WorkerOK, EventCalls, StoreOK
<1>3. /\ Orch!Schedule(Ex) /\ settled' = settled
      /\ arrivals' = arrivals + 1 /\ arrival' = [arrival EXCEPT ![Ex] = arrivals + 1]
  BY <1>1 DEF Orch!PlannedHandled
<1>4. \/ status' = status
      \/ status[Ex] = "Planned" /\ status' = [status EXCEPT ![Ex] = "Scheduled"]
  BY <1>3 DEF Orch!Schedule, Orch!ScheduleExec, Orch!Lifecycle!Schedule, Orch!Lifecycle!Advance
<1>0. /\ inflight' = inflight \/ \E c \in Correlations : inflight' = [inflight EXCEPT ![c] = Ex]
      /\ backlog' = backlog
           \/ \E c \in Correlations : backlog' = [backlog EXCEPT ![c] = Append(backlog[c], Ex)]
      /\ execs' = execs \/ execs' = execs \cup {Ex}
  BY <1>3 DEF Orch!Schedule, Orch!ScheduleExec
<1>5. /\ inflight' \in [Correlations -> Execs \cup {NoExec}]
      /\ backlog' \in [Correlations -> Seq(Execs)]
      /\ execs' \subseteq Execs
  <2>1. inflight' \in [Correlations -> Execs \cup {NoExec}]
    <3>1. Ex \in Execs /\ inflight \in [Correlations -> Execs \cup {NoExec}]
      BY <1>2 DEF ServiceOK
    <3>2. CASE \E c \in Correlations : inflight' = [inflight EXCEPT ![c] = Ex]
      BY <3>1, <3>2
    <3> QED
      BY <1>0, <3>1, <3>2
  <2>2. execs' \subseteq Execs
    BY <1>0, <1>2 DEF ServiceOK
  <2>3. backlog' \in [Correlations -> Seq(Execs)]
    <3>1. Ex \in Execs /\ backlog \in [Correlations -> Seq(Execs)]
      BY <1>2 DEF ServiceOK
    <3>2. ASSUME NEW c \in Correlations, backlog' = [backlog EXCEPT ![c] = Append(backlog[c], Ex)]
          PROVE  backlog' \in [Correlations -> Seq(Execs)]
      <4>1. Append(backlog[c], Ex) \in Seq(Execs)
        BY <3>1
      <4> QED
        BY <3>1, <3>2, <4>1
    <3> QED
      BY <1>0, <3>1, <3>2
  <2> QED
    BY <2>1, <2>2, <2>3
<1>6. ServiceOK'
  BY <1>2, <1>3, <1>5 DEF ServiceOK
<1>7. ASSUME NEW c \in Correlations, NEW i \in DOMAIN backlog'[c]
      PROVE  backlog'[c][i] = Ex \/ \E k \in DOMAIN backlog[c] : backlog'[c][i] = backlog[c][k]
  <2>1. CASE backlog' = backlog
    BY <2>1
  <2>2. ASSUME NEW d \in Correlations, backlog' = [backlog EXCEPT ![d] = Append(backlog[d], Ex)]
        PROVE  backlog'[c][i] = Ex \/ \E k \in DOMAIN backlog[c] : backlog'[c][i] = backlog[c][k]
    <3>1. CASE d = c
      <4>1. backlog'[c] = Append(backlog[c], Ex) /\ backlog[c] \in Seq(Execs)
        BY <1>2, <2>2, <3>1 DEF ServiceOK
      <4> QED
        BY <1>2, <4>1, AppendKeeps
    <3>2. CASE d # c
      <4>1. backlog'[c] = backlog[c]
        BY <1>2, <2>2, <3>2 DEF ServiceOK
      <4> QED
        BY <4>1
    <3> QED
      BY <3>1, <3>2
  <2> QED
    BY <1>0, <2>1, <2>2
<1>8. CASE status' = status
  <2>1. NewlyScheduled = {}
    BY <1>8 DEF NewlyScheduled
  <2>2. Done(1)
    BY <1>1, <2>1
  <2> QED
    BY <1>1, <1>2, <1>3, <1>6, <1>7, <1>8, <2>2, DoneIdles
<1>9. CASE status[Ex] = "Planned" /\ status' = [status EXCEPT ![Ex] = "Scheduled"]
  <2>1. NewlyScheduled = {Ex}
    BY <1>2, <1>9 DEF NewlyScheduled
  <2>2. worker' = [worker EXCEPT ![1].at = "emitScheduled", ![1].scheduled = Ex]
    BY <1>1, <2>1
  <2>3. /\ worker' \in [Workers -> WorkerStates]
        /\ At' = "emitScheduled" /\ Ex' = Ex /\ Sch' = Ex
    BY <1>2, <2>2, EmitMoves
  <2> QED
    BY <1>1, <1>2, <1>3, <1>6, <1>7, <1>9, <2>3
<1> QED
  BY <1>4, <1>8, <1>9

\* The last event of Ex: its correlation goes to the next in line, if there is one.
LEMMA FinishDoes ==
  ASSUME Typed, FinishExec(1)
  PROVE  /\ At = "finish" /\ Ex \in Execs /\ Orch!FinishedHandled(Ex)
         /\ UNCHANGED <<requests, reqStatus, batch, committed, state, published, tasks, handing,
                        runner, crashes, log, tokens, arrivals, arrival>>
         /\ settled' = settled \cup {Ex}
         /\ ServiceOK' /\ worker' \in [Workers -> WorkerStates]
         /\ \A c \in Correlations : \A i \in DOMAIN backlog'[c] :
              \E k \in DOMAIN backlog[c] : backlog'[c][i] = backlog[c][k]
         /\ \/ status' = status /\ At' = "idle"
            \/ status' = status /\ At' = "revoke" /\ Ex' = Ex
            \/ \E c \in Correlations : \E k \in DOMAIN backlog[c] :
                 /\ status[backlog[c][k]] = "Planned"
                 /\ status' = [status EXCEPT ![backlog[c][k]] = "Scheduled"]
                 /\ At' = "emitScheduled" /\ Ex' = Ex /\ Sch' = backlog[c][k]
<1> DEFINE c == CorrelationOf[Ex]
           next == IF c \in Correlations /\ backlog[c] # << >> THEN {Head(backlog[c])} ELSE {}
<1>1. /\ At = "finish" /\ Orch!FinishedHandled(Ex)
      /\ UNCHANGED <<requests, reqStatus, batch, committed, state, published, tasks, handing,
                     runner, crashes, log, tokens>>
      /\ CASE NewlyScheduled # {} ->
                worker' = [worker EXCEPT ![1].at = "emitScheduled",
                                         ![1].scheduled = CHOOSE e \in next : TRUE]
           [] NewlyScheduled = {} /\ next = {} -> Goto(1, "revoke")
           [] NewlyScheduled = {} /\ next # {} -> Done(1)
  BY DEF FinishExec, Serving, At, Ex
<1>2. /\ Ex \in Execs /\ ServiceOK /\ worker \in [Workers -> WorkerStates]
      /\ status \in [Execs -> Lifecycle!Statuses]
  BY <1>1 DEF Typed, WorkerOK, EventCalls, StoreOK
<1>3. Orch!Finish(Ex) /\ settled' = settled \cup {Ex} /\ arrivals' = arrivals /\ arrival' = arrival
  BY <1>1 DEF Orch!FinishedHandled
<1>4. CASE c \in Correlations /\ backlog[c] # << >>
  <2> DEFINE n == Head(backlog[c])
  <2>1. /\ inflight' = [inflight EXCEPT ![c] = n]
        /\ backlog'  = [backlog EXCEPT ![c] = Tail(backlog[c])]
        /\ Orch!ScheduleExec(n, {Ex})
    BY <1>3, <1>4, CorrelationsAssumption DEF Orch!Finish
  <2>2. /\ backlog[c] \in Seq(Execs) /\ n \in Execs /\ Tail(backlog[c]) \in Seq(Execs)
        /\ 1 \in DOMAIN backlog[c] /\ n = backlog[c][1]
        /\ \A i \in DOMAIN Tail(backlog[c]) :
             \E k \in DOMAIN backlog[c] : Tail(backlog[c])[i] = backlog[c][k]
    <3>1. backlog[c] \in Seq(Execs)
      BY <1>2, <1>4 DEF ServiceOK
    <3> QED
      BY <1>4, <3>1, TailKeeps
  <2>3. ASSUME NEW d \in Correlations, NEW i \in DOMAIN backlog'[d]
        PROVE  \E k \in DOMAIN backlog[d] : backlog'[d][i] = backlog[d][k]
    <3>1. CASE d = c
      <4>1. backlog'[d] = Tail(backlog[c])
        BY <1>2, <1>4, <2>1, <3>1 DEF ServiceOK
      <4> QED
        BY <2>2, <3>1, <4>1
    <3>2. CASE d # c
      <4>1. backlog'[d] = backlog[d]
        BY <1>2, <2>1, <3>2 DEF ServiceOK
      <4> QED
        BY <4>1
    <3> QED
      BY <3>1, <3>2
  <2>4. \/ status[n] = "Planned" /\ status' = [status EXCEPT ![n] = "Scheduled"]
           /\ execs' = execs \cup {n} \cup {Ex}
        \/ status' = status /\ execs' = execs
    BY <2>1 DEF Orch!ScheduleExec, Orch!Lifecycle!Schedule, Orch!Lifecycle!Advance
  <2> HIDE DEF n
  <2>5. ServiceOK'
    <3>1. /\ inflight' \in [Correlations -> Execs \cup {NoExec}]
          /\ backlog' \in [Correlations -> Seq(Execs)]
          /\ execs' \subseteq Execs /\ settled' \subseteq Execs
      BY <1>2, <1>3, <2>1, <2>2, <2>4 DEF ServiceOK
    <3> QED
      BY <1>2, <1>3, <3>1 DEF ServiceOK
  <2>6. next = {n}
    BY <1>4 DEF n
  <2>7. CASE status[n] = "Planned" /\ status' = [status EXCEPT ![n] = "Scheduled"]
    <3>1. NewlyScheduled # {}
      BY <1>2, <2>2, <2>7 DEF NewlyScheduled
    <3>2. worker' = [worker EXCEPT ![1].at = "emitScheduled",
                                   ![1].scheduled = CHOOSE e \in next : TRUE]
      BY <1>1, <3>1
    <3>3. (CHOOSE e \in next : TRUE) = n
      BY <2>6
    <3>4. worker' = [worker EXCEPT ![1].at = "emitScheduled", ![1].scheduled = n]
      BY <3>2, <3>3
    <3>5. /\ worker' \in [Workers -> WorkerStates]
          /\ At' = "emitScheduled" /\ Ex' = Ex /\ Sch' = n
      BY <1>2, <2>2, <3>4, EmitMoves
    <3> QED
      BY <1>1, <1>2, <1>3, <1>4, <2>2, <2>3, <2>5, <2>7, <3>5
  <2>8. CASE status' = status
    <3>1. NewlyScheduled = {} /\ next # {}
      BY <2>6, <2>8 DEF NewlyScheduled
    <3>2. Done(1)
      BY <1>1, <3>1
    <3> QED
      BY <1>1, <1>2, <1>3, <2>3, <2>5, <2>8, <3>2, DoneIdles
  <2> QED
    BY <2>4, <2>7, <2>8
<1>5. CASE ~ (c \in Correlations /\ backlog[c] # << >>)
  <2>1. /\ inflight' = inflight \/ \E d \in Correlations : inflight' = [inflight EXCEPT ![d] = NoExec]
        /\ execs' = execs \cup {Ex} /\ status' = status /\ backlog' = backlog
    BY <1>3, <1>5 DEF Orch!Finish
  <2>2. ServiceOK'
    <3>1. inflight' \in [Correlations -> Execs \cup {NoExec}]
      BY <1>2, <2>1 DEF ServiceOK
    <3> QED
      BY <1>2, <1>3, <2>1, <3>1 DEF ServiceOK
  <2>3. NewlyScheduled = {} /\ next = {}
    BY <1>5, <2>1 DEF NewlyScheduled
  <2>4. Goto(1, "revoke")
    BY <1>1, <2>3
  <2>5. At' = "revoke" /\ Ex' = Ex /\ worker' \in [Workers -> WorkerStates]
    BY <1>2, <2>4, GotoMoves DEF EventCalls
  <2> QED
    BY <1>1, <1>2, <1>3, <2>1, <2>2, <2>5
<1> QED
  BY <1>4, <1>5
-----------------------------------------------------------------------------
\* Types.

LEMMA Keeps ==
  ASSUME Typed
  PROVE  /\ UNCHANGED <<status, tokens, state, published, crashes>> => StoreOK'
         /\ UNCHANGED <<inflight, backlog, execs, arrivals, arrival, settled>> => ServiceOK'
         /\ UNCHANGED <<requests, batch, reqStatus>> => RequestsOK'
         /\ UNCHANGED <<tasks, log, committed, handing>> => EventsOK'
         /\ UNCHANGED runner => RunnersOK'
         /\ UNCHANGED <<worker, batch>> => WorkerOK'
BY DEF Typed, StoreOK, ServiceOK, RequestsOK, EventsOK, RunnersOK, WorkerOK, At, Ex, Sch

LEMMA TypedInit == Init => Typed
<1> SUFFICES ASSUME Init  PROVE Typed
  OBVIOUS
<1>0. Idle \in WorkerStates /\ 1 \in Workers /\ Idle.at = "idle"
  BY DEF Idle, WorkerStates, Workers
<1>1. StoreOK
  BY MaxCrashesAssumption DEF Init, StoreOK, Orch!Init, Orch!Lifecycle!Init, Lifecycle!Statuses
<1>2. ServiceOK
  BY DEF Init, ServiceOK, Orch!Init
<1>3. RequestsOK
  BY DEF Init, RequestsOK
<1>4. EventsOK
  BY DEF Init, EventsOK
<1>5. RunnersOK
  BY DEF Init, RunnersOK, Free
<1>6. WorkerOK
  <2>1. worker \in [Workers -> WorkerStates] /\ At = "idle" /\ batch = << >>
    BY <1>0 DEF Init, At
  <2> QED
    BY <2>1 DEF WorkerOK, RequestCalls, EventCalls
<1> QED
  BY <1>1, <1>2, <1>3, <1>4, <1>5, <1>6 DEF Typed

LEMMA SubmitTyped ==
  ASSUME RequestsOK, NEW req \in Request, Submit(req)
  PROVE  /\ requests' \in Seq(Request) /\ requests' = Append(requests, req)
         /\ reqStatus[req] = "None"
         /\ reqStatus' = [reqStatus EXCEPT ![req] = "Submitted"]
         /\ reqStatus' \in [Request -> {"None", "Submitted", "Processing", "Completed", "Failed"}]
BY DEF Submit, RequestsOK

\* The status of an exec only ever moves to another status.
LEMMA AdvanceTyped ==
  ASSUME StoreOK, NEW e \in Execs, NEW to \in Lifecycle!Statuses,
         status' = [status EXCEPT ![e] = to]
  PROVE  status' \in [Execs -> Lifecycle!Statuses]
BY DEF StoreOK

\* A call of a request's handler keeps the types of what it leaves alone.
LEMMA HandlingTyped ==
  ASSUME Typed, NEW call \in RequestCalls, NEW next \in RequestCalls, Handling(1, call, next),
         next \in {"plan", "emitPlanned"} => Head(batch)[1] = "Invoke",
         next \in {"complete", "emitCompleted", "setState", "publish"} => Head(batch)[1] = "Complete",
         next \in {"fail", "emitFailed"} => Head(batch)[1] = "Fail"
  PROVE  RequestsOK' /\ RunnersOK' /\ WorkerOK' /\ batch # << >> /\ Subject \in Execs
<1>1. /\ At = call /\ At' = next /\ worker' \in [Workers -> WorkerStates]
      /\ UNCHANGED <<requests, reqStatus, batch, runner>>
  BY HandlingMoves
<1>2. batch # << >>
  BY <1>1 DEF Typed, WorkerOK
<1>3. next \notin EventCalls
  BY DEF RequestCalls, EventCalls
<1> QED
  BY <1>1, <1>2, <1>3, Keeps, SubjectIs DEF WorkerOK, Typed, EventCalls

LEMMA EmitTyped ==
  ASSUME EventsOK, NEW topic \in Topics, NEW e \in Execs, Emit(topic, e),
         UNCHANGED <<tasks, committed, handing>>
  PROVE  EventsOK' /\ log' = [log EXCEPT ![topic] = Append(log[topic], e)]
<1>1. log' = [log EXCEPT ![topic] = Append(log[topic], e)]
  BY DEF Emit
<1>2. Append(log[topic], e) \in Seq(Execs)
  BY DEF EventsOK
<1>3. log' \in [Topics -> Seq(Execs)]
  BY <1>1, <1>2 DEF EventsOK
<1> QED
  BY <1>1, <1>3 DEF EventsOK

LEMMA RefuseTyped ==
  ASSUME Typed, At \in RequestCalls, Refuse(1)
  PROVE  Typed'
<1>1. /\ At' \in {"idle", "authorize"} /\ (At' = "authorize" <=> batch' # << >>)
      /\ batch' \in Seq(Request)
      /\ reqStatus' \in [Request -> {"None", "Submitted", "Processing", "Completed", "Failed"}]
      /\ worker' \in [Workers -> WorkerStates]
      /\ UNCHANGED <<status, requests, log, committed, tokens, state, published, inflight,
                     backlog, execs, arrivals, arrival, settled, tasks, handing, runner, crashes>>
  BY RefuseRefuses
<1>2. RequestsOK'
  BY <1>1 DEF Typed, RequestsOK
<1>3. WorkerOK'
  BY <1>1 DEF WorkerOK, RequestCalls, EventCalls
<1> QED
  BY <1>1, <1>2, <1>3, Keeps DEF Typed

LEMMA RequestStepTyped ==
  ASSUME Typed,
         \/ Authorize(1) \/ PlanExec(1) \/ EmitPlanned(1) \/ CompleteExec(1) \/ EmitCompleted(1)
         \/ SetState(1) \/ Publish(1) \/ FailExec(1) \/ EmitFailed(1)
  PROVE  Typed'
<1>0. {"authorize", "plan", "emitPlanned", "complete", "emitCompleted", "setState", "publish",
       "fail", "emitFailed", "ack"} = RequestCalls
  BY DEF RequestCalls
<1>1. CASE Authorize(1)
  <2>1. CASE Refuse(1) /\ At = "authorize"
    BY <1>0, <2>1, RefuseTyped
  <2>2. CASE Handling(1, "authorize", FirstCall) /\ UNCHANGED <<status, log, tokens, state, published, service>>
    <3>1. batch # << >> /\ Head(batch)[1] \in {"Invoke", "Complete", "Fail"}
      BY <2>2, <1>0, SubjectIs DEF Typed, WorkerOK, Handling, At
    <3>2. /\ FirstCall \in {"plan", "complete", "fail"}
          /\ FirstCall = "plan" => Head(batch)[1] = "Invoke"
          /\ FirstCall = "complete" => Head(batch)[1] = "Complete"
          /\ FirstCall = "fail" => Head(batch)[1] = "Fail"
      BY <3>1 DEF FirstCall
    <3>3. RequestsOK' /\ RunnersOK' /\ WorkerOK'
      BY <1>0, <2>2, <3>2, HandlingTyped
    <3>4. UNCHANGED <<arrivals, arrival, settled, tasks, committed, handing, crashes>>
      BY <2>2 DEF Handling, history
    <3> QED
      BY <2>2, <3>3, <3>4, Keeps DEF Typed, service
  <2> QED
    BY <1>1, <2>1, <2>2 DEF Authorize, At
<1>2. CASE Handling(1, "plan", "emitPlanned") /\ Lifecycle!Plan(Subject)
              /\ UNCHANGED <<log, tokens, state, published, service>>
  <2>1. At = "plan" /\ UNCHANGED <<arrivals, arrival, settled, tasks, committed, handing, crashes>>
    BY <1>2 DEF Handling, history, At
  <2>2. Head(batch)[1] = "Invoke"
    BY <2>1 DEF Typed, WorkerOK
  <2>3. RequestsOK' /\ RunnersOK' /\ WorkerOK' /\ Subject \in Execs
    BY <1>0, <1>2, <2>2, HandlingTyped
  <2>4. status' \in [Execs -> Lifecycle!Statuses]
    BY <1>2, <2>3 DEF Lifecycle!Plan, Lifecycle!Advance, Lifecycle!Statuses, Typed, StoreOK
  <2>5. StoreOK'
    BY <1>2, <2>1, <2>4 DEF Typed, StoreOK
  <2> QED
    BY <1>2, <2>1, <2>3, <2>5, Keeps DEF Typed, service
<1>3. CASE EmitPlanned(1)
  <2>1. /\ Handling(1, "emitPlanned", "ack") /\ Emit("Planned", Subject)
        /\ UNCHANGED <<status, tokens, state, published, inflight, backlog, execs>>
        /\ At = "emitPlanned" /\ UNCHANGED <<arrivals, arrival, settled, tasks, committed, handing, crashes>>
    BY <1>3 DEF EmitPlanned, Handling, history, service, At
  <2>2. Head(batch)[1] = "Invoke"
    BY <2>1 DEF Typed, WorkerOK
  <2>3. RequestsOK' /\ RunnersOK' /\ WorkerOK' /\ Subject \in Execs
    BY <1>0, <2>1, <2>2, HandlingTyped
  <2>4. EventsOK'
    BY <2>1, <2>3, EmitTyped DEF Typed, Topics
  <2> QED
    BY <2>1, <2>3, <2>4, Keeps DEF Typed
<1>4. CASE Handling(1, "complete", "emitCompleted") /\ Lifecycle!Complete(Subject)
              /\ UNCHANGED <<log, tokens, state, published, service>>
  <2>1. At = "complete" /\ UNCHANGED <<arrivals, arrival, settled, tasks, committed, handing, crashes>>
    BY <1>4 DEF Handling, history, At
  <2>2. Head(batch)[1] = "Complete"
    BY <2>1 DEF Typed, WorkerOK
  <2>3. RequestsOK' /\ RunnersOK' /\ WorkerOK' /\ Subject \in Execs
    BY <1>0, <1>4, <2>2, HandlingTyped
  <2>4. status' \in [Execs -> Lifecycle!Statuses]
    BY <1>4, <2>3 DEF Lifecycle!Complete, Lifecycle!Advance, Lifecycle!Statuses, Typed, StoreOK
  <2>5. StoreOK'
    BY <1>4, <2>1, <2>4 DEF Typed, StoreOK
  <2> QED
    BY <1>4, <2>1, <2>3, <2>5, Keeps DEF Typed, service
<1>5. CASE EmitCompleted(1)
  <2>1. /\ Handling(1, "emitCompleted", "setState") /\ Emit("Completed", Subject)
        /\ UNCHANGED <<status, tokens, state, published, inflight, backlog, execs>>
        /\ At = "emitCompleted" /\ UNCHANGED <<arrivals, arrival, settled, tasks, committed, handing, crashes>>
    BY <1>5 DEF EmitCompleted, Handling, history, service, At
  <2>2. Head(batch)[1] = "Complete"
    BY <2>1 DEF Typed, WorkerOK
  <2>3. RequestsOK' /\ RunnersOK' /\ WorkerOK' /\ Subject \in Execs
    BY <1>0, <2>1, <2>2, HandlingTyped
  <2>4. EventsOK'
    BY <2>1, <2>3, EmitTyped DEF Typed, Topics
  <2> QED
    BY <2>1, <2>3, <2>4, Keeps DEF Typed
<1>6. CASE SetState(1)
  <2>1. /\ Handling(1, "setState", "publish") /\ UNCHANGED <<status, log, tokens, published>>
        /\ state' = [c \in Correlations |-> IF c = CorrelationOf[Subject] THEN Subject ELSE state[c]]
        /\ At = "setState" /\ UNCHANGED <<inflight, backlog, execs>>
        /\ UNCHANGED <<arrivals, arrival, settled, tasks, committed, handing, crashes>>
    BY <1>6 DEF SetState, Handling, history, service, At
  <2>2. Head(batch)[1] = "Complete"
    BY <2>1 DEF Typed, WorkerOK
  <2>3. RequestsOK' /\ RunnersOK' /\ WorkerOK' /\ Subject \in Execs
    BY <1>0, <2>1, <2>2, HandlingTyped
  <2>4. StoreOK'
    BY <2>1, <2>3 DEF Typed, StoreOK
  <2> QED
    BY <2>1, <2>3, <2>4, Keeps DEF Typed
<1>7. CASE Publish(1)
  <2>1. /\ Handling(1, "publish", "ack") /\ UNCHANGED <<status, log, tokens, state>>
        /\ published' = Append(published, Subject) /\ UNCHANGED <<inflight, backlog, execs>>
        /\ UNCHANGED <<arrivals, arrival, settled, tasks, committed, handing, crashes>>
    BY <1>7 DEF Publish, Handling, history, service
  <2>2. RequestsOK' /\ RunnersOK' /\ WorkerOK' /\ Subject \in Execs
    BY <1>0, <2>1, HandlingTyped
  <2>3. StoreOK'
    BY <2>1, <2>2 DEF Typed, StoreOK
  <2> QED
    BY <2>1, <2>2, <2>3, Keeps DEF Typed
<1>8. CASE Handling(1, "fail", "emitFailed") /\ Lifecycle!Fail(Subject)
              /\ UNCHANGED <<log, tokens, state, published, service>>
  <2>1. At = "fail" /\ UNCHANGED <<arrivals, arrival, settled, tasks, committed, handing, crashes>>
    BY <1>8 DEF Handling, history, At
  <2>2. Head(batch)[1] = "Fail"
    BY <2>1 DEF Typed, WorkerOK
  <2>3. RequestsOK' /\ RunnersOK' /\ WorkerOK' /\ Subject \in Execs
    BY <1>0, <1>8, <2>2, HandlingTyped
  <2>4. status' \in [Execs -> Lifecycle!Statuses]
    BY <1>8, <2>3 DEF Lifecycle!Fail, Lifecycle!Advance, Lifecycle!Statuses, Typed, StoreOK
  <2>5. StoreOK'
    BY <1>8, <2>1, <2>4 DEF Typed, StoreOK
  <2> QED
    BY <1>8, <2>1, <2>3, <2>5, Keeps DEF Typed, service
<1>9. CASE EmitFailed(1)
  <2>1. /\ Handling(1, "emitFailed", "ack") /\ Emit("Failed", Subject)
        /\ UNCHANGED <<status, tokens, state, published, inflight, backlog, execs>>
        /\ At = "emitFailed" /\ UNCHANGED <<arrivals, arrival, settled, tasks, committed, handing, crashes>>
    BY <1>9 DEF EmitFailed, Handling, history, service, At
  <2>2. Head(batch)[1] = "Fail"
    BY <2>1 DEF Typed, WorkerOK
  <2>3. RequestsOK' /\ RunnersOK' /\ WorkerOK' /\ Subject \in Execs
    BY <1>0, <2>1, <2>2, HandlingTyped
  <2>4. EventsOK'
    BY <2>1, <2>3, EmitTyped DEF Typed, Topics
  <2> QED
    BY <2>1, <2>3, <2>4, Keeps DEF Typed
<1>10. CASE Refuse(1) /\ At \in {"complete", "fail"}
  BY <1>0, <1>10, RefuseTyped
<1>11. ASSUME PlanExec(1)  PROVE Typed'
  BY <1>2, <1>11 DEF PlanExec
<1>12. ASSUME CompleteExec(1)  PROVE Typed'
  BY <1>4, <1>10, <1>12 DEF CompleteExec, At
<1>13. ASSUME FailExec(1)  PROVE Typed'
  BY <1>8, <1>10, <1>13 DEF FailExec, At
<1> QED
  BY <1>1, <1>3, <1>5, <1>6, <1>7, <1>9, <1>11, <1>12, <1>13

LEMMA BatchStepTyped ==
  ASSUME Typed, TakeBatch(1) \/ Ack(1)
  PROVE  Typed'
<1>1. CASE TakeBatch(1)
  <2>1. /\ At' = "authorize" /\ batch' # << >>
        /\ batch' \in Seq(Request) /\ requests' \in Seq(Request)
        /\ reqStatus' \in [Request -> {"None", "Submitted", "Processing", "Completed", "Failed"}]
        /\ worker' \in [Workers -> WorkerStates]
    BY <1>1, TakeBatchTakes
  <2>2. RequestsOK' /\ WorkerOK'
    BY <2>1 DEF RequestsOK, WorkerOK, RequestCalls, EventCalls
  <2>3. UNCHANGED <<status, log, committed, tokens, state, published, inflight, backlog, execs,
                    arrivals, arrival, settled, tasks, handing, runner, crashes>>
    BY <1>1 DEF TakeBatch, service, history
  <2> QED
    BY <2>2, <2>3, Keeps DEF Typed
<1>2. CASE Ack(1)
  <2>1. /\ At = "ack" /\ Answer(1, "Completed")
        /\ UNCHANGED <<status, requests, log, committed, tokens, state, published, inflight, backlog,
                       execs, arrivals, arrival, settled, tasks, handing, runner, crashes>>
    BY <1>2 DEF Ack, At, service, history
  <2>2. batch # << >>
    BY <2>1 DEF Typed, WorkerOK, RequestCalls
  <2>3. /\ At' \in {"idle", "authorize"} /\ (At' = "authorize" <=> batch' # << >>)
        /\ batch' \in Seq(Request)
        /\ reqStatus' \in [Request -> {"None", "Submitted", "Processing", "Completed", "Failed"}]
        /\ worker' \in [Workers -> WorkerStates]
    BY <2>1, <2>2, AnswerAnswers
  <2>4. RequestsOK'
    BY <2>1, <2>3 DEF Typed, RequestsOK
  <2>5. WorkerOK'
    BY <2>3 DEF WorkerOK, RequestCalls, EventCalls
  <2> QED
    BY <2>1, <2>4, <2>5, Keeps DEF Typed
<1> QED
  BY <1>1, <1>2

LEMMA EventStepTyped ==
  ASSUME Typed,
         RunTask(1) \/ CreateToken(1) \/ ScheduleOrBacklog(1) \/ EmitScheduled(1) \/ QueueExec(1)
         \/ FinishExec(1) \/ RevokeToken(1)
  PROVE  Typed'
<1>0. worker \in [Workers -> WorkerStates] /\ EventCalls \cap RequestCalls = {}
      /\ "idle" \notin EventCalls \cup RequestCalls
  BY DEF Typed, WorkerOK, EventCalls, RequestCalls
<1>1. CASE RunTask(1)
  <2>1. worker[1] = Idle /\ tasks # << >> /\ tasks' = Tail(tasks) /\ batch' = batch
    BY <1>1 DEF RunTask
  <2>2. Head(tasks) \in Topics \X Execs /\ Tail(tasks) \in Seq(Topics \X Execs)
    BY <2>1, TailKeeps DEF Typed, EventsOK
  <2>3. Head(tasks)[1] \in Topics /\ Head(tasks)[2] \in Execs
    BY <2>2
  <2>4. FirstOf[Head(tasks)[1]] \in EventCalls \ {"emitScheduled"}
    BY <2>3 DEF FirstOf, Topics, EventCalls
  <2>5. /\ worker' \in [Workers -> WorkerStates] /\ Ex' \in Execs
        /\ At' \in EventCalls \ {"emitScheduled"}
    BY <1>1, <2>3, <2>4, RunMoves, <1>0
  <2>6. batch = << >>
    BY <1>0, <2>1, IdleIs DEF Typed, WorkerOK
  <2>7. WorkerOK'
    BY <1>0, <2>1, <2>5, <2>6 DEF WorkerOK, EventCalls
  <2>8. /\ UNCHANGED <<status, requests, reqStatus, log, committed, tokens, state, published, inflight,
                       backlog, execs, arrivals, arrival, settled, batch, handing, runner, crashes>>
    BY <1>1 DEF RunTask, durable, service, history
  <2>9. EventsOK'
    BY <2>1, <2>2, <2>8 DEF Typed, EventsOK
  <2> QED
    BY <2>7, <2>8, <2>9, Keeps DEF Typed
<1>2. CASE CreateToken(1)
  <2>1. /\ At = "token" /\ Goto(1, "schedule") /\ tokens' = [tokens EXCEPT ![Ex] = tokens[Ex] + 1]
        /\ UNCHANGED <<status, requests, reqStatus, log, committed, state, published, inflight, backlog,
                       execs, arrivals, arrival, settled, batch, tasks, handing, runner, crashes>>
    BY <1>2 DEF CreateToken, Serving, At, Ex, service, history
  <2>2. At' = "schedule" /\ Ex' = Ex /\ worker' \in [Workers -> WorkerStates]
    BY <1>0, <2>1, GotoMoves DEF EventCalls
  <2>3. StoreOK'
    <3>1. Ex \in Execs /\ tokens \in [Execs -> Nat]
      BY <2>1 DEF Typed, StoreOK, WorkerOK, EventCalls
    <3>2. tokens' \in [Execs -> Nat]
      BY <2>1, <3>1
    <3> QED
      BY <2>1, <3>2 DEF Typed, StoreOK
  <2>4. WorkerOK'
    BY <2>1, <2>2 DEF Typed, WorkerOK, EventCalls, RequestCalls
  <2> QED
    BY <2>1, <2>3, <2>4, Keeps DEF Typed
<1>3. CASE ScheduleOrBacklog(1)
  <2>1. /\ At = "schedule" /\ Ex \in Execs /\ ServiceOK' /\ worker' \in [Workers -> WorkerStates]
        /\ UNCHANGED <<requests, reqStatus, batch, committed, state, published, tasks, handing,
                       runner, crashes, log, tokens>>
        /\ \/ status' = status /\ At' = "idle"
           \/ /\ status[Ex] = "Planned" /\ status' = [status EXCEPT ![Ex] = "Scheduled"]
              /\ At' = "emitScheduled" /\ Ex' = Ex /\ Sch' = Ex
    BY <1>3, ScheduleDoes
  <2>2. StoreOK'
    BY <2>1, AdvanceTyped DEF Typed, StoreOK, Lifecycle!Statuses
  <2>3. WorkerOK'
    BY <2>1 DEF Typed, WorkerOK, EventCalls, RequestCalls
  <2> QED
    BY <2>1, <2>2, <2>3, Keeps DEF Typed
<1>4. CASE EmitScheduled(1)
  <2>1. /\ At = "emitScheduled" /\ Emit("Scheduled", Sch)
        /\ Done(1) \/ Goto(1, "revoke")
        /\ UNCHANGED <<status, tokens, requests, reqStatus, committed, state, published, inflight,
                       backlog, execs, arrivals, arrival, settled, batch, tasks, handing, runner, crashes>>
    BY <1>4 DEF EmitScheduled, Serving, At, Sch, service, history
  <2>2. Ex \in Execs /\ Sch \in Execs /\ batch = << >>
    BY <1>0, <2>1 DEF Typed, WorkerOK, EventCalls
  <2>3. /\ worker' \in [Workers -> WorkerStates]
        /\ At' = "idle" \/ (At' = "revoke" /\ Ex' = Ex)
    BY <1>0, <2>1, GotoMoves, DoneIdles DEF EventCalls
  <2>4. WorkerOK'
    BY <2>1, <2>2, <2>3 DEF WorkerOK, EventCalls, RequestCalls
  <2>5. EventsOK'
    BY <2>1, <2>2, EmitTyped DEF Typed, Topics
  <2> QED
    BY <2>1, <2>4, <2>5, Keeps DEF Typed
<1>5. CASE QueueExec(1)
  <2>1. /\ At = "queue" /\ Done(1)
        /\ status' = [status EXCEPT ![Ex] = "Queued"] \/ status' = status
        /\ UNCHANGED <<tokens, requests, reqStatus, log, committed, state, published, inflight,
                       backlog, execs, arrivals, arrival, settled, batch, tasks, handing, runner, crashes>>
    BY <1>5 DEF QueueExec, Serving, At, Ex, service, history, Lifecycle!Queue, Lifecycle!Advance
  <2>2. Ex \in Execs /\ batch = << >>
    BY <1>0, <2>1 DEF Typed, WorkerOK, EventCalls
  <2>3. StoreOK'
    BY <2>1, <2>2, AdvanceTyped DEF Typed, StoreOK, Lifecycle!Statuses
  <2>4. worker' \in [Workers -> WorkerStates] /\ At' = "idle"
    BY <1>0, <2>1, DoneIdles
  <2>5. WorkerOK'
    BY <2>1, <2>2, <2>4 DEF WorkerOK, EventCalls, RequestCalls
  <2> QED
    BY <2>1, <2>3, <2>5, Keeps DEF Typed
<1>6. CASE FinishExec(1)
  <2>1. /\ At = "finish" /\ Ex \in Execs /\ ServiceOK' /\ worker' \in [Workers -> WorkerStates]
        /\ UNCHANGED <<requests, reqStatus, batch, committed, state, published, tasks, handing,
                       runner, crashes, log, tokens>>
        /\ \/ status' = status /\ At' = "idle"
           \/ status' = status /\ At' = "revoke" /\ Ex' = Ex
           \/ \E c \in Correlations : \E k \in DOMAIN backlog[c] :
                /\ status[backlog[c][k]] = "Planned"
                /\ status' = [status EXCEPT ![backlog[c][k]] = "Scheduled"]
                /\ At' = "emitScheduled" /\ Ex' = Ex /\ Sch' = backlog[c][k]
    BY <1>6, FinishDoes
  <2>2. \A c \in Correlations : \A k \in DOMAIN backlog[c] : backlog[c][k] \in Execs
    BY DEF Typed, ServiceOK
  <2>3. StoreOK'
    BY <2>1, <2>2, AdvanceTyped DEF Typed, StoreOK, Lifecycle!Statuses
  <2>4. WorkerOK'
    BY <2>1, <2>2 DEF Typed, WorkerOK, EventCalls, RequestCalls
  <2> QED
    BY <2>1, <2>3, <2>4, Keeps DEF Typed
<1>7. CASE RevokeToken(1)
  <2>1. /\ At = "revoke" /\ Done(1)
        /\ tokens' = [tokens EXCEPT ![Ex] = IF tokens[Ex] > 0 THEN tokens[Ex] - 1 ELSE 0]
        /\ UNCHANGED <<status, requests, reqStatus, log, committed, state, published, inflight,
                       backlog, execs, arrivals, arrival, settled, batch, tasks, handing, runner, crashes>>
    BY <1>7 DEF RevokeToken, Serving, At, Ex, service, history
  <2>2. Ex \in Execs /\ batch = << >>
    BY <1>0, <2>1 DEF Typed, WorkerOK, EventCalls
  <2>3. StoreOK'
    BY <2>1, <2>2 DEF Typed, StoreOK
  <2>4. worker' \in [Workers -> WorkerStates] /\ At' = "idle"
    BY <1>0, <2>1, DoneIdles
  <2>5. WorkerOK'
    BY <2>1, <2>2, <2>4 DEF WorkerOK, EventCalls, RequestCalls
  <2> QED
    BY <2>1, <2>3, <2>5, Keeps DEF Typed
<1> QED
  BY <1>1, <1>2, <1>3, <1>4, <1>5, <1>6, <1>7

\* A request comes in from a client, from running code, or with a report.
LEMMA SubmitStepTyped ==
  ASSUME Typed, NEW req \in Request, Submit(req),
         UNCHANGED <<status, log, committed, tokens, state, published, service, history,
                     batch, worker, tasks, handing, crashes>>,
         RunnersOK'
  PROVE  Typed'
<1>1. RequestsOK'
  BY SubmitTyped DEF Typed, RequestsOK
<1> QED
  BY <1>1, Keeps DEF Typed, service, history

LEMMA RunnerMoves ==
  ASSUME RunnersOK, NEW r \in Runners, NEW s, runner' = [runner EXCEPT ![r] = s],
         s \in [at : {"idle", "starting", "running"},
                exec : Execs \cup {NoExec}, state : Execs \cup {NoExec}],
         s.at # "idle" => s.exec \in Execs
  PROVE  RunnersOK'
BY DEF RunnersOK

LEMMA BridgeStepTyped ==
  ASSUME Typed, NEW r \in Runners,
         Dequeue(r) \/ Reply(r) \/ LoseReply(r) \/ Spawn(r) \/ Report(r) \/ LoseReport(r)
  PROVE  Typed'
<1> DEFINE RunnerStates == [at : {"idle", "starting", "running"},
                            exec : Execs \cup {NoExec}, state : Execs \cup {NoExec}]
<1>0. Free \in RunnerStates /\ Free.at = "idle" /\ RunnersOK
  BY DEF Free, Typed
<1>1. CASE Dequeue(r)
  <2>1. PICK e \in Execs : /\ Lifecycle!Start(e)
                           /\ runner' = [runner EXCEPT ![r] = [at |-> "starting", exec |-> e, state |-> NoExec]]
    BY <1>1 DEF Dequeue
  <2>2. StoreOK'
    <3>1. status' = [status EXCEPT ![e] = "Started"]
      BY <2>1 DEF Lifecycle!Start, Lifecycle!Advance
    <3>2. UNCHANGED <<tokens, state, published, crashes>>
      BY <1>1 DEF Dequeue, AtBridge
    <3> QED
      BY <3>1, <3>2, AdvanceTyped DEF Typed, StoreOK, Lifecycle!Statuses
  <2>3. RunnersOK'
    <3>1. [at |-> "starting", exec |-> e, state |-> NoExec] \in RunnerStates
      OBVIOUS
    <3> QED
      BY <1>0, <2>1, <3>1, RunnerMoves
  <2>4. UNCHANGED <<requests, reqStatus, log, committed, inflight, backlog, execs,
                    arrivals, arrival, settled, batch, worker, tasks, handing>>
    BY <1>1 DEF Dequeue, AtBridge, service, history
  <2> QED
    BY <2>2, <2>3, <2>4, Keeps DEF Typed
<1>2. CASE Reply(r) \/ LoseReply(r) \/ LoseReport(r)
  <2>1. /\ \/ runner' = [runner EXCEPT ![r] = Free]
           \/ /\ runner[r].at # "idle"
              /\ \E f \in Execs \cup {NoExec} :
                   runner' = [runner EXCEPT ![r] = [at |-> "running", exec |-> runner[r].exec, state |-> f]]
        /\ UNCHANGED <<status, requests, reqStatus, log, committed, tokens, state, published, inflight,
                       backlog, execs, arrivals, arrival, settled, batch, worker, tasks, handing, crashes>>
    <3>1. CASE Reply(r)
      <4>1. state \in [Correlations -> Execs \cup {NoExec}]
        BY DEF Typed, StoreOK
      <4> QED
        BY <3>1, <4>1 DEF Reply, AtBridge, service, history
    <3>2. CASE LoseReply(r) \/ LoseReport(r)
      BY <3>2 DEF LoseReply, LoseReport, AtBridge, service, history
    <3> QED
      BY <1>2, <3>1, <3>2
  <2>2. CASE runner' = [runner EXCEPT ![r] = Free]
    <3>1. RunnersOK'
      BY <1>0, <2>2, RunnerMoves
    <3> QED
      BY <2>1, <3>1, Keeps DEF Typed
  <2>3. ASSUME NEW f \in Execs \cup {NoExec}, runner[r].at # "idle",
               runner' = [runner EXCEPT ![r] = [at |-> "running", exec |-> runner[r].exec, state |-> f]]
        PROVE  Typed'
    <3>1. runner[r].exec \in Execs
      BY <1>0, <2>3 DEF RunnersOK
    <3>2. [at |-> "running", exec |-> runner[r].exec, state |-> f] \in RunnerStates
      BY <3>1
    <3>3. RunnersOK'
      BY <1>0, <2>3, <3>1, <3>2, RunnerMoves
    <3> QED
      BY <2>1, <3>3, Keeps DEF Typed
  <2> QED
    BY <2>1, <2>2, <2>3
<1>3. CASE Spawn(r)
  <2>1. PICK e \in Execs : Submit(<<"Invoke", e>>)
    BY <1>3 DEF Spawn
  <2>2. <<"Invoke", e>> \in Request /\ RunnersOK'
    BY <1>3, Keeps DEF Spawn, Request
  <2> QED
    BY <1>3, <2>1, <2>2, SubmitStepTyped DEF Spawn, AtBridge
<1>4. CASE Report(r)
  <2>1. PICK op \in {"Complete", "Fail"} : Submit(<<op, runner[r].exec>>)
    BY <1>4 DEF Report
  <2>2. <<op, runner[r].exec>> \in Request
    BY <1>0, <1>4 DEF Report, Request, RunnersOK
  <2>3. RunnersOK'
    BY <1>0, <1>4, RunnerMoves DEF Report
  <2> QED
    BY <1>4, <2>1, <2>2, <2>3, SubmitStepTyped DEF Report, AtBridge
<1> QED
  BY <1>1, <1>2, <1>3, <1>4

LEMMA OtherStepTyped ==
  ASSUME Typed,
         \/ \E e \in Execs : ClientInvoke(e) \/ StrayReport(e)
         \/ \E t \in Topics : HandOver(t)
         \/ Commit \/ Crash \/ UNCHANGED vars
  PROVE  Typed'
<1>1. CASE \E e \in Execs : ClientInvoke(e) \/ StrayReport(e)
  <2>1. PICK e \in Execs : ClientInvoke(e) \/ StrayReport(e)
    BY <1>1
  <2>2. \A op \in {"Invoke", "Complete", "Fail"} : <<op, e>> \in Request
    BY DEF Request
  <2>3. /\ \E req \in Request : Submit(req)
        /\ UNCHANGED <<status, log, committed, tokens, state, published, service, history,
                       batch, worker, tasks, handing, crashes, runner>>
    BY <2>1, <2>2 DEF ClientInvoke, StrayReport, AtBridge
  <2> QED
    BY <2>3, SubmitStepTyped, Keeps
<1>2. CASE \E t \in Topics : HandOver(t)
  <2>1. PICK t \in Topics : HandOver(t)
    BY <1>2
  <2>2. /\ committed[t] < Len(log[t]) /\ handing' = t
        /\ tasks' = Append(tasks, <<t, log[t][committed[t] + 1]>>)
        /\ UNCHANGED <<status, requests, reqStatus, log, committed, tokens, state, published,
                       inflight, backlog, execs, arrivals, arrival, settled, batch, worker, runner, crashes>>
    BY <2>1 DEF HandOver, durable, service, history
  <2>3. log[t][committed[t] + 1] \in Execs
    BY <2>2 DEF Typed, EventsOK
  <2>4. EventsOK'
    BY <2>2, <2>3 DEF Typed, EventsOK
  <2> QED
    BY <2>2, <2>4, Keeps DEF Typed
<1>3. CASE Commit
  <2>1. /\ handing # NoTopic /\ committed' = [committed EXCEPT ![handing] = committed[handing] + 1]
        /\ handing' = NoTopic
        /\ UNCHANGED <<status, requests, reqStatus, log, tokens, state, published,
                       inflight, backlog, execs, arrivals, arrival, settled, batch, worker, runner,
                       tasks, crashes>>
    BY <1>3 DEF Commit, service, history
  <2>2. EventsOK'
    BY <2>1 DEF Typed, EventsOK
  <2> QED
    BY <2>1, <2>2, Keeps DEF Typed
<1>4. CASE Crash
  <2>1. /\ crashes < MaxCrashes /\ crashes' = crashes + 1
        /\ inflight' = [c \in Correlations |-> NoExec] /\ backlog' = [c \in Correlations |-> << >>]
        /\ execs' = {} /\ batch' = << >> /\ worker' = [w \in Workers |-> Idle]
        /\ tasks' = << >> /\ handing' = NoTopic
        /\ runner' = [r \in Runners |-> IF runner[r].at = "starting" THEN Free ELSE runner[r]]
        /\ UNCHANGED <<status, requests, reqStatus, log, committed, tokens, state, published,
                       arrivals, arrival, settled>>
    BY <1>4 DEF Crash, durable, history
  <2>2. StoreOK'
    BY <2>1, MaxCrashesAssumption DEF Typed, StoreOK
  <2>3. ServiceOK'
    BY <2>1 DEF Typed, ServiceOK
  <2>4. RequestsOK'
    BY <2>1 DEF Typed, RequestsOK
  <2>5. EventsOK'
    BY <2>1 DEF Typed, EventsOK
  <2>6. RunnersOK'
    BY <2>1 DEF Typed, RunnersOK, Free
  <2>7. WorkerOK'
    <3>1. Idle \in WorkerStates /\ 1 \in Workers /\ Idle.at = "idle"
      BY DEF Idle, WorkerStates, Workers
    <3>2. worker' \in [Workers -> WorkerStates] /\ At' = "idle"
      BY <2>1, <3>1 DEF At
    <3> QED
      BY <2>1, <3>2 DEF WorkerOK, RequestCalls, EventCalls
  <2> QED
    BY <2>2, <2>3, <2>4, <2>5, <2>6, <2>7 DEF Typed
<1>5. CASE UNCHANGED vars
  <2>1. UNCHANGED <<status, requests, reqStatus, log, committed, tokens, state, published,
                    inflight, backlog, execs, arrivals, arrival, settled, batch, worker, tasks,
                    handing, runner, crashes>>
    BY <1>5 DEF vars, durable, service, history
  <2> QED
    BY <2>1, Keeps DEF Typed
<1> QED
  BY <1>1, <1>2, <1>3, <1>4, <1>5

\* The steps, with the one worker there is.
LEMMA Steps ==
  ASSUME [Next]_vars
  PROVE  \/ TakeBatch(1) \/ Ack(1)
         \/ Authorize(1) \/ PlanExec(1) \/ EmitPlanned(1) \/ CompleteExec(1) \/ EmitCompleted(1)
         \/ SetState(1) \/ Publish(1) \/ FailExec(1) \/ EmitFailed(1)
         \/ RunTask(1) \/ CreateToken(1) \/ ScheduleOrBacklog(1) \/ EmitScheduled(1) \/ QueueExec(1)
         \/ FinishExec(1) \/ RevokeToken(1)
         \/ \E r \in Runners :
              Dequeue(r) \/ Reply(r) \/ LoseReply(r) \/ Spawn(r) \/ Report(r) \/ LoseReport(r)
         \/ \E e \in Execs : ClientInvoke(e) \/ StrayReport(e)
         \/ \E t \in Topics : HandOver(t)
         \/ Commit \/ Crash \/ UNCHANGED vars
BY OneWorker DEF Next, WorkerStep

LEMMA TypedStep == Typed /\ [Next]_vars => Typed'
BY Steps, RequestStepTyped, BatchStepTyped, EventStepTyped, BridgeStepTyped, OtherStepTyped

LEMMA TypedInvariant == Spec => []Typed
BY TypedInit, TypedStep, PTL DEF Spec

\* Every variable has its type, in every reachable state of any instance.
THEOREM TypeCorrect == Spec => []TypeOK
<1>1. Typed => TypeOK
  <2> SUFFICES ASSUME Typed  PROVE TypeOK
    OBVIOUS
  <2>1. Orch!TypeOK
    BY DEF Typed, StoreOK, ServiceOK, Orch!TypeOK, Orch!Lifecycle!Statuses, Lifecycle!Statuses
  <2>2. RequestCalls \cup {"idle"} \cup EventCalls
          = RequestCalls \cup {"idle", "token", "schedule", "emitScheduled", "queue", "finish", "revoke"}
    BY DEF EventCalls
  <2>3. worker \in [Workers ->
          [at : RequestCalls \cup {"idle", "token", "schedule", "emitScheduled", "queue",
                                   "finish", "revoke"},
           exec : Execs \cup {NoExec}, scheduled : Execs \cup {NoExec}]]
    BY <2>2 DEF Typed, WorkerOK, WorkerStates
  <2> QED
    BY <2>1, <2>3 DEF TypeOK, Typed, StoreOK, RequestsOK, EventsOK, RunnersOK
<1> QED
  BY <1>1, TypedInvariant, PTL
-----------------------------------------------------------------------------
\* Tokens.

\* What a step must not do to tokens and finished execs.
LEMMA TokenedIf ==
  ASSUME Typed, Typed', Tokened,
         \A f \in Execs : Terminated(f) => Terminated(f)',
         \A f \in Execs : tokens[f] > 0 => tokens'[f] > 0 \/ Terminated(f)',
         \A f \in Execs : status'[f] \in {"Scheduled", "Queued", "Started"} => tokens'[f] > 0,
         \A c \in Correlations : \A i \in DOMAIN backlog'[c] :
           tokens'[backlog'[c][i]] > 0 \/ \E k \in DOMAIN backlog[c] : backlog'[c][i] = backlog[c][k],
         \A t \in {"Completed", "Failed"} : \A i \in DOMAIN log'[t] :
           status'[log'[t][i]] \in {"Completed", "Failed"} \/ \E k \in DOMAIN log[t] : log'[t][i] = log[t][k],
         \A i \in DOMAIN tasks' :
           \/ tasks'[i][1] \in {"Completed", "Failed"} => status'[tasks'[i][2]] \in {"Completed", "Failed"}
           \/ \E k \in DOMAIN tasks : tasks'[i] = tasks[k],
         WorkerTokened'
  PROVE  Tokened'
<1>1. TokenLive'
  BY DEF TokenLive
<1>2. ASSUME NEW c \in Correlations, NEW i \in DOMAIN backlog'[c]
      PROVE  tokens'[backlog'[c][i]] > 0 \/ status'[backlog'[c][i]] \in {"Completed", "Failed"}
  <2>1. backlog'[c][i] \in Execs
    BY DEF Typed, ServiceOK
  <2> QED
    BY <2>1 DEF Tokened, Terminated
<1>3. ASSUME NEW t \in {"Completed", "Failed"}, NEW i \in DOMAIN log'[t]
      PROVE  status'[log'[t][i]] \in {"Completed", "Failed"}
  <2>1. log'[t][i] \in Execs
    BY DEF Typed, EventsOK, Topics
  <2> QED
    BY <2>1 DEF Tokened, Terminated
<1>4. ASSUME NEW i \in DOMAIN tasks', tasks'[i][1] \in {"Completed", "Failed"}
      PROVE  status'[tasks'[i][2]] \in {"Completed", "Failed"}
  <2>1. tasks'[i][2] \in Execs
    BY DEF Typed, EventsOK
  <2> QED
    BY <1>4, <2>1 DEF Tokened, Terminated
<1> QED
  BY <1>1, <1>2, <1>3, <1>4 DEF Tokened, Terminated

LEMMA TokenedKeeps ==
  ASSUME Typed, Typed', Tokened, UNCHANGED <<status, tokens, log, tasks>>, WorkerTokened',
         \A c \in Correlations : \A i \in DOMAIN backlog'[c] :
           tokens[backlog'[c][i]] > 0 \/ \E k \in DOMAIN backlog[c] : backlog'[c][i] = backlog[c][k]
  PROVE  Tokened'
<1>1. \A f : Terminated(f)' <=> Terminated(f)
  BY DEF Terminated
<1> QED
  BY <1>1, TokenedIf DEF Tokened, TokenLive, Terminated

LEMMA TokenedEmits ==
  ASSUME Typed, Typed', Tokened, NEW topic \in Topics, NEW e \in Execs, Emit(topic, e),
         topic \in {"Completed", "Failed"} => Terminated(e),
         UNCHANGED <<status, tokens, tasks, backlog>>, WorkerTokened'
  PROVE  Tokened'
<1>1. \A f : Terminated(f)' <=> Terminated(f)
  BY DEF Terminated
<1>2. ASSUME NEW t \in {"Completed", "Failed"}, NEW i \in DOMAIN log'[t]
      PROVE  status'[log'[t][i]] \in {"Completed", "Failed"}
               \/ \E k \in DOMAIN log[t] : log'[t][i] = log[t][k]
  <2>1. log \in [Topics -> Seq(Execs)] /\ t \in Topics
    BY DEF Typed, EventsOK, Topics
  <2>2. log' = [log EXCEPT ![topic] = Append(log[topic], e)]
    BY DEF Emit
  <2>3. CASE topic = t
    <3>1. log'[t] = Append(log[t], e) /\ log[t] \in Seq(Execs)
      BY <2>1, <2>2, <2>3
    <3> QED
      BY <2>3, <3>1, AppendKeeps DEF Terminated
  <2>4. CASE topic # t
    <3>1. log'[t] = log[t]
      BY <2>1, <2>2, <2>4
    <3> QED
      BY <3>1
  <2> QED
    BY <2>3, <2>4
<1> QED
  BY <1>1, <1>2, TokenedIf DEF Tokened, TokenLive, Terminated

LEMMA TokenedAdvances ==
  ASSUME Typed, Typed', Tokened, NEW e \in Execs, NEW to, status' = [status EXCEPT ![e] = to],
         ~Terminated(e), to \in {"Scheduled", "Queued", "Started"} => tokens[e] > 0,
         UNCHANGED <<tokens, log, tasks>>, WorkerTokened',
         \A c \in Correlations : \A i \in DOMAIN backlog'[c] :
           tokens[backlog'[c][i]] > 0 \/ \E k \in DOMAIN backlog[c] : backlog'[c][i] = backlog[c][k]
  PROVE  Tokened'
<1>1. \A f \in Execs : /\ Terminated(f) => Terminated(f)'
                       /\ status'[f] = IF f = e THEN to ELSE status[f]
  BY DEF Typed, StoreOK, Terminated
<1>2. \A f \in Execs : status'[f] \in {"Scheduled", "Queued", "Started"} => tokens'[f] > 0
  BY <1>1 DEF Tokened, TokenLive
<1> QED
  BY <1>1, <1>2, TokenedIf DEF Tokened, Terminated

LEMMA WorkerTokenedKeeps ==
  ASSUME Typed, WorkerTokened, UNCHANGED <<worker, batch>>,
         \A f \in Execs : (Terminated(f) => Terminated(f)') /\ (tokens[f] > 0 => tokens'[f] > 0)
  PROVE  WorkerTokened'
<1>1. At' = At /\ Ex' = Ex /\ Sch' = Sch /\ Subject' = Subject
  BY DEF At, Ex, Sch, Subject
<1>2. At \in {"emitCompleted", "emitFailed"} => Subject \in Execs
  BY SubjectIs DEF Typed, WorkerOK, RequestCalls
<1>3. At \in EventCalls => Ex \in Execs
  BY DEF Typed, WorkerOK
<1> QED
  BY <1>1, <1>2, <1>3 DEF WorkerTokened, EventCalls, Terminated

\* At any other call nothing is claimed of the worker.
LEMMA Harmless ==
  ASSUME At \notin {"schedule", "finish", "revoke", "emitScheduled", "emitCompleted", "emitFailed"}
  PROVE  WorkerTokened
BY DEF WorkerTokened

LEMMA TokenedInit == Init => Tokened
<1> SUFFICES ASSUME Init  PROVE Tokened
  OBVIOUS
<1>1. At = "idle"
  BY DEF Init, At, Workers, Idle
<1>2. WorkerTokened
  BY <1>1, Harmless
<1> QED
  BY <1>2 DEF Init, Tokened, TokenLive, Orch!Init, Orch!Lifecycle!Init, Topics

LEMMA RequestStepTokened ==
  ASSUME Typed, Typed', Tokened,
         \/ Authorize(1) \/ PlanExec(1) \/ EmitPlanned(1) \/ CompleteExec(1) \/ EmitCompleted(1)
         \/ SetState(1) \/ Publish(1) \/ FailExec(1) \/ EmitFailed(1)
  PROVE  Tokened'
<1>0. {"authorize", "plan", "emitPlanned", "complete", "emitCompleted", "setState", "publish",
       "fail", "emitFailed", "ack"} = RequestCalls
  BY DEF RequestCalls
<1>1. ASSUME At \in RequestCalls  PROVE Subject \in Execs /\ Head(batch)[1] \in {"Invoke", "Complete", "Fail"}
  BY <1>1, SubjectIs DEF Typed, WorkerOK
<1>2. CASE Refuse(1) /\ At \in RequestCalls
  <2>1. At' \in {"idle", "authorize"} /\ UNCHANGED <<status, tokens, log, tasks, backlog>>
    BY <1>2, RefuseRefuses
  <2>2. WorkerTokened'
    BY <2>1 DEF WorkerTokened
  <2> QED
    BY <2>1, <2>2, TokenedKeeps
<1>3. ASSUME NEW next \in {"plan", "complete", "fail", "publish", "ack"}, NEW call, At = call,
             Handling(1, call, next), UNCHANGED <<status, tokens, log, backlog>>
      PROVE  Tokened'
  <2>1. At' = next /\ UNCHANGED tasks
    BY <1>0, <1>3, HandlingMoves
  <2>2. WorkerTokened'
    BY <2>1 DEF WorkerTokened
  <2> QED
    BY <1>3, <2>1, <2>2, TokenedKeeps
<1>4. CASE Authorize(1)
  <2>1. CASE Refuse(1) /\ At = "authorize"
    BY <1>0, <1>2, <2>1
  <2>2. CASE Handling(1, "authorize", FirstCall) /\ UNCHANGED <<status, log, tokens, state, published, service>>
    <3>1. At = "authorize"
      BY <2>2 DEF Handling, At
    <3>2. FirstCall \in {"plan", "complete", "fail"}
      BY <1>0, <1>1, <3>1 DEF FirstCall
    <3> QED
      BY <1>3, <2>2, <3>1, <3>2 DEF service
  <2> QED
    BY <1>4, <2>1, <2>2 DEF Authorize, At
<1>5. CASE SetState(1) \/ Publish(1)
  BY <1>3, <1>5 DEF SetState, Publish, Handling, At, service
<1>6. ASSUME NEW topic \in Topics, NEW call \in RequestCalls, NEW next \in {"setState", "ack"},
             Handling(1, call, next), Emit(topic, Subject), UNCHANGED <<status, tokens, backlog>>,
             topic \in {"Completed", "Failed"} => call \in {"emitCompleted", "emitFailed"}
      PROVE  Tokened'
  <2>1. At = call /\ At' = next /\ UNCHANGED tasks
    BY <1>0, <1>6, HandlingMoves
  <2>2. WorkerTokened'
    BY <2>1 DEF WorkerTokened
  <2>3. topic \in {"Completed", "Failed"} => Terminated(Subject)
    BY <1>6, <2>1 DEF Tokened, WorkerTokened
  <2> QED
    BY <1>1, <1>6, <2>1, <2>2, <2>3, TokenedEmits
<1>7. CASE EmitPlanned(1) \/ EmitCompleted(1) \/ EmitFailed(1)
  BY <1>0, <1>6, <1>7 DEF EmitPlanned, EmitCompleted, EmitFailed, service, Topics
<1>8. ASSUME NEW call \in RequestCalls, NEW next \in RequestCalls, NEW to, ~Terminated(Subject),
             status' = [status EXCEPT ![Subject] = to], Handling(1, call, next),
             UNCHANGED <<log, tokens, backlog>>,
             to \notin {"Scheduled", "Queued", "Started"},
             next \in {"emitCompleted", "emitFailed"} => to \in {"Completed", "Failed"}
      PROVE  Tokened'
  <2>1. At = call /\ At' = next /\ Subject' = Subject /\ UNCHANGED tasks
    BY <1>0, <1>8, HandlingMoves
  <2>2. Subject \in Execs
    BY <1>1, <1>8, <2>1
  <2>3. status'[Subject] = to
    BY <1>8, <2>2 DEF Typed, StoreOK
  <2>4. WorkerTokened'
    BY <1>8, <2>1, <2>3 DEF WorkerTokened, Terminated, RequestCalls
  <2> QED
    BY <1>8, <2>1, <2>2, <2>4, TokenedAdvances
<1>9. ASSUME PlanExec(1)  PROVE Tokened'
  BY <1>0, <1>8, <1>9 DEF PlanExec, Lifecycle!Plan, Lifecycle!Advance, Terminated, service
<1>10. ASSUME CompleteExec(1)  PROVE Tokened'
  <2>1. CASE Refuse(1) /\ At = "complete"
    BY <1>0, <1>2, <2>1
  <2>2. CASE Handling(1, "complete", "emitCompleted") /\ Lifecycle!Complete(Subject)
             /\ UNCHANGED <<log, tokens, state, published, service>>
    BY <1>0, <1>8, <2>2 DEF Lifecycle!Complete, Lifecycle!Advance, Terminated, service
  <2> QED
    BY <1>10, <2>1, <2>2 DEF CompleteExec, At
<1>11. ASSUME FailExec(1)  PROVE Tokened'
  <2>1. CASE Refuse(1) /\ At = "fail"
    BY <1>0, <1>2, <2>1
  <2>2. CASE Handling(1, "fail", "emitFailed") /\ Lifecycle!Fail(Subject)
             /\ UNCHANGED <<log, tokens, state, published, service>>
    BY <1>0, <1>8, <2>2 DEF Lifecycle!Fail, Lifecycle!Advance, Terminated, service
  <2> QED
    BY <1>11, <2>1, <2>2 DEF FailExec, At
<1> QED
  BY <1>4, <1>5, <1>7, <1>9, <1>10, <1>11

LEMMA EventStepTokened ==
  ASSUME Typed, Typed', Tokened,
         RunTask(1) \/ CreateToken(1) \/ ScheduleOrBacklog(1) \/ EmitScheduled(1) \/ QueueExec(1)
         \/ FinishExec(1) \/ RevokeToken(1)
  PROVE  Tokened'
<1>0. worker \in [Workers -> WorkerStates] /\ (At \in EventCalls => Ex \in Execs)
  BY DEF Typed, WorkerOK
<1>1. CASE RunTask(1)
  <2>1. /\ tasks # << >> /\ tasks' = Tail(tasks)
        /\ UNCHANGED <<status, tokens, log, backlog>>
    BY <1>1 DEF RunTask, durable, service
  <2>2. /\ Head(tasks) \in Topics \X Execs /\ Head(tasks) = tasks[1] /\ 1 \in DOMAIN tasks
        /\ \A i \in DOMAIN tasks' : \E k \in DOMAIN tasks : tasks'[i] = tasks[k]
    BY <2>1, TailKeeps DEF Typed, EventsOK
  <2>3. Head(tasks)[1] \in Topics /\ Head(tasks)[2] \in Execs
    BY <2>2
  <2>4. /\ FirstOf[Head(tasks)[1]] \in {"token", "queue", "finish"}
        /\ FirstOf[Head(tasks)[1]] = "finish" => Head(tasks)[1] \in {"Completed", "Failed"}
    BY <2>3 DEF FirstOf, Topics
  <2>5. At' = FirstOf[Head(tasks)[1]] /\ Ex' = Head(tasks)[2]
    BY <1>0, <1>1, <2>3, <2>4, RunMoves DEF EventCalls
  <2>6. At' = "finish" => status[Ex'] \in {"Completed", "Failed"}
    BY <2>2, <2>4, <2>5 DEF Tokened, Terminated
  <2>7. WorkerTokened'
    BY <2>1, <2>4, <2>5, <2>6 DEF WorkerTokened, Terminated
  <2> QED
    BY <2>1, <2>2, <2>7, TokenedIf DEF Tokened, TokenLive, Terminated
<1>2. CASE CreateToken(1)
  <2>1. /\ At = "token" /\ Goto(1, "schedule") /\ tokens' = [tokens EXCEPT ![Ex] = tokens[Ex] + 1]
        /\ UNCHANGED <<status, log, backlog, tasks>>
    BY <1>2 DEF CreateToken, Serving, At, Ex, service
  <2>2. At' = "schedule" /\ Ex' = Ex /\ Ex \in Execs
    BY <1>0, <2>1, GotoMoves DEF EventCalls
  <2>3. \A f \in Execs : tokens'[f] >= tokens[f] /\ tokens[f] \in Nat /\ tokens'[f] \in Nat
    BY <2>1, <2>2 DEF Typed, StoreOK
  <2>4. tokens'[Ex] > 0
    BY <2>1, <2>2 DEF Typed, StoreOK
  <2>5. WorkerTokened'
    BY <2>2, <2>4 DEF WorkerTokened
  <2>6. \A f \in Execs : tokens[f] > 0 => tokens'[f] > 0
    BY <2>3
  <2> QED
    BY <2>1, <2>5, <2>6, TokenedIf DEF Tokened, TokenLive, Terminated
<1>3. CASE ScheduleOrBacklog(1)
  <2>1. /\ At = "schedule" /\ Ex \in Execs /\ UNCHANGED <<tasks, log, tokens>>
        /\ \A c \in Correlations : \A i \in DOMAIN backlog'[c] :
              backlog'[c][i] = Ex \/ \E k \in DOMAIN backlog[c] : backlog'[c][i] = backlog[c][k]
        /\ \/ status' = status /\ At' = "idle"
           \/ /\ status[Ex] = "Planned" /\ status' = [status EXCEPT ![Ex] = "Scheduled"]
              /\ At' = "emitScheduled" /\ Ex' = Ex /\ Sch' = Ex
    BY <1>3, ScheduleDoes
  <2>2. tokens[Ex] > 0
    BY <2>1 DEF Tokened, WorkerTokened
  <2>3. WorkerTokened'
    BY <2>1 DEF WorkerTokened
  <2>4. \A c \in Correlations : \A i \in DOMAIN backlog'[c] :
          tokens[backlog'[c][i]] > 0 \/ \E k \in DOMAIN backlog[c] : backlog'[c][i] = backlog[c][k]
    BY <2>1, <2>2
  <2> QED
    BY <2>1, <2>2, <2>3, <2>4, TokenedKeeps, TokenedAdvances DEF Terminated
<1>4. CASE EmitScheduled(1)
  <2>1. /\ At = "emitScheduled" /\ Emit("Scheduled", Sch)
        /\ IF Sch = Ex THEN Done(1) ELSE Goto(1, "revoke")
        /\ UNCHANGED <<status, tokens, backlog, tasks>>
    BY <1>4 DEF EmitScheduled, Serving, At, Sch, Ex, service
  <2>2. Sch \in Execs /\ (Sch = Ex \/ Terminated(Ex))
    BY <2>1 DEF Typed, WorkerOK, Tokened, WorkerTokened
  <2>3. At' = "idle" \/ (At' = "revoke" /\ Ex' = Ex /\ Sch # Ex)
    BY <1>0, <2>1, GotoMoves, DoneIdles DEF EventCalls
  <2>4. WorkerTokened'
    BY <2>1, <2>2, <2>3 DEF WorkerTokened, Terminated
  <2> QED
    BY <2>1, <2>2, <2>4, TokenedEmits DEF Topics
<1>5. CASE QueueExec(1)
  <2>1. /\ At = "queue" /\ Done(1) /\ UNCHANGED <<tokens, log, backlog, tasks>>
        /\ \/ status' = status
           \/ status[Ex] = "Scheduled" /\ status' = [status EXCEPT ![Ex] = "Queued"]
    BY <1>5 DEF QueueExec, Serving, At, Ex, service, Lifecycle!Queue, Lifecycle!Advance
  <2>2. Ex \in Execs /\ At' = "idle"
    BY <1>0, <2>1, DoneIdles DEF EventCalls
  <2>3. WorkerTokened'
    BY <2>2 DEF WorkerTokened
  <2>4. status[Ex] = "Scheduled" => tokens[Ex] > 0
    BY <2>2 DEF Tokened, TokenLive
  <2> QED
    BY <2>1, <2>2, <2>3, <2>4, TokenedKeeps, TokenedAdvances DEF Terminated
<1>6. CASE FinishExec(1)
  <2>1. /\ At = "finish" /\ Ex \in Execs /\ UNCHANGED <<tasks, log, tokens>>
        /\ \A c \in Correlations : \A i \in DOMAIN backlog'[c] :
             \E k \in DOMAIN backlog[c] : backlog'[c][i] = backlog[c][k]
        /\ \/ status' = status /\ At' = "idle"
           \/ status' = status /\ At' = "revoke" /\ Ex' = Ex
           \/ \E c \in Correlations : \E k \in DOMAIN backlog[c] :
                /\ status[backlog[c][k]] = "Planned"
                /\ status' = [status EXCEPT ![backlog[c][k]] = "Scheduled"]
                /\ At' = "emitScheduled" /\ Ex' = Ex /\ Sch' = backlog[c][k]
    BY <1>6, FinishDoes
  <2>2. status[Ex] \in {"Completed", "Failed"}
    BY <2>1 DEF Tokened, WorkerTokened, Terminated
  <2>3. CASE status' = status
    <3>1. WorkerTokened'
      BY <2>1, <2>2, <2>3 DEF WorkerTokened, Terminated
    <3> QED
      BY <2>1, <2>3, <3>1, TokenedKeeps
  <2>4. ASSUME NEW c \in Correlations, NEW k \in DOMAIN backlog[c],
               status[backlog[c][k]] = "Planned",
               status' = [status EXCEPT ![backlog[c][k]] = "Scheduled"],
               At' = "emitScheduled", Ex' = Ex
        PROVE  Tokened'
    <3>1. backlog[c][k] \in Execs
      BY DEF Typed, ServiceOK
    <3>2. tokens[backlog[c][k]] > 0
      BY <2>4 DEF Tokened, Terminated
    <3>3. status'[Ex] \in {"Completed", "Failed"}
      BY <2>1, <2>2, <2>4, <3>1 DEF Typed, StoreOK
    <3>4. WorkerTokened'
      BY <2>4, <3>3 DEF WorkerTokened, Terminated
    <3> DEFINE n == backlog[c][k]
    <3>5. n \in Execs /\ ~Terminated(n) /\ status' = [status EXCEPT ![n] = "Scheduled"] /\ tokens[n] > 0
      BY <2>4, <3>1, <3>2 DEF Terminated
    <3> HIDE DEF n
    <3> QED
      BY <2>1, <3>4, <3>5, TokenedAdvances
  <2> QED
    BY <2>1, <2>3, <2>4
<1>7. CASE RevokeToken(1)
  <2>1. /\ At = "revoke" /\ Done(1)
        /\ tokens' = [tokens EXCEPT ![Ex] = IF tokens[Ex] > 0 THEN tokens[Ex] - 1 ELSE 0]
        /\ UNCHANGED <<status, log, backlog, tasks>>
    BY <1>7 DEF RevokeToken, Serving, At, Ex, service
  <2>2. Ex \in Execs /\ At' = "idle" /\ status[Ex] \in {"Completed", "Failed"}
    BY <1>0, <2>1, DoneIdles DEF EventCalls, Tokened, WorkerTokened, Terminated
  <2>3. WorkerTokened'
    BY <2>2 DEF WorkerTokened
  <2>4. \A f \in Execs : f = Ex \/ tokens'[f] = tokens[f]
    BY <2>1 DEF Typed, StoreOK
  <2> QED
    BY <2>1, <2>2, <2>3, <2>4, TokenedIf DEF Tokened, TokenLive, Terminated
<1> QED
  BY <1>1, <1>2, <1>3, <1>4, <1>5, <1>6, <1>7

LEMMA OtherStepTokened ==
  ASSUME Typed, Typed', Tokened,
         \/ TakeBatch(1) \/ Ack(1)
         \/ \E r \in Runners :
              Dequeue(r) \/ Reply(r) \/ LoseReply(r) \/ Spawn(r) \/ Report(r) \/ LoseReport(r)
         \/ \E e \in Execs : ClientInvoke(e) \/ StrayReport(e)
         \/ \E t \in Topics : HandOver(t)
         \/ Commit \/ Crash \/ UNCHANGED vars
  PROVE  Tokened'
<1>1. CASE TakeBatch(1)
  <2>1. At' = "authorize" /\ UNCHANGED <<status, tokens, log, tasks, backlog>>
    BY <1>1, TakeBatchTakes DEF TakeBatch, service
  <2> QED
    BY <2>1, TokenedKeeps DEF WorkerTokened
<1>2. CASE Ack(1)
  <2>1. /\ At = "ack" /\ Answer(1, "Completed") /\ UNCHANGED <<status, tokens, log, tasks, backlog>>
    BY <1>2 DEF Ack, At, service
  <2>2. At' \in {"idle", "authorize"}
    BY <2>1, AnswerAnswers DEF Typed, WorkerOK, RequestCalls
  <2> QED
    BY <2>1, <2>2, TokenedKeeps DEF WorkerTokened
<1>3. CASE UNCHANGED <<status, tokens, log, tasks, backlog, worker, batch>>
  <2>1. WorkerTokened'
    BY <1>3, WorkerTokenedKeeps DEF Tokened, Terminated
  <2> QED
    BY <1>3, <2>1, TokenedKeeps
<1>4. ASSUME NEW r \in Runners, Dequeue(r)  PROVE Tokened'
  <2>1. PICK e \in Execs : Lifecycle!Start(e)
    BY <1>4 DEF Dequeue
  <2>2. /\ status[e] = "Queued" /\ status' = [status EXCEPT ![e] = "Started"]
        /\ UNCHANGED <<tokens, log, tasks, backlog, worker, batch>>
    BY <1>4, <2>1 DEF Dequeue, AtBridge, service, Lifecycle!Start, Lifecycle!Advance
  <2>3. \A f \in Execs : Terminated(f) => Terminated(f)'
    BY <2>2 DEF Typed, StoreOK, Terminated
  <2>4. WorkerTokened'
    BY <2>2, <2>3, WorkerTokenedKeeps DEF Tokened
  <2>5. tokens[e] > 0
    BY <2>2 DEF Tokened, TokenLive
  <2> QED
    BY <2>2, <2>4, <2>5, TokenedAdvances DEF Terminated
<1>5. ASSUME NEW t \in Topics, HandOver(t)  PROVE Tokened'
  <2>1. /\ committed[t] < Len(log[t])
        /\ tasks' = Append(tasks, <<t, log[t][committed[t] + 1]>>)
        /\ UNCHANGED <<status, log, tokens, backlog, batch, worker>>
    BY <1>5 DEF HandOver, durable, service
  <2> DEFINE e == log[t][committed[t] + 1]
  <2>2. e \in Execs /\ (t \in {"Completed", "Failed"} => status[e] \in {"Completed", "Failed"})
    <3>1. committed[t] + 1 \in DOMAIN log[t] /\ e \in Execs
      BY <2>1 DEF Typed, EventsOK
    <3> QED
      BY <3>1 DEF Tokened, Terminated
  <2> HIDE DEF e
  <2>3. tasks \in Seq(Topics \X Execs) /\ <<t, e>> \in Topics \X Execs
    BY <2>2 DEF Typed, EventsOK
  <2>4. \A i \in DOMAIN tasks' : tasks'[i] = <<t, e>> \/ \E k \in DOMAIN tasks : tasks'[i] = tasks[k]
    BY <2>1, <2>3, AppendKeeps DEF e
  <2>5. ASSUME NEW i \in DOMAIN tasks'
        PROVE  \/ tasks'[i][1] \in {"Completed", "Failed"} => status'[tasks'[i][2]] \in {"Completed", "Failed"}
               \/ \E k \in DOMAIN tasks : tasks'[i] = tasks[k]
    <3>1. CASE tasks'[i] = <<t, e>>
      <4>1. tasks'[i][1] = t /\ tasks'[i][2] = e
        BY <3>1
      <4> QED
        BY <2>1, <2>2, <4>1
    <3> QED
      BY <2>4, <3>1
  <2>6. WorkerTokened'
    BY <2>1, WorkerTokenedKeeps DEF Tokened, Terminated
  <2> QED
    BY <2>1, <2>5, <2>6, TokenedIf DEF Tokened, TokenLive, Terminated
<1>6. CASE Crash
  <2>1. /\ backlog' = [c \in Correlations |-> << >>] /\ tasks' = << >>
        /\ worker' = [w \in Workers |-> Idle] /\ UNCHANGED <<status, tokens, log>>
    BY <1>6 DEF Crash, durable
  <2>2. At' = "idle"
    BY <2>1 DEF At, Idle, Workers
  <2>3. WorkerTokened'
    BY <2>2 DEF WorkerTokened
  <2> QED
    BY <2>1, <2>3, TokenedIf DEF Tokened, TokenLive, Terminated
<1>7. ASSUME \/ \E r \in Runners : Reply(r) \/ LoseReply(r) \/ Spawn(r) \/ Report(r) \/ LoseReport(r)
             \/ \E e \in Execs : ClientInvoke(e) \/ StrayReport(e)
             \/ Commit \/ UNCHANGED vars
      PROVE  UNCHANGED <<status, tokens, log, tasks, backlog, worker, batch>>
  BY <1>7 DEF Reply, LoseReply, Spawn, Report, LoseReport, ClientInvoke, StrayReport, Commit, AtBridge,
              vars, durable, service
<1> QED
  BY <1>1, <1>2, <1>3, <1>4, <1>5, <1>6, <1>7

LEMMA TokenedStep == Typed /\ Tokened /\ [Next]_vars => Tokened'
BY TypedStep, Steps, RequestStepTokened, EventStepTokened, OtherStepTokened

LEMMA TokenedInvariant == Spec => []Tokened
BY TypedInvariant, TokenedInit, TokenedStep, PTL DEF Spec

\* From before an exec can be handed to a runner until after it has finished it
\* has a token, across any number of crashes and replays: the bridge, which
\* starts an exec first and looks up its token then, always finds one.
THEOREM TokensLive == Spec => []TokenLive
<1>1. Tokened => TokenLive
  BY DEF Tokened
<1> QED
  BY <1>1, TokenedInvariant, PTL
-----------------------------------------------------------------------------
\* One planned and one last event of every exec.

\* What every step does to the execs.
LEMMA StatusMoves ==
  ASSUME Typed, [Next]_vars
  PROVE  \A e \in Execs : /\ status[e] # "Absent" => status'[e] # "Absent"
                          /\ Terminated(e) => status'[e] = status[e]
<1> DEFINE Moves == \/ status' = status
                    \/ \E e \in Execs, to \in Lifecycle!Statuses \ {"Absent"} :
                         ~Terminated(e) /\ status' = [status EXCEPT ![e] = to]
<1>1. ASSUME Moves
      PROVE  \A e \in Execs : /\ status[e] # "Absent" => status'[e] # "Absent"
                              /\ Terminated(e) => status'[e] = status[e]
  BY <1>1 DEF Typed, StoreOK
<1>2. /\ At \in RequestCalls => Subject \in Execs
      /\ At \in EventCalls => Ex \in Execs
  BY SubjectIs DEF Typed, WorkerOK
<1>3. /\ {"plan", "complete", "fail"} \subseteq RequestCalls /\ "queue" \in EventCalls
      /\ {"Planned", "Scheduled", "Queued", "Started", "Completed", "Failed"}
           \subseteq Lifecycle!Statuses \ {"Absent"}
  BY DEF RequestCalls, EventCalls, Lifecycle!Statuses
<1>4. CASE UNCHANGED status
  BY <1>4
<1>5. ASSUME PlanExec(1) \/ CompleteExec(1) \/ FailExec(1)  PROVE Moves
  <2>1. CASE UNCHANGED status
    BY <2>1
  <2>2. CASE /\ At \in {"plan", "complete", "fail"}
             /\ Lifecycle!Plan(Subject) \/ Lifecycle!Complete(Subject) \/ Lifecycle!Fail(Subject)
    BY <1>2, <1>3, <2>2 DEF Lifecycle!Plan, Lifecycle!Complete, Lifecycle!Fail, Lifecycle!Advance, Terminated
  <2> QED
    BY <1>5, <2>1, <2>2 DEF PlanExec, CompleteExec, FailExec, Handling, Refuse, At
<1>6. ASSUME QueueExec(1)  PROVE Moves
  BY <1>2, <1>3, <1>6 DEF QueueExec, Serving, At, Ex, Lifecycle!Queue, Lifecycle!Advance, Terminated
<1>7. ASSUME ScheduleOrBacklog(1)  PROVE Moves
  BY <1>3, <1>7, ScheduleDoes DEF Terminated
<1>8. ASSUME FinishExec(1)  PROVE Moves
  <2>1. \A c \in Correlations : \A k \in DOMAIN backlog[c] : backlog[c][k] \in Execs
    BY DEF Typed, ServiceOK
  <2>2. \/ status' = status
        \/ \E c \in Correlations : \E k \in DOMAIN backlog[c] :
             /\ status[backlog[c][k]] = "Planned"
             /\ status' = [status EXCEPT ![backlog[c][k]] = "Scheduled"]
    BY <1>8, FinishDoes
  <2> QED
    BY <1>3, <2>1, <2>2 DEF Terminated
<1>9. ASSUME NEW r \in Runners, Dequeue(r)  PROVE Moves
  BY <1>3, <1>9 DEF Dequeue, Lifecycle!Start, Lifecycle!Advance, Terminated
<1>10. ASSUME \/ TakeBatch(1) \/ Ack(1) \/ Authorize(1) \/ EmitPlanned(1) \/ EmitCompleted(1)
              \/ SetState(1) \/ Publish(1) \/ EmitFailed(1) \/ RunTask(1) \/ CreateToken(1)
              \/ EmitScheduled(1) \/ RevokeToken(1)
       PROVE  UNCHANGED status
  BY <1>10 DEF TakeBatch, Ack, Authorize, Refuse, EmitPlanned, EmitCompleted, SetState, Publish,
               EmitFailed, RunTask, CreateToken, EmitScheduled, RevokeToken, durable
<1>11. ASSUME \/ \E r \in Runners : Reply(r) \/ LoseReply(r) \/ Spawn(r) \/ Report(r) \/ LoseReport(r)
              \/ \E e \in Execs : ClientInvoke(e) \/ StrayReport(e)
              \/ \E t \in Topics : HandOver(t)
              \/ Commit \/ Crash \/ UNCHANGED vars
       PROVE  UNCHANGED status
  BY <1>11 DEF Reply, LoseReply, Spawn, Report, LoseReport, ClientInvoke, StrayReport, HandOver,
               Commit, Crash, vars, durable
<1> HIDE DEF Moves
<1>12. Moves
  <2>1. UNCHANGED status => Moves
    BY DEF Moves
  <2> QED
    BY <1>5, <1>6, <1>7, <1>8, <1>9, <1>10, <1>11, <2>1, Steps
<1> QED
  BY <1>1, <1>12

LEMMA LoggedKeeps ==
  ASSUME Typed, LoggedOnce, UNCHANGED log, WorkerLogged',
         \A e \in Execs : /\ status[e] # "Absent" => status'[e] # "Absent"
                          /\ Terminated(e) => status'[e] = status[e]
  PROVE  LoggedOnce'
<1>1. \A t \in {"Planned", "Completed", "Failed"} : \A i \in DOMAIN log[t] : log[t][i] \in Execs
  BY DEF Typed, EventsOK, Topics
<1> QED
  BY <1>1 DEF LoggedOnce, Terminated

LEMMA LoggedEmits ==
  ASSUME Typed, LoggedOnce, NEW topic \in Topics, NEW e \in Execs, Emit(topic, e),
         topic # "Scheduled" => NotLogged(topic, e),
         topic = "Planned" => status[e] # "Absent",
         topic \in {"Completed", "Failed"} => status[e] = topic,
         UNCHANGED status, WorkerLogged'
  PROVE  LoggedOnce'
<1>1. log' = [log EXCEPT ![topic] = Append(log[topic], e)] /\ log \in [Topics -> Seq(Execs)]
  BY DEF Emit, Typed, EventsOK
<1>2. ASSUME NEW t \in {"Planned", "Completed", "Failed"}
      PROVE  \/ log'[t] = log[t]
             \/ t = topic /\ log'[t] = Append(log[t], e) /\ log[t] \in Seq(Execs)
  BY <1>1 DEF Topics
<1>3. ASSUME NEW t \in {"Planned", "Completed", "Failed"}, NEW i \in DOMAIN log'[t], NEW j \in DOMAIN log'[t],
             log'[t][i] = log'[t][j]
      PROVE  i = j
  <2>1. CASE log'[t] = log[t]
    BY <1>3, <2>1 DEF LoggedOnce
  <2>2. CASE t = topic /\ log'[t] = Append(log[t], e) /\ log[t] \in Seq(Execs)
    <3>1. \A k \in DOMAIN log[t] : log[t][k] # e
      BY <2>2 DEF NotLogged
    <3>2. /\ (i \in DOMAIN log[t] /\ log'[t][i] = log[t][i]) \/ (i = Len(log[t]) + 1 /\ log'[t][i] = e)
          /\ (j \in DOMAIN log[t] /\ log'[t][j] = log[t][j]) \/ (j = Len(log[t]) + 1 /\ log'[t][j] = e)
      BY <2>2, AppendKeeps
    <3> QED
      BY <1>3, <3>1, <3>2 DEF LoggedOnce
  <2> QED
    BY <1>2, <2>1, <2>2
<1>4. ASSUME NEW t \in {"Planned", "Completed", "Failed"}, NEW i \in DOMAIN log'[t]
      PROVE  (t = topic /\ log'[t][i] = e) \/ \E k \in DOMAIN log[t] : log'[t][i] = log[t][k]
  <2>1. CASE log'[t] = log[t]
    BY <2>1
  <2>2. CASE t = topic /\ log'[t] = Append(log[t], e) /\ log[t] \in Seq(Execs)
    BY <2>2, AppendKeeps
  <2> QED
    BY <1>2, <2>1, <2>2
<1>5. \A i \in DOMAIN log'["Planned"] : status'[log'["Planned"][i]] # "Absent"
  BY <1>4 DEF LoggedOnce
<1>6. \A t \in {"Completed", "Failed"} : \A i \in DOMAIN log'[t] : status'[log'[t][i]] = t
  BY <1>4 DEF LoggedOnce
<1> QED
  BY <1>3, <1>5, <1>6 DEF LoggedOnce

LEMMA LoggedInit == Init => LoggedOnce
<1> SUFFICES ASSUME Init  PROVE LoggedOnce
  OBVIOUS
<1>1. At = "idle"
  BY DEF Init, At, Workers, Idle
<1> QED
  BY <1>1 DEF Init, LoggedOnce, WorkerLogged, Topics

LEMMA LoggedStep == Typed /\ LoggedOnce /\ [Next]_vars => LoggedOnce'
<1> SUFFICES ASSUME Typed, LoggedOnce, [Next]_vars  PROVE LoggedOnce'
  OBVIOUS
<1>0. /\ \A e \in Execs : /\ status[e] # "Absent" => status'[e] # "Absent"
                          /\ Terminated(e) => status'[e] = status[e]
      /\ worker \in [Workers -> WorkerStates]
      /\ RequestCalls = {"authorize", "plan", "emitPlanned", "complete", "emitCompleted",
                         "setState", "publish", "fail", "emitFailed", "ack"}
  BY StatusMoves DEF Typed, WorkerOK, RequestCalls
<1>1. ASSUME UNCHANGED log, At' \notin {"emitPlanned", "emitCompleted", "emitFailed"}
      PROVE  LoggedOnce'
  <2>1. WorkerLogged'
    BY <1>1 DEF WorkerLogged
  <2> QED
    BY <1>0, <1>1, <2>1, LoggedKeeps
<1>2. ASSUME At \in RequestCalls
      PROVE  Subject \in Execs /\ Head(batch)[1] \in {"Invoke", "Complete", "Fail"}
  BY <1>2, SubjectIs DEF Typed, WorkerOK
<1>3. ASSUME UNCHANGED <<log, worker, batch>>  PROVE LoggedOnce'
  <2>1. At' = At /\ Subject' = Subject
    BY <1>3 DEF At, Subject
  <2>2. \A t : NotLogged(t, Subject)' <=> NotLogged(t, Subject)
    BY <1>3, <2>1 DEF NotLogged
  <2>3. WorkerLogged'
    BY <1>0, <1>2, <2>1, <2>2 DEF WorkerLogged, LoggedOnce, Terminated
  <2> QED
    BY <1>0, <1>3, <2>3, LoggedKeeps
<1>4. ASSUME Refuse(1), At \in RequestCalls  PROVE LoggedOnce'
  <2>1. At' \in {"idle", "authorize"} /\ UNCHANGED log
    BY <1>4, RefuseRefuses
  <2> QED
    BY <1>1, <2>1
<1>5. CASE TakeBatch(1)
  BY <1>1, <1>5, TakeBatchTakes DEF TakeBatch
<1>6. CASE Ack(1)
  <2>1. batch # << >> /\ Answer(1, "Completed") /\ UNCHANGED log
    BY <1>0, <1>6 DEF Ack, At, Typed, WorkerOK
  <2> QED
    BY <1>1, <2>1, AnswerAnswers
<1>7. CASE Authorize(1)
  <2>1. At = "authorize"
    BY <1>7 DEF Authorize, At
  <2>2. FirstCall \in {"plan", "complete", "fail"}
    BY <1>0, <1>2, <2>1 DEF FirstCall
  <2>3. ASSUME Handling(1, "authorize", FirstCall), UNCHANGED log  PROVE LoggedOnce'
    BY <1>0, <1>1, <2>2, <2>3, HandlingMoves
  <2> QED
    BY <1>0, <1>4, <1>7, <2>1, <2>3 DEF Authorize
<1>8. CASE SetState(1) \/ Publish(1)
  <2>1. /\ Handling(1, "setState", "publish") \/ Handling(1, "publish", "ack")
        /\ UNCHANGED log
    BY <1>8 DEF SetState, Publish
  <2> QED
    BY <1>0, <1>1, <2>1, HandlingMoves
<1>9. ASSUME NEW call \in RequestCalls, NEW next \in RequestCalls, NEW topic \in {"Planned", "Completed", "Failed"},
             \/ next = "emitPlanned" /\ topic = "Planned" /\ status[Subject] = "Absent"
             \/ next = "emitCompleted" /\ topic = "Completed" /\ status[Subject] = "Started"
             \/ next = "emitFailed" /\ topic = "Failed" /\ status[Subject] = "Started",
             Handling(1, call, next), status' = [status EXCEPT ![Subject] = topic], UNCHANGED log
      PROVE  LoggedOnce'
  <2>1. At = call /\ At' = next /\ Subject' = Subject
    BY <1>9, HandlingMoves
  <2>2. Subject \in Execs
    BY <1>2, <2>1
  <2>3. status'[Subject] = topic
    BY <1>9, <2>2 DEF Typed, StoreOK
  <2>4. NotLogged(topic, Subject)
    BY <1>9 DEF NotLogged, LoggedOnce
  <2>5. NotLogged(topic, Subject)'
    BY <1>9, <2>1, <2>4 DEF NotLogged
  <2>6. WorkerLogged'
    BY <1>9, <2>1, <2>3, <2>5 DEF WorkerLogged
  <2> QED
    BY <1>0, <1>9, <2>6, LoggedKeeps
<1>10. ASSUME PlanExec(1)  PROVE LoggedOnce'
  BY <1>0, <1>9, <1>10 DEF PlanExec, Lifecycle!Plan, Lifecycle!Advance
<1>11. ASSUME CompleteExec(1)  PROVE LoggedOnce'
  <2>1. CASE Refuse(1) /\ At = "complete"
    BY <1>0, <1>4, <2>1
  <2>2. CASE Handling(1, "complete", "emitCompleted") /\ Lifecycle!Complete(Subject) /\ UNCHANGED log
    BY <1>0, <1>9, <2>2 DEF Lifecycle!Complete, Lifecycle!Advance
  <2> QED
    BY <1>11, <2>1, <2>2 DEF CompleteExec, At
<1>12. ASSUME FailExec(1)  PROVE LoggedOnce'
  <2>1. CASE Refuse(1) /\ At = "fail"
    BY <1>0, <1>4, <2>1
  <2>2. CASE Handling(1, "fail", "emitFailed") /\ Lifecycle!Fail(Subject) /\ UNCHANGED log
    BY <1>0, <1>9, <2>2 DEF Lifecycle!Fail, Lifecycle!Advance
  <2> QED
    BY <1>12, <2>1, <2>2 DEF FailExec, At
<1>13. ASSUME NEW call \in RequestCalls, NEW next \in {"setState", "ack"}, NEW topic \in Topics,
              \/ call = "emitPlanned" /\ topic = "Planned"
              \/ call = "emitCompleted" /\ topic = "Completed"
              \/ call = "emitFailed" /\ topic = "Failed",
              Handling(1, call, next), Emit(topic, Subject), UNCHANGED status
       PROVE  LoggedOnce'
  <2>1. At = call /\ At' = next
    BY <1>0, <1>13, HandlingMoves
  <2>2. WorkerLogged'
    BY <2>1 DEF WorkerLogged
  <2>3. /\ NotLogged(topic, Subject)
        /\ topic = "Planned" => status[Subject] # "Absent"
        /\ topic \in {"Completed", "Failed"} => status[Subject] = topic
    BY <1>13, <2>1 DEF LoggedOnce, WorkerLogged
  <2> QED
    BY <1>2, <1>13, <2>1, <2>2, <2>3, LoggedEmits
<1>14. CASE EmitPlanned(1) \/ EmitCompleted(1) \/ EmitFailed(1)
  BY <1>0, <1>13, <1>14 DEF EmitPlanned, EmitCompleted, EmitFailed, Topics
<1>15. CASE EmitScheduled(1)
  <2>1. /\ At = "emitScheduled" /\ Emit("Scheduled", Sch) /\ (Done(1) \/ Goto(1, "revoke"))
        /\ UNCHANGED status
    BY <1>15 DEF EmitScheduled, Serving, At, Sch
  <2>2. Sch \in Execs /\ At' \in {"idle", "revoke"}
    BY <1>0, <2>1, GotoMoves, DoneIdles DEF Typed, WorkerOK, EventCalls
  <2>3. WorkerLogged'
    BY <2>2 DEF WorkerLogged
  <2> QED
    BY <2>1, <2>2, <2>3, LoggedEmits DEF Topics
<1>16. CASE RunTask(1)
  <2>1. tasks # << >> /\ UNCHANGED log
    BY <1>16 DEF RunTask, durable
  <2>2. Head(tasks) \in Topics \X Execs
    BY <2>1, TailKeeps DEF Typed, EventsOK
  <2>3. FirstOf[Head(tasks)[1]] \in {"token", "queue", "finish"} /\ Head(tasks)[2] \in Execs
    BY <2>2 DEF FirstOf, Topics
  <2>4. At' \in {"token", "queue", "finish"}
    BY <1>0, <1>16, <2>3, RunMoves DEF EventCalls
  <2> QED
    BY <1>1, <2>1, <2>4
<1>17. CASE CreateToken(1) \/ QueueExec(1) \/ RevokeToken(1)
  <2>1. UNCHANGED log /\ (Goto(1, "schedule") \/ Done(1))
    BY <1>17 DEF CreateToken, QueueExec, RevokeToken
  <2>2. At' \in {"schedule", "idle"}
    BY <1>0, <2>1, GotoMoves, DoneIdles DEF EventCalls
  <2> QED
    BY <1>1, <1>17, <2>2 DEF CreateToken, QueueExec, RevokeToken
<1>18. CASE ScheduleOrBacklog(1)
  BY <1>1, <1>18, ScheduleDoes
<1>19. CASE FinishExec(1)
  BY <1>1, <1>19, FinishDoes
<1>20. CASE Crash
  <2>1. worker' = [w \in Workers |-> Idle] /\ UNCHANGED log
    BY <1>20 DEF Crash, durable
  <2>2. At' = "idle"
    BY <2>1 DEF At, Idle, Workers
  <2> QED
    BY <1>1, <2>1, <2>2
<1>21. ASSUME \/ \E r \in Runners : \/ Dequeue(r) \/ Reply(r) \/ LoseReply(r)
                                    \/ Spawn(r) \/ Report(r) \/ LoseReport(r)
              \/ \E e \in Execs : ClientInvoke(e) \/ StrayReport(e)
              \/ \E t \in Topics : HandOver(t)
              \/ Commit \/ UNCHANGED vars
       PROVE  UNCHANGED <<log, worker, batch>>
  BY <1>21 DEF Dequeue, Reply, LoseReply, Spawn, Report, LoseReport, ClientInvoke, StrayReport,
               HandOver, Commit, AtBridge, vars, durable
<1> QED
  BY <1>3, <1>5, <1>6, <1>7, <1>8, <1>10, <1>11, <1>12, <1>14, <1>15, <1>16, <1>17, <1>18, <1>19,
     <1>20, <1>21, Steps

LEMMA LoggedInvariant == Spec => []LoggedOnce
BY TypedInvariant, LoggedInit, LoggedStep, PTL DEF Spec
-----------------------------------------------------------------------------
\* Every event is handled once.

LEMMA HandedIs ==
  ASSUME Typed, NEW t \in Topics
  PROVE  /\ Handed(t) \in Nat /\ Len(log[t]) \in Nat /\ DOMAIN log[t] = 1..Len(log[t])
         /\ handing # t => Handed(t) = committed[t]
         /\ handing = t => Handed(t) = committed[t] + 1
BY DEF Typed, EventsOK, Handed

LEMMA PassedIs ==
  ASSUME Typed, HandledOnce, NEW t \in Topics, NEW e, Passed(t, e)
  PROVE  \E k \in DOMAIN log[t] : k <= Handed(t) /\ log[t][k] = e
<1>1. PICK k \in 1..Handed(t) : log[t][k] = e
  BY DEF Passed
<1>2. Handed(t) <= Len(log[t])
  BY DEF HandledOnce
<1> HIDE DEF Handed
<1> QED
  BY <1>1, <1>2, HandedIs

LEMMA Exclusive ==
  ASSUME Typed, LoggedOnce, HandledOnce, NEW e
  PROVE  /\ ~ (Passed("Completed", e) /\ Passed("Failed", e))
         /\ Passed("Planned", e) => status[e] # "Absent"
         /\ \A t \in {"Completed", "Failed"} : Passed(t, e) => status[e] = t
<1>1. \A t \in Topics : Passed(t, e) => \E k \in DOMAIN log[t] : log[t][k] = e
  BY PassedIs
<1> QED
  BY <1>1 DEF LoggedOnce, Topics

\* What was handed over stays so, whatever else is logged.
LEMMA StillPassed ==
  ASSUME Typed, HandledOnce, UNCHANGED <<committed, handing>>,
         \/ UNCHANGED log
         \/ \E topic \in Topics, e \in Execs : Emit(topic, e)
  PROVE  \A t \in Topics : /\ Handed(t)' = Handed(t) /\ Handed(t)' <= Len(log'[t])
                           /\ \A f : Passed(t, f) => Passed(t, f)'
<1>1. \A t : Handed(t)' = Handed(t)
  BY DEF Handed
<1>2. CASE UNCHANGED log
  BY <1>1, <1>2 DEF Passed, HandledOnce
<1>3. ASSUME NEW topic \in Topics, NEW e \in Execs, Emit(topic, e), NEW t \in Topics
      PROVE  /\ Handed(t)' <= Len(log'[t])
             /\ \A f : Passed(t, f) => Passed(t, f)'
  <2>1. log' = [log EXCEPT ![topic] = Append(log[topic], e)] /\ log \in [Topics -> Seq(Execs)]
    BY <1>3 DEF Emit, Typed, EventsOK
  <2>2. /\ Len(log'[t]) \in Nat /\ Len(log[t]) <= Len(log'[t])
        /\ \A k \in DOMAIN log[t] : log'[t][k] = log[t][k]
    <3>1. CASE topic = t
      <4>1. log'[t] = Append(log[t], e) /\ log[t] \in Seq(Execs)
        BY <2>1, <3>1
      <4> QED
        BY <4>1, AppendKeeps
    <3>2. CASE topic # t
      <4>1. log'[t] = log[t] /\ log[t] \in Seq(Execs)
        BY <2>1, <3>2
      <4> QED
        BY <4>1
    <3> QED
      BY <3>1, <3>2
  <2>3. Handed(t) \in Nat /\ Handed(t) <= Len(log[t]) /\ Len(log[t]) \in Nat
    BY HandedIs DEF HandledOnce
  <2>4. ASSUME NEW f, Passed(t, f)  PROVE Passed(t, f)'
    <3>1. PICK k \in DOMAIN log[t] : k <= Handed(t) /\ log[t][k] = f
      BY <2>4, PassedIs
    <3>2. k \in 1..Handed(t) /\ log'[t][k] = f
      BY <2>2, <2>3, <3>1, HandedIs
    <3>3. k \in 1..Handed(t)'
      BY <1>1, <3>2
    <3> QED
      BY <3>2, <3>3 DEF Passed
  <2>5. Handed(t)' <= Len(log'[t])
    BY <1>1, <2>2, <2>3
  <2> QED
    BY <2>4, <2>5
<1> QED
  BY <1>1, <1>2, <1>3

LEMMA HandledKeeps ==
  ASSUME Typed, HandledOnce, WorkerHandled', UNCHANGED <<tasks, arrival, settled>>,
         \A t \in Topics : /\ Handed(t)' <= Len(log'[t])
                           /\ \A f : Passed(t, f) => Passed(t, f)'
  PROVE  HandledOnce'
<1>1. \A i \in DOMAIN tasks : tasks[i][1] \in Topics /\ tasks[i][2] \in Execs
  BY DEF Typed, EventsOK
<1>2. ASSUME NEW i \in DOMAIN tasks'
      PROVE  Passed(tasks[i][1], tasks[i][2])'
  <2>1. Passed(tasks[i][1], tasks[i][2]) /\ tasks[i][1] \in Topics
    BY <1>1, <1>2 DEF HandledOnce
  <2>2. \E k \in 1..Handed(tasks[i][1])' : log'[tasks[i][1]][k] = tasks[i][2]
    BY <2>1 DEF Passed
  <2> QED
    BY <2>2 DEF Passed
<1>3. \A e \in Execs : arrival'[e] # 0 => Passed("Planned", e)'
  BY DEF HandledOnce, Topics
<1>4. \A e \in settled' : Passed("Completed", e)' \/ Passed("Failed", e)'
  BY DEF HandledOnce, Topics
<1> QED
  BY <1>2, <1>3, <1>4 DEF HandledOnce

\* A step that hands nothing over and is not about a planned or a last event.
LEMMA HandledRests ==
  ASSUME Typed, HandledOnce, UNCHANGED <<committed, handing, tasks, arrival, settled>>,
         \/ UNCHANGED log
         \/ \E topic \in Topics, e \in Execs : Emit(topic, e),
         At' \notin {"token", "schedule", "finish"}
  PROVE  HandledOnce'
<1>1. WorkerHandled'
  BY DEF WorkerHandled
<1> QED
  BY <1>1, StillPassed, HandledKeeps

LEMMA RequestStepHandled ==
  ASSUME Typed, HandledOnce,
         \/ TakeBatch(1) \/ Ack(1)
         \/ Authorize(1) \/ PlanExec(1) \/ EmitPlanned(1) \/ CompleteExec(1) \/ EmitCompleted(1)
         \/ SetState(1) \/ Publish(1) \/ FailExec(1) \/ EmitFailed(1)
  PROVE  HandledOnce'
<1>0. RequestCalls = {"authorize", "plan", "emitPlanned", "complete", "emitCompleted",
                      "setState", "publish", "fail", "emitFailed", "ack"}
  BY DEF RequestCalls
<1>1. ASSUME At \in RequestCalls
      PROVE  batch # << >> /\ Subject \in Execs /\ Head(batch)[1] \in {"Invoke", "Complete", "Fail"}
  BY <1>1, SubjectIs DEF Typed, WorkerOK
<1>2. ASSUME Refuse(1), At \in RequestCalls  PROVE HandledOnce'
  <2>1. At' \in {"idle", "authorize"} /\ UNCHANGED <<log, committed, handing, tasks, arrival, settled>>
    BY <1>2, RefuseRefuses
  <2> QED
    BY <2>1, HandledRests
<1>3. ASSUME NEW call \in RequestCalls, NEW next \in RequestCalls, Handling(1, call, next),
             \/ UNCHANGED log
             \/ \E topic \in Topics : Emit(topic, Subject)
      PROVE  HandledOnce'
  <2>1. At = call /\ At' = next /\ UNCHANGED <<committed, handing, tasks, arrival, settled>>
    BY <1>3, HandlingMoves
  <2>2. Subject \in Execs /\ At' \notin {"token", "schedule", "finish"}
    BY <1>0, <1>1, <2>1
  <2> QED
    BY <1>3, <2>1, <2>2, HandledRests
<1>4. CASE TakeBatch(1)
  <2>1. At' = "authorize" /\ UNCHANGED <<log, committed, handing, tasks, arrival, settled>>
    BY <1>4, TakeBatchTakes DEF TakeBatch, history
  <2> QED
    BY <2>1, HandledRests
<1>5. CASE Ack(1)
  <2>1. /\ batch # << >> /\ Answer(1, "Completed")
        /\ UNCHANGED <<log, committed, handing, tasks, arrival, settled>>
    BY <1>0, <1>1, <1>5 DEF Ack, At, history
  <2>2. At' \in {"idle", "authorize"}
    BY <2>1, AnswerAnswers
  <2> QED
    BY <2>1, <2>2, HandledRests
<1>6. CASE Authorize(1)
  <2>1. At = "authorize"
    BY <1>6 DEF Authorize, At
  <2>2. FirstCall \in RequestCalls
    BY <1>0, <1>1, <2>1 DEF FirstCall
  <2> QED
    BY <1>0, <1>2, <1>3, <1>6, <2>1, <2>2 DEF Authorize
<1>7. CASE EmitPlanned(1) \/ EmitCompleted(1) \/ EmitFailed(1)
  BY <1>0, <1>3, <1>7 DEF EmitPlanned, EmitCompleted, EmitFailed, Topics
<1>8. CASE SetState(1) \/ Publish(1) \/ PlanExec(1)
  BY <1>0, <1>3, <1>8 DEF SetState, Publish, PlanExec
<1>9. CASE CompleteExec(1) \/ FailExec(1)
  BY <1>0, <1>2, <1>3, <1>9 DEF CompleteExec, FailExec, At
<1> QED
  BY <1>4, <1>5, <1>6, <1>7, <1>8, <1>9

LEMMA HandledOver ==
  ASSUME Typed, LoggedOnce, HandledOnce, NEW t \in Topics, HandOver(t)
  PROVE  HandledOnce'
<1> DEFINE e == log[t][committed[t] + 1]
<1>1. /\ handing = NoTopic /\ committed[t] < Len(log[t]) /\ handing' = t
      /\ tasks' = Append(tasks, <<t, e>>)
      /\ UNCHANGED <<log, committed, worker, arrival, settled>>
  BY DEF HandOver, durable, history
<1>2. committed \in [Topics -> Nat] /\ tasks \in Seq(Topics \X Execs)
  BY DEF Typed, EventsOK
<1>3. committed[t] + 1 \in DOMAIN log[t] /\ e \in Execs
  BY <1>1 DEF Typed, EventsOK
<1> DEFINE Reached(u, f) == \E k \in 1..(committed[u] + (IF t = u THEN 1 ELSE 0)) : log[u][k] = f
           Untasked(u, f) == \A i \in DOMAIN tasks' : tasks'[i] # <<u, f>>
<1>4. \A u \in Topics : Handed(u) = committed[u] /\ committed[u] \in Nat /\ Handed(u) <= Len(log[u])
  BY <1>1, <1>2, HandedIs DEF Topics, NoTopic, HandledOnce
<1>5. ASSUME NEW u \in Topics  PROVE Handed(u)' <= Len(log'[u])
  BY <1>1, <1>4 DEF Handed
<1>6. ASSUME NEW u \in Topics, NEW f, Passed(u, f)  PROVE Reached(u, f)
  <2>1. PICK k \in 1..Handed(u) : log[u][k] = f
    BY <1>6 DEF Passed
  <2>2. k \in 1..(committed[u] + (IF t = u THEN 1 ELSE 0))
    BY <1>4, <2>1
  <2> QED
    BY <2>1, <2>2
<1>7. Reached(t, e)
  <2>1. committed[t] + 1 \in 1..(committed[t] + 1)
    BY <1>4
  <2> QED
    BY <2>1
<1>8. t # "Scheduled" => ~Passed(t, e)
  <2>1. SUFFICES ASSUME t # "Scheduled", Passed(t, e)  PROVE FALSE
    OBVIOUS
  <2>2. PICK k \in DOMAIN log[t] : k <= committed[t] /\ log[t][k] = e
    BY <1>4, <2>1, PassedIs
  <2>3. k = committed[t] + 1
    BY <1>3, <2>1, <2>2 DEF LoggedOnce, Topics
  <2> QED
    BY <1>2, <2>2, <2>3
<1>9. t = "Planned" => arrival[e] = 0
  BY <1>3, <1>8 DEF HandledOnce
<1>10. t \in {"Completed", "Failed"} => ~Passed("Completed", e) /\ ~Passed("Failed", e)
  <2>1. t \in {"Completed", "Failed"} => status[e] = t
    BY <1>3 DEF LoggedOnce
  <2> QED
    BY <1>8, <2>1, Exclusive
<1>11. t \in {"Completed", "Failed"} => e \notin settled
  BY <1>10 DEF HandledOnce
<1> HIDE DEF e
<1>12. /\ \A i \in DOMAIN tasks : tasks[i][1] \in Topics /\ tasks[i][2] \in Execs
       /\ \A i \in DOMAIN tasks' : \/ i \in DOMAIN tasks /\ tasks'[i] = tasks[i]
                                   \/ i = Len(tasks) + 1 /\ tasks'[i] = <<t, e>>
  <2>1. <<t, e>> \in Topics \X Execs
    BY <1>3
  <2> QED
    BY <1>1, <1>2, <2>1, AppendKeeps
<1>13. \A i \in DOMAIN tasks : tasks[i] = <<t, e>> => t = "Scheduled"
  BY <1>8 DEF HandledOnce
<1> HIDE DEF Reached
<1>14. ASSUME NEW i \in DOMAIN tasks'
       PROVE  Reached(tasks'[i][1], tasks'[i][2])
  <2>1. CASE i \in DOMAIN tasks /\ tasks'[i] = tasks[i]
    BY <1>6, <1>12, <2>1 DEF HandledOnce
  <2>2. CASE tasks'[i] = <<t, e>>
    <3>1. tasks'[i][1] = t /\ tasks'[i][2] = e
      BY <2>2
    <3> QED
      BY <1>7, <3>1
  <2> QED
    BY <1>12, <2>1, <2>2
<1>15. ASSUME NEW i \in DOMAIN tasks', NEW j \in DOMAIN tasks', tasks'[i] = tasks'[j], tasks'[i][1] # "Scheduled"
       PROVE  i = j
  <2>1. <<t, e>>[1] = t
    OBVIOUS
  <2> QED
    BY <1>12, <1>13, <1>15, <2>1 DEF HandledOnce
<1>16. ASSUME NEW i \in DOMAIN tasks'
       PROVE  /\ tasks'[i][1] = "Planned" => arrival'[tasks'[i][2]] = 0
              /\ tasks'[i][1] \in {"Completed", "Failed"} => tasks'[i][2] \notin settled'
  <2>1. <<t, e>>[1] = t /\ <<t, e>>[2] = e
    OBVIOUS
  <2> QED
    BY <1>1, <1>9, <1>11, <1>12, <2>1 DEF HandledOnce
<1>17. ASSUME NEW u \in Topics, NEW f, NoTask(u, f), ~(t = u /\ e = f)  PROVE Untasked(u, f)
  <2>1. <<t, e>> # <<u, f>>
    BY <1>17
  <2> QED
    BY <1>12, <1>17, <2>1 DEF NoTask
<1> HIDE DEF Untasked
<1>18. At \in {"token", "schedule"} =>
         Reached("Planned", Ex) /\ arrival[Ex] = 0 /\ Untasked("Planned", Ex)
  BY <1>6, <1>8, <1>17 DEF HandledOnce, WorkerHandled, Topics
<1>19. At = "finish" =>
         /\ Reached("Completed", Ex) \/ Reached("Failed", Ex)
         /\ Ex \notin settled /\ Untasked("Completed", Ex) /\ Untasked("Failed", Ex)
  BY <1>6, <1>10, <1>17 DEF HandledOnce, WorkerHandled, Topics
<1>20. WorkerHandled'
  <2>1. At' = At /\ Ex' = Ex
    BY <1>1 DEF At, Ex
  <2> QED
    BY <1>1, <1>18, <1>19, <2>1 DEF WorkerHandled, Passed, Handed, NoTask, Reached, Untasked
<1>21. /\ \A f \in Execs : arrival'[f] # 0 => Reached("Planned", f)
       /\ \A f \in settled' : Reached("Completed", f) \/ Reached("Failed", f)
  BY <1>1, <1>6 DEF HandledOnce, Topics
<1>22. \A i \in DOMAIN tasks' : (Passed(tasks[i][1], tasks[i][2]))'
  BY <1>1, <1>14 DEF Passed, Handed, Reached
<1>23. /\ \A f \in Execs : arrival'[f] # 0 => Passed("Planned", f)'
       /\ \A f \in settled' : Passed("Completed", f)' \/ Passed("Failed", f)'
  BY <1>1, <1>21 DEF Passed, Handed, Reached
<1> QED
  BY <1>5, <1>15, <1>16, <1>20, <1>22, <1>23 DEF HandledOnce

LEMMA HandledTaken ==
  ASSUME Typed, LoggedOnce, HandledOnce, RunTask(1)
  PROVE  HandledOnce'
<1> DEFINE t == Head(tasks)[1]
           e == Head(tasks)[2]
<1>1. /\ tasks # << >> /\ tasks' = Tail(tasks)
      /\ UNCHANGED <<log, committed, handing, arrival, settled>>
  BY DEF RunTask, durable, history
<1>2. /\ Head(tasks) \in Topics \X Execs /\ Head(tasks) = tasks[1] /\ 1 \in DOMAIN tasks
      /\ \A i \in DOMAIN tasks' : i + 1 \in DOMAIN tasks /\ i + 1 # 1 /\ tasks'[i] = tasks[i + 1]
      /\ DOMAIN tasks' \subseteq Nat
  <2>1. tasks \in Seq(Topics \X Execs)
    BY DEF Typed, EventsOK
  <2> QED
    BY <1>1, <2>1, TailKeeps
<1>3. t \in Topics /\ e \in Execs /\ tasks[1] = <<t, e>>
  BY <1>2
<1>4. FirstOf[t] \in EventCalls
  BY <1>3 DEF FirstOf, Topics, EventCalls
<1>5. At' = FirstOf[t] /\ Ex' = e
  BY <1>3, <1>4, RunMoves DEF Typed, WorkerOK
<1>6. /\ Passed(t, e)
      /\ t = "Planned" => arrival[e] = 0
      /\ t \in {"Completed", "Failed"} => e \notin settled
  BY <1>2 DEF HandledOnce
<1> HIDE DEF t, e
<1>7. \A u, f : Passed(u, f)' <=> Passed(u, f)
  BY <1>1 DEF Passed, Handed
<1>8. t # "Scheduled" => \A i \in DOMAIN tasks' : tasks'[i] # <<t, e>>
  <2>1. ASSUME t # "Scheduled", NEW i \in DOMAIN tasks', tasks'[i] = <<t, e>>  PROVE FALSE
    <3>1. i + 1 \in DOMAIN tasks /\ tasks[i + 1] = tasks[1] /\ tasks[i + 1][1] # "Scheduled"
      BY <1>2, <1>3, <2>1
    <3> QED
      BY <1>2, <3>1 DEF HandledOnce
  <2> QED
    BY <2>1
<1>9. ASSUME NEW u \in {"Completed", "Failed"}, t \in {"Completed", "Failed"}, u # t,
             NEW i \in DOMAIN tasks', tasks'[i] = <<u, e>>
      PROVE  FALSE
  <2>1. i + 1 \in DOMAIN tasks /\ tasks[i + 1] = <<u, e>>
    BY <1>2, <1>9
  <2>2. tasks[i + 1][1] = u /\ tasks[i + 1][2] = e
    BY <2>1
  <2>3. Passed(u, e)
    BY <2>1, <2>2 DEF HandledOnce
  <2> QED
    BY <1>6, <1>9, <2>3, Exclusive
<1>10. WorkerHandled'
  <2>1. CASE t = "Planned"
    <3>1. At' = "token"
      BY <1>5, <2>1 DEF FirstOf
    <3> QED
      BY <1>1, <1>5, <1>6, <1>8, <2>1, <3>1 DEF WorkerHandled, NoTask, Passed, Handed
  <2>2. CASE t \in {"Completed", "Failed"}
    <3>1. At' = "finish"
      BY <1>5, <2>2 DEF FirstOf
    <3>2. \A i \in DOMAIN tasks' : tasks'[i] # <<"Completed", e>> /\ tasks'[i] # <<"Failed", e>>
      BY <1>8, <1>9, <2>2
    <3> QED
      BY <1>1, <1>5, <1>6, <2>2, <3>1, <3>2 DEF WorkerHandled, NoTask, Passed, Handed
  <2>3. CASE t = "Scheduled"
    <3>1. At' = "queue"
      BY <1>5, <2>3 DEF FirstOf
    <3> QED
      BY <3>1 DEF WorkerHandled
  <2> QED
    BY <1>3, <2>1, <2>2, <2>3 DEF Topics
<1>11. \A u \in Topics : Handed(u)' <= Len(log'[u])
  BY <1>1 DEF HandledOnce, Handed
<1>12. \A i \in DOMAIN tasks' : (Passed(tasks[i][1], tasks[i][2]))'
  <2>1. \A i \in DOMAIN tasks' : Passed(tasks'[i][1], tasks'[i][2])
    BY <1>2 DEF HandledOnce
  <2> QED
    BY <1>1, <2>1 DEF Passed, Handed
<1>13. ASSUME NEW i \in DOMAIN tasks', NEW j \in DOMAIN tasks',
              tasks'[i] = tasks'[j], tasks'[i][1] # "Scheduled"
       PROVE  i = j
  <2>1. i + 1 = j + 1
    BY <1>2, <1>13 DEF HandledOnce
  <2> QED
    BY <1>2, <2>1
<1>14. \A i \in DOMAIN tasks' :
         /\ tasks'[i][1] = "Planned" => arrival'[tasks'[i][2]] = 0
         /\ tasks'[i][1] \in {"Completed", "Failed"} => tasks'[i][2] \notin settled'
  BY <1>1, <1>2 DEF HandledOnce
<1>15. /\ \A f \in Execs : arrival'[f] # 0 => Passed("Planned", f)'
       /\ \A f \in settled' : Passed("Completed", f)' \/ Passed("Failed", f)'
  BY <1>1, <1>7 DEF HandledOnce
<1> QED
  BY <1>10, <1>11, <1>12, <1>13, <1>14, <1>15 DEF HandledOnce

LEMMA EventStepHandled ==
  ASSUME Typed, LoggedOnce, HandledOnce,
         CreateToken(1) \/ ScheduleOrBacklog(1) \/ EmitScheduled(1) \/ QueueExec(1)
         \/ FinishExec(1) \/ RevokeToken(1)
  PROVE  HandledOnce'
<1>0. worker \in [Workers -> WorkerStates] /\ (At \in EventCalls => Ex \in Execs)
  BY DEF Typed, WorkerOK
<1>1. CASE CreateToken(1)
  <2>1. /\ At = "token" /\ Goto(1, "schedule")
        /\ UNCHANGED <<log, committed, handing, tasks, arrival, settled>>
    BY <1>1 DEF CreateToken, Serving, At, history
  <2>2. At' = "schedule" /\ Ex' = Ex
    BY <1>0, <2>1, GotoMoves DEF EventCalls
  <2>3. Passed("Planned", Ex) /\ arrival[Ex] = 0 /\ NoTask("Planned", Ex)
    BY <2>1 DEF HandledOnce, WorkerHandled
  <2>4. WorkerHandled'
    BY <2>1, <2>2, <2>3 DEF WorkerHandled, Passed, Handed, NoTask
  <2> QED
    BY <2>1, <2>4, StillPassed, HandledKeeps
<1>2. CASE EmitScheduled(1)
  <2>1. /\ At = "emitScheduled" /\ Emit("Scheduled", Sch) /\ (Done(1) \/ Goto(1, "revoke"))
        /\ UNCHANGED <<committed, handing, tasks, arrival, settled>>
    BY <1>2 DEF EmitScheduled, Serving, At, Sch, history
  <2>2. Sch \in Execs /\ At' \in {"idle", "revoke"}
    BY <1>0, <2>1, GotoMoves, DoneIdles DEF Typed, WorkerOK, EventCalls
  <2> QED
    BY <2>1, <2>2, HandledRests DEF Topics
<1>3. CASE QueueExec(1) \/ RevokeToken(1)
  <2>1. Done(1) /\ UNCHANGED <<log, committed, handing, tasks, arrival, settled>>
    BY <1>3 DEF QueueExec, RevokeToken, Serving, history
  <2>2. At' = "idle"
    BY <1>0, <2>1, DoneIdles
  <2> QED
    BY <2>1, <2>2, HandledRests
<1>4. CASE ScheduleOrBacklog(1)
  <2>1. /\ At = "schedule" /\ Ex \in Execs /\ At' \in {"idle", "emitScheduled"}
        /\ UNCHANGED <<log, committed, handing, tasks, settled>>
        /\ arrival' = [arrival EXCEPT ![Ex] = arrivals + 1]
    BY <1>4, ScheduleDoes
  <2>2. Passed("Planned", Ex) /\ NoTask("Planned", Ex)
    BY <2>1 DEF HandledOnce, WorkerHandled
  <2>3. \A u, f : Passed(u, f)' <=> Passed(u, f)
    BY <2>1 DEF Passed, Handed
  <2>4. \A f \in Execs : f = Ex \/ arrival'[f] = arrival[f]
    BY <2>1 DEF Typed, ServiceOK
  <2>5. \A i \in DOMAIN tasks : tasks[i] = <<tasks[i][1], tasks[i][2]>> /\ tasks[i][2] \in Execs
    BY DEF Typed, EventsOK
  <2>6. ASSUME NEW i \in DOMAIN tasks, tasks[i][1] = "Planned"  PROVE arrival'[tasks[i][2]] = 0
    <3>1. tasks[i][2] # Ex
      BY <2>2, <2>5, <2>6 DEF NoTask
    <3> QED
      BY <2>4, <2>5, <2>6, <3>1 DEF HandledOnce
  <2>7. WorkerHandled'
    BY <2>1 DEF WorkerHandled
  <2>8. \A f \in Execs : arrival'[f] # 0 => Passed("Planned", f)'
    BY <2>2, <2>3, <2>4 DEF HandledOnce
  <2>9. \A f \in settled' : Passed("Completed", f)' \/ Passed("Failed", f)'
    BY <2>1, <2>3 DEF HandledOnce
  <2>10. \A i \in DOMAIN tasks' : (Passed(tasks[i][1], tasks[i][2]))'
    BY <2>1 DEF HandledOnce, Passed, Handed
  <2>11. \A u \in Topics : Handed(u)' <= Len(log'[u])
    BY <2>1 DEF HandledOnce, Handed
  <2> QED
    BY <2>1, <2>6, <2>7, <2>8, <2>9, <2>10, <2>11 DEF HandledOnce
<1>5. CASE FinishExec(1)
  <2>1. /\ At = "finish" /\ Ex \in Execs /\ At' \in {"idle", "revoke", "emitScheduled"}
        /\ UNCHANGED <<log, committed, handing, tasks, arrival>>
        /\ settled' = settled \cup {Ex}
    BY <1>5, FinishDoes
  <2>2. /\ Passed("Completed", Ex) \/ Passed("Failed", Ex)
        /\ NoTask("Completed", Ex) /\ NoTask("Failed", Ex)
    BY <2>1 DEF HandledOnce, WorkerHandled
  <2>3. \A u, f : Passed(u, f)' <=> Passed(u, f)
    BY <2>1 DEF Passed, Handed
  <2>4. \A i \in DOMAIN tasks : tasks[i] = <<tasks[i][1], tasks[i][2]>> /\ tasks[i][2] \in Execs
    BY DEF Typed, EventsOK
  <2>5. ASSUME NEW i \in DOMAIN tasks, tasks[i][1] \in {"Completed", "Failed"}
        PROVE  tasks[i][2] \notin settled'
    <3>1. tasks[i][2] # Ex
      BY <2>2, <2>4, <2>5 DEF NoTask
    <3> QED
      BY <2>1, <2>5, <3>1 DEF HandledOnce
  <2>6. WorkerHandled'
    BY <2>1 DEF WorkerHandled
  <2>7. \A f \in Execs : arrival'[f] # 0 => Passed("Planned", f)'
    BY <2>1, <2>3 DEF HandledOnce
  <2>8. \A f \in settled' : Passed("Completed", f)' \/ Passed("Failed", f)'
    BY <2>1, <2>2, <2>3 DEF HandledOnce
  <2>9. \A i \in DOMAIN tasks' : (Passed(tasks[i][1], tasks[i][2]))'
    BY <2>1 DEF HandledOnce, Passed, Handed
  <2>10. \A u \in Topics : Handed(u)' <= Len(log'[u])
    BY <2>1 DEF HandledOnce, Handed
  <2> QED
    BY <2>1, <2>5, <2>6, <2>7, <2>8, <2>9, <2>10 DEF HandledOnce
<1> QED
  BY <1>1, <1>2, <1>3, <1>4, <1>5

LEMMA OtherStepHandled ==
  ASSUME Typed, LoggedOnce, HandledOnce,
         \/ \E r \in Runners :
              Dequeue(r) \/ Reply(r) \/ LoseReply(r) \/ Spawn(r) \/ Report(r) \/ LoseReport(r)
         \/ \E e \in Execs : ClientInvoke(e) \/ StrayReport(e)
         \/ Commit \/ UNCHANGED vars
  PROVE  HandledOnce'
<1>1. UNCHANGED <<worker, log, tasks, arrival, settled>>
  BY DEF Dequeue, Reply, LoseReply, Spawn, Report, LoseReport, ClientInvoke, StrayReport, Commit,
         AtBridge, vars, durable, history
<1>2. \A t \in Topics : Handed(t)' = Handed(t)
  <2>1. CASE UNCHANGED <<committed, handing>>
    BY <2>1 DEF Handed
  <2>2. CASE Commit
    <3>1. /\ handing \in Topics /\ committed \in [Topics -> Nat] /\ handing' = NoTopic
          /\ committed' = [committed EXCEPT ![handing] = committed[handing] + 1]
      BY <2>2 DEF Commit, Typed, EventsOK
    <3>2. ASSUME NEW t \in Topics  PROVE Handed(t)' = Handed(t)
      <4>1. handing' # t
        BY <3>1 DEF Topics, NoTopic
      <4>2. /\ committed[t] \in Nat
            /\ committed'[t] = IF handing = t THEN committed[t] + 1 ELSE committed[t]
        BY <3>1
      <4> QED
        BY <4>1, <4>2 DEF Handed
    <3> QED
      BY <3>2
  <2> QED
    BY <2>1, <2>2 DEF Dequeue, Reply, LoseReply, Spawn, Report, LoseReport, ClientInvoke, StrayReport,
                      AtBridge, vars, durable
<1>3. \A t \in Topics : /\ Handed(t)' <= Len(log'[t])
                        /\ \A f : Passed(t, f)' <=> Passed(t, f)
  BY <1>1, <1>2 DEF HandledOnce, Passed
<1>4. WorkerHandled'
  <2>1. At' = At /\ Ex' = Ex
    BY <1>1 DEF At, Ex
  <2>2. Handed("Planned")' = Handed("Planned") /\ Handed("Completed")' = Handed("Completed")
        /\ Handed("Failed")' = Handed("Failed")
    BY <1>2 DEF Topics
  <2> QED
    BY <1>1, <2>1, <2>2 DEF WorkerHandled, HandledOnce, Passed, NoTask
<1> QED
  BY <1>1, <1>3, <1>4, HandledKeeps

LEMMA HandledInit == Init => HandledOnce
<1> SUFFICES ASSUME Init  PROVE HandledOnce
  OBVIOUS
<1>1. At = "idle"
  BY DEF Init, At, Workers, Idle
<1>2. WorkerHandled
  BY <1>1 DEF WorkerHandled
<1>3. \A t \in Topics : Handed(t) = 0 /\ Len(log[t]) = 0
  BY DEF Init, Handed, Topics, NoTopic
<1> QED
  BY <1>2, <1>3 DEF Init, HandledOnce, Orch!Init

LEMMA HandledStep ==
  ASSUME MaxCrashes = 0, Typed, LoggedOnce, HandledOnce, [Next]_vars
  PROVE  HandledOnce'
<1>1. ~Crash
  BY DEF Crash, Typed, StoreOK
<1> QED
  BY <1>1, Steps, RequestStepHandled, HandledOver, HandledTaken, EventStepHandled, OtherStepHandled

LEMMA HandledInvariant ==
  ASSUME MaxCrashes = 0
  PROVE  Spec => []HandledOnce
<1>1. Typed /\ LoggedOnce /\ HandledOnce /\ [Next]_vars => HandledOnce'
  BY HandledStep
<1> QED
  BY <1>1, TypedInvariant, LoggedInvariant, HandledInit, PTL DEF Spec

\* A step of the repository alone is one of the orchestration's environment.
LEMMA Progresses ==
  ASSUME NEW e \in Execs, UNCHANGED <<inflight, backlog, execs, arrivals, arrival, settled>>,
         \/ Lifecycle!Plan(e) \/ Lifecycle!Queue(e) \/ Lifecycle!Start(e)
         \/ Lifecycle!Complete(e) \/ Lifecycle!Fail(e)
  PROVE  Orch!Next
<1>1. Orch!Progress(e)
  BY DEF Orch!Progress, Lifecycle!Plan, Lifecycle!Queue, Lifecycle!Start, Lifecycle!Complete,
         Lifecycle!Fail, Lifecycle!Advance, Orch!Lifecycle!Plan, Orch!Lifecycle!Queue,
         Orch!Lifecycle!Start, Orch!Lifecycle!Complete, Orch!Lifecycle!Fail, Orch!Lifecycle!Advance,
         Orch!service, Orch!history
<1> QED
  BY <1>1 DEF Orch!Next

LEMMA StepImplements ==
  ASSUME MaxCrashes = 0, Typed, LoggedOnce, HandledOnce, [Next]_vars
  PROVE  Orch!Next \/ UNCHANGED Orch!vars
<1>0. /\ At \in RequestCalls => Subject \in Execs
      /\ At \in EventCalls => Ex \in Execs
      /\ {"plan", "complete", "fail"} \subseteq RequestCalls /\ "queue" \in EventCalls
  BY SubjectIs DEF Typed, WorkerOK, RequestCalls, EventCalls
<1>1. ASSUME UNCHANGED <<status, inflight, backlog, execs, arrivals, arrival, settled>>
      PROVE  UNCHANGED Orch!vars
  BY <1>1 DEF Orch!vars, Orch!service, Orch!history
<1>2. ASSUME PlanExec(1)  PROVE Orch!Next
  BY <1>0, <1>2, Progresses DEF PlanExec, Handling, At, service, history
<1>3. ASSUME CompleteExec(1)  PROVE Orch!Next \/ UNCHANGED Orch!vars
  BY <1>0, <1>1, <1>3, Progresses DEF CompleteExec, Handling, Refuse, At, service, history
<1>4. ASSUME FailExec(1)  PROVE Orch!Next \/ UNCHANGED Orch!vars
  BY <1>0, <1>1, <1>4, Progresses DEF FailExec, Handling, Refuse, At, service, history
<1>5. ASSUME QueueExec(1)  PROVE Orch!Next \/ UNCHANGED Orch!vars
  BY <1>0, <1>1, <1>5, Progresses DEF QueueExec, Serving, At, Ex, service, history
<1>6. ASSUME NEW r \in Runners, Dequeue(r)  PROVE Orch!Next
  BY <1>6, Progresses DEF Dequeue, AtBridge, service, history
<1>7. ASSUME ScheduleOrBacklog(1)  PROVE Orch!Next
  <2>1. At = "schedule" /\ Ex \in Execs /\ Orch!PlannedHandled(Ex)
    BY <1>7, ScheduleDoes
  <2>2. Passed("Planned", Ex) /\ arrival[Ex] = 0
    BY <2>1 DEF HandledOnce, WorkerHandled
  <2>3. status[Ex] # "Absent"
    BY <2>2, Exclusive
  <2> QED
    BY <2>1, <2>2, <2>3 DEF Orch!Next
<1>8. ASSUME FinishExec(1)  PROVE Orch!Next
  <2>1. At = "finish" /\ Ex \in Execs /\ Orch!FinishedHandled(Ex)
    BY <1>8, FinishDoes
  <2>2. (Passed("Completed", Ex) \/ Passed("Failed", Ex)) /\ Ex \notin settled
    BY <2>1 DEF HandledOnce, WorkerHandled
  <2>3. status[Ex] \in {"Completed", "Failed"}
    BY <2>2, Exclusive
  <2> QED
    BY <2>1, <2>2, <2>3 DEF Orch!Next, Orch!Lifecycle!Terminal
<1>9. ASSUME \/ TakeBatch(1) \/ Ack(1) \/ Authorize(1) \/ EmitPlanned(1) \/ EmitCompleted(1)
             \/ SetState(1) \/ Publish(1) \/ EmitFailed(1) \/ RunTask(1) \/ CreateToken(1)
             \/ EmitScheduled(1) \/ RevokeToken(1)
      PROVE  UNCHANGED Orch!vars
  BY <1>1, <1>9 DEF TakeBatch, Ack, Authorize, Refuse, Handling, EmitPlanned, EmitCompleted, SetState,
                    Publish, EmitFailed, RunTask, CreateToken, EmitScheduled, RevokeToken,
                    durable, service, history
<1>10. ASSUME \/ \E r \in Runners : Reply(r) \/ LoseReply(r) \/ Spawn(r) \/ Report(r) \/ LoseReport(r)
              \/ \E e \in Execs : ClientInvoke(e) \/ StrayReport(e)
              \/ \E t \in Topics : HandOver(t)
              \/ Commit \/ UNCHANGED vars
       PROVE  UNCHANGED Orch!vars
  BY <1>1, <1>10 DEF Reply, LoseReply, Spawn, Report, LoseReport, ClientInvoke, StrayReport, HandOver,
                     Commit, AtBridge, vars, durable, service, history
<1>11. ~Crash
  BY DEF Crash, Typed, StoreOK
<1> QED
  BY <1>2, <1>3, <1>4, <1>5, <1>6, <1>7, <1>8, <1>9, <1>10, <1>11, Steps

\* As long as the backend does not crash, the engine gives the orchestration each
\* exec's planned and last event once, and not before the repository has stored
\* it: request queue, log, scheduler thread, worker pool, bridge and runners are,
\* together, the environment the orchestration service was written for, and what
\* OrchestrationProofs shows of it holds of the engine.
THEOREM Implements ==
  ASSUME MaxCrashes = 0
  PROVE  Spec => ImplementsOrchestration
<1>1. Init => Orch!Init
  BY DEF Init
<1>2. Typed /\ LoggedOnce /\ HandledOnce /\ [Next]_vars => [Orch!Next]_(Orch!vars)
  BY StepImplements
<1> QED
  BY <1>1, <1>2, TypedInvariant, LoggedInvariant, HandledInvariant, PTL
     DEF Spec, ImplementsOrchestration, Orch!Spec
-----------------------------------------------------------------------------
\* No request is failed.

LEMMA PendingIs ==
  ASSUME Typed
  PROVE  /\ Pending \in Seq(Request) /\ DOMAIN Pending = 1..Len(Pending) /\ Len(Pending) \in Nat
         /\ batch # << >> => 1 \in DOMAIN Pending /\ Pending[1] = Head(batch)
         /\ batch = << >> => Pending = requests
<1>1. batch \in Seq(Request) /\ requests \in Seq(Request)
  BY DEF Typed, RequestsOK
<1>2. Pending \in Seq(Request)
  BY <1>1, ConcatProperties DEF Pending
<1>3. ASSUME batch # << >>  PROVE 1 \in DOMAIN Pending /\ Pending[1] = Head(batch)
  <2>1. Len(batch) \in Nat \ {0} /\ Len(requests) \in Nat
    BY <1>1, <1>3
  <2>2. /\ Len(Pending) = Len(batch) + Len(requests)
        /\ \A i \in 1..Len(batch) : Pending[i] = batch[i]
    BY <1>1, ConcatProperties DEF Pending
  <2> HIDE DEF Pending
  <2>3. DOMAIN Pending = 1..Len(Pending)
    BY <1>2
  <2> QED
    BY <1>1, <1>3, <2>1, <2>2, <2>3
<1>4. ASSUME batch = << >>  PROVE Pending = requests
  BY <1>1, <1>4, ConcatProperties DEF Pending
<1> HIDE DEF Pending
<1> QED
  BY <1>2, <1>3, <1>4

\* Nothing new is asked for, and nobody's claim that an exec is started is
\* touched.
LEMMA PromisingKeeps ==
  ASSUME Typed, Promising, Pending' = Pending, UNCHANGED runner,
         Begun => Begun',
         \A req \in Request : reqStatus'[req] # "Failed" /\ (reqStatus'[req] = "None" <=> reqStatus[req] = "None"),
         \A e \in Execs : /\ status[e] \in {"Started", "Completed", "Failed"}
                               => status'[e] \in {"Started", "Completed", "Failed"}
                          /\ status[e] = "Started" => status'[e] = "Started"
  PROVE  Promising'
<1>1. \A r \in Runners : runner[r].at # "idle" => runner[r].exec \in Execs
  BY DEF Typed, RunnersOK
<1>2. \A i \in DOMAIN Pending : Pending[i] \in Request
  BY PendingIs
<1>3. \A f \in Execs : InvokedBy[f] # NoExec => InvokedBy[f] \in Execs
  BY InvokedByAssumption
<1> HIDE DEF Pending, Begun, Reports
<1>4. /\ \A i \in DOMAIN Pending' : reqStatus'[Pending'[i]] # "None"
      /\ \A req \in Request, e \in Execs :
           Reports(req, e) /\ reqStatus'[req] # "None" => status'[e] \in {"Started", "Completed", "Failed"}
  BY <1>2 DEF Promising
<1>5. \A r \in Runners : runner'[r].at # "idle" =>
       /\ status'[runner'[r].exec] = "Started"
       /\ \A req \in Request : Reports(req, runner[r].exec) => reqStatus'[req] = "None"
       /\ \A s \in Runners : runner'[s].at # "idle" /\ runner'[s].exec = runner'[r].exec => s = r
  BY <1>1 DEF Promising
<1>6. \A i \in DOMAIN Pending', e \in Execs : Reports(Pending[i], e) =>
       /\ i > 1 \/ ~Begun' => status'[e] = "Started"
       /\ \A j \in DOMAIN Pending' : Reports(Pending[j], e) => j = i
  BY DEF Promising
<1>7. \A i \in DOMAIN Pending', f \in Execs :
       /\ Pending[i] = <<"Invoke", f>> /\ (i > 1 \/ ~Begun')
       /\ InvokedBy[f] # NoExec
       => /\ status'[InvokedBy[f]] = "Started"
          /\ \A j \in DOMAIN Pending' : j < i => ~Reports(Pending[j], InvokedBy[f])
  BY <1>3 DEF Promising
<1> QED
  BY <1>4, <1>5, <1>6, <1>7 DEF Promising, Reports

\* The exec of the first request is finished: it was not about to be reported on
\* again, and nothing that it invoked is left.
LEMMA PromiseKept ==
  ASSUME Typed, Promising, Pending' = Pending, UNCHANGED <<runner, reqStatus>>, Begun',
         1 \in DOMAIN Pending, NEW e \in Execs, Reports(Pending[1], e), NEW to \in {"Completed", "Failed"},
         status' = [status EXCEPT ![e] = to]
  PROVE  Promising'
<1>1. \A r \in Runners : runner[r].at # "idle" => runner[r].exec \in Execs
  BY DEF Typed, RunnersOK
<1>2. \A i \in DOMAIN Pending : Pending[i] \in Request /\ i \in Nat /\ (i = 1 \/ i > 1)
  BY PendingIs
<1>3. \A f \in Execs : InvokedBy[f] # NoExec => InvokedBy[f] \in Execs
  BY InvokedByAssumption
<1>4. \A f \in Execs : status'[f] = IF f = e THEN to ELSE status[f]
  BY DEF Typed, StoreOK
<1> HIDE DEF Pending, Begun, Reports
<1>5. /\ \A i \in DOMAIN Pending' : reqStatus'[Pending'[i]] # "None"
      /\ \A req \in Request, f \in Execs :
           Reports(req, f) /\ reqStatus'[req] # "None" => status'[f] \in {"Started", "Completed", "Failed"}
  BY <1>2, <1>4 DEF Promising
<1>6. ASSUME NEW r \in Runners, runner[r].at # "idle"
      PROVE  /\ status'[runner[r].exec] = "Started"
             /\ \A req \in Request : Reports(req, runner[r].exec) => reqStatus'[req] = "None"
             /\ \A s \in Runners : runner[s].at # "idle" /\ runner[s].exec = runner[r].exec => s = r
  <2>1. runner[r].exec # e
    BY <1>2, <1>6 DEF Promising
  <2> QED
    BY <1>1, <1>4, <1>6, <2>1 DEF Promising
<1>7. ASSUME NEW i \in DOMAIN Pending, NEW f \in Execs, Reports(Pending[i], f)
      PROVE  /\ i > 1 \/ ~Begun' => status'[f] = "Started"
             /\ \A j \in DOMAIN Pending : Reports(Pending[j], f) => j = i
  <2>1. i > 1 => f # e
    BY <1>7 DEF Promising
  <2> QED
    BY <1>2, <1>4, <1>7, <2>1 DEF Promising
<1>8. ASSUME NEW i \in DOMAIN Pending, NEW f \in Execs, Pending[i] = <<"Invoke", f>>, i > 1,
             InvokedBy[f] # NoExec
      PROVE  /\ status'[InvokedBy[f]] = "Started"
             /\ \A j \in DOMAIN Pending : j < i => ~Reports(Pending[j], InvokedBy[f])
  <2>1. InvokedBy[f] # e
    BY <1>8 DEF Promising
  <2> QED
    BY <1>3, <1>4, <1>8, <2>1 DEF Promising
<1>9. \A i \in DOMAIN Pending', f \in Execs : Reports(Pending[i], f) =>
       /\ i > 1 \/ ~Begun' => status'[f] = "Started"
       /\ \A j \in DOMAIN Pending' : Reports(Pending[j], f) => j = i
  BY <1>7
<1>10. \A i \in DOMAIN Pending', f \in Execs :
       /\ Pending[i] = <<"Invoke", f>> /\ (i > 1 \/ ~Begun')
       /\ InvokedBy[f] # NoExec
       => /\ status'[InvokedBy[f]] = "Started"
          /\ \A j \in DOMAIN Pending' : j < i => ~Reports(Pending[j], InvokedBy[f])
  BY <1>8
<1>11. \A req \in Request : reqStatus'[req] # "Failed"
  BY DEF Promising
<1> QED
  BY <1>5, <1>6, <1>9, <1>10, <1>11 DEF Promising, Reports

LEMMA PendingAppends ==
  ASSUME Typed, NEW req \in Request, requests' = Append(requests, req), UNCHANGED batch
  PROVE  Pending' = Append(Pending, req)
<1>1. batch \in Seq(Request) /\ requests \in Seq(Request) /\ requests' \in Seq(Request)
  BY DEF Typed, RequestsOK
<1> DEFINE a == batch \o requests'
           b == Append(batch \o requests, req)
<1>2. /\ a \in Seq(Request) /\ b \in Seq(Request) /\ Len(a) = Len(b)
      /\ \A i \in 1..Len(a) : a[i] = b[i]
  BY <1>1
<1> HIDE DEF a, b
<1>3. a = b
  BY <1>2, SeqEqual
<1> QED
  BY <1>3 DEF Pending, a, b

LEMMA PendingShifts ==
  ASSUME Typed, batch # << >>, batch' = Tail(batch), UNCHANGED requests
  PROVE  \A i \in DOMAIN Pending' : /\ i \in Nat \ {0} /\ i + 1 \in DOMAIN Pending
                                    /\ Pending'[i] = Pending[i + 1]
<1>1. batch \in Seq(Request) /\ requests \in Seq(Request) /\ batch' \in Seq(Request)
  BY DEF Typed, RequestsOK
<1>2. /\ Len(batch) \in Nat \ {0} /\ Len(requests) \in Nat /\ Len(batch') = Len(batch) - 1
      /\ \A i \in 1..Len(batch') : batch'[i] = batch[i + 1]
  BY <1>1
<1>3. /\ Len(Pending) = Len(batch) + Len(requests)
      /\ \A i \in 1..Len(batch) : Pending[i] = batch[i]
      /\ \A i \in (Len(batch) + 1)..(Len(batch) + Len(requests)) : Pending[i] = requests[i - Len(batch)]
      /\ DOMAIN Pending = 1..Len(Pending)
  BY <1>1, ConcatProperties DEF Pending
<1>4. /\ Len(Pending') = Len(batch') + Len(requests)
      /\ \A i \in 1..Len(batch') : Pending'[i] = batch'[i]
      /\ \A i \in (Len(batch') + 1)..(Len(batch') + Len(requests)) : Pending'[i] = requests[i - Len(batch')]
      /\ DOMAIN Pending' = 1..Len(Pending')
  BY <1>1, ConcatProperties DEF Pending
<1> HIDE DEF Pending
<1>5. ASSUME NEW i \in DOMAIN Pending'
      PROVE  /\ i \in Nat \ {0} /\ i + 1 \in DOMAIN Pending
             /\ Pending'[i] = Pending[i + 1]
  <2>1. i \in Nat \ {0} /\ i + 1 \in DOMAIN Pending /\ i <= Len(batch') + Len(requests)
    BY <1>2, <1>3, <1>4, <1>5
  <2>2. CASE i <= Len(batch')
    BY <1>2, <1>3, <1>4, <2>1, <2>2
  <2>3. CASE i > Len(batch')
    <3>1. Pending'[i] = requests[i - Len(batch')]
      BY <1>2, <1>4, <2>1, <2>3
    <3>2. Pending[i + 1] = requests[(i + 1) - Len(batch)]
      BY <1>2, <1>3, <2>1, <2>3
    <3>3. (i + 1) - Len(batch) = i - Len(batch')
      BY <1>2, <2>1
    <3> QED
      BY <2>1, <3>1, <3>2, <3>3
  <2> QED
    BY <1>2, <2>1, <2>2, <2>3
<1> QED
  BY <1>5

\* The first request is answered, and the next one is not begun.
LEMMA PromisingAnswers ==
  ASSUME Typed, Promising, batch # << >>, batch' = Tail(batch), UNCHANGED <<requests, status, runner>>,
         Begun, reqStatus' = [reqStatus EXCEPT ![Head(batch)] = "Completed"]
  PROVE  Promising'
<1>1. \A r \in Runners : runner[r].at # "idle" => runner[r].exec \in Execs
  BY DEF Typed, RunnersOK
<1>2. \A i \in DOMAIN Pending' : /\ i \in Nat \ {0} /\ i + 1 \in DOMAIN Pending
                                 /\ Pending'[i] = Pending[i + 1] /\ i + 1 > 1
  BY PendingShifts
<1>3. /\ \A i \in DOMAIN Pending : Pending[i] \in Request /\ i \in Nat
      /\ 1 \in DOMAIN Pending /\ Pending[1] = Head(batch)
  BY PendingIs
<1>4. /\ \A req \in Request : reqStatus'[req] = IF req = Head(batch) THEN "Completed" ELSE reqStatus[req]
      /\ reqStatus[Head(batch)] # "None"
  BY <1>3 DEF Typed, RequestsOK, Promising
<1> HIDE DEF Pending, Begun, Reports
<1>5. /\ \A req \in Request : reqStatus'[req] # "Failed"
      /\ \A i \in DOMAIN Pending' : reqStatus'[Pending'[i]] # "None"
      /\ \A req \in Request, e \in Execs :
           Reports(req, e) /\ reqStatus'[req] # "None" => status'[e] \in {"Started", "Completed", "Failed"}
  BY <1>2, <1>3, <1>4 DEF Promising
<1>6. \A r \in Runners : runner'[r].at # "idle" =>
       /\ status'[runner'[r].exec] = "Started"
       /\ \A req \in Request : Reports(req, runner[r].exec) => reqStatus'[req] = "None"
       /\ \A s \in Runners : runner'[s].at # "idle" /\ runner'[s].exec = runner'[r].exec => s = r
  BY <1>1, <1>4 DEF Promising
<1>7. ASSUME NEW i \in DOMAIN Pending', NEW e \in Execs, Reports(Pending'[i], e)
      PROVE  /\ status'[e] = "Started"
             /\ \A j \in DOMAIN Pending' : Reports(Pending'[j], e) => j = i
  <2>1. i + 1 \in DOMAIN Pending /\ Reports(Pending[i + 1], e) /\ i + 1 > 1 /\ i \in Nat
    BY <1>2, <1>7
  <2>2. status[e] = "Started" /\ \A j \in DOMAIN Pending : Reports(Pending[j], e) => j = i + 1
    BY <2>1 DEF Promising
  <2>3. ASSUME NEW j \in DOMAIN Pending', Reports(Pending'[j], e)  PROVE j = i
    <3>1. j + 1 = i + 1 /\ j \in Nat
      BY <1>2, <2>2, <2>3
    <3> QED
      BY <2>1, <3>1
  <2> QED
    BY <2>2, <2>3
<1>8. ASSUME NEW i \in DOMAIN Pending', NEW f \in Execs, Pending'[i] = <<"Invoke", f>>, InvokedBy[f] # NoExec
      PROVE  /\ status'[InvokedBy[f]] = "Started"
             /\ \A j \in DOMAIN Pending' : j < i => ~Reports(Pending'[j], InvokedBy[f])
  <2>1. i + 1 \in DOMAIN Pending /\ Pending[i + 1] = <<"Invoke", f>> /\ i + 1 > 1 /\ i \in Nat
    BY <1>2, <1>8
  <2>2. /\ status[InvokedBy[f]] = "Started"
        /\ \A j \in DOMAIN Pending : j < i + 1 => ~Reports(Pending[j], InvokedBy[f])
    BY <1>8, <2>1 DEF Promising
  <2>3. ASSUME NEW j \in DOMAIN Pending', j < i  PROVE ~Reports(Pending'[j], InvokedBy[f])
    <3>1. j + 1 \in DOMAIN Pending /\ j + 1 < i + 1 /\ Pending'[j] = Pending[j + 1]
      BY <1>2, <2>1, <2>3
    <3> QED
      BY <2>2, <3>1
  <2> QED
    BY <2>2, <2>3
<1> QED
  BY <1>5, <1>6, <1>7, <1>8 DEF Promising, Reports

\* A request comes in: an invoke of a client or of running code, or the report of
\* a runner, which is free from then on.
LEMMA PromisingSubmits ==
  ASSUME Typed, Promising, NEW req \in Request, Submit(req), UNCHANGED <<batch, worker, status>>,
         \/ /\ \E f \in Execs :
                 /\ req = <<"Invoke", f>>
                 /\ InvokedBy[f] = NoExec
                      \/ \E r \in Runners : runner[r].at # "idle" /\ runner[r].exec = InvokedBy[f]
            /\ UNCHANGED runner
         \/ \E r \in Runners : /\ runner[r].at # "idle" /\ Reports(req, runner[r].exec)
                               /\ runner' = [runner EXCEPT ![r] = Free]
  PROVE  Promising'
<1> DEFINE n == Len(Pending) + 1
<1>1. /\ \A r \in Runners : runner[r].at # "idle" => runner[r].exec \in Execs
      /\ Free.at = "idle"
  BY DEF Typed, RunnersOK, Free
<1>2. /\ requests' = Append(requests, req) /\ reqStatus[req] = "None"
      /\ \A q \in Request : reqStatus'[q] = IF q = req THEN "Submitted" ELSE reqStatus[q]
  BY DEF Submit, Typed, RequestsOK
<1>3. /\ Pending \in Seq(Request) /\ Len(Pending) \in Nat /\ DOMAIN Pending = 1..Len(Pending)
      /\ Pending' = Append(Pending, req)
  BY <1>2, PendingIs, PendingAppends
<1>4. (Begun' <=> Begun) /\ (Begun => Len(Pending) # 0)
  <2>1. At' = At
    BY DEF At
  <2>2. Begun => batch # << >>
    BY DEF Begun, Typed, WorkerOK, RequestCalls
  <2> QED
    BY <2>1, <2>2, PendingIs DEF Begun
<1> HIDE DEF Pending, Begun, Reports
<1>5. /\ n \in Nat /\ n \in DOMAIN Pending' /\ Pending'[n] = req
      /\ \A i \in DOMAIN Pending' :
           /\ i \in Nat
           /\ (i \in DOMAIN Pending /\ Pending'[i] = Pending[i] /\ i < n) \/ (i = n /\ Pending'[i] = req)
  BY <1>3, AppendKeeps
<1> HIDE DEF n
<1>6. \A i \in DOMAIN Pending : Pending[i] \in Request /\ Pending[i] # req
  BY <1>2, <1>3 DEF Promising
<1>7. \A r \in Runners : runner'[r].at # "idle" => /\ runner[r].at # "idle" /\ runner'[r] = runner[r]
                                                   /\ ~Reports(req, runner[r].exec)
  <2>1. ASSUME NEW f \in Execs, req = <<"Invoke", f>>, NEW e  PROVE ~Reports(req, e)
    BY <2>1 DEF Reports
  <2>2. ASSUME NEW r \in Runners, runner[r].at # "idle", Reports(req, runner[r].exec),
               runner' = [runner EXCEPT ![r] = Free], NEW s \in Runners, runner'[s].at # "idle"
        PROVE  runner[s].at # "idle" /\ runner'[s] = runner[s] /\ ~Reports(req, runner[s].exec)
    <3>1. s # r /\ runner'[s] = runner[s]
      BY <1>1, <2>2 DEF Typed, RunnersOK
    <3>2. runner[s].exec # runner[r].exec
      BY <2>2, <3>1 DEF Promising
    <3> QED
      BY <2>2, <3>1, <3>2 DEF Reports
  <2> QED
    BY <2>1, <2>2
<1>8. \A e \in Execs : Reports(req, e) =>
        status[e] = "Started" /\ \A i \in DOMAIN Pending : ~Reports(Pending[i], e)
  <2>1. ASSUME NEW e \in Execs, Reports(req, e)
        PROVE  \E r \in Runners : runner[r].at # "idle" /\ runner[r].exec = e
    BY <1>1, <2>1 DEF Reports
  <2>2. ASSUME NEW r \in Runners, runner[r].at # "idle"
        PROVE  /\ status[runner[r].exec] = "Started"
               /\ \A i \in DOMAIN Pending : ~Reports(Pending[i], runner[r].exec)
    BY <1>6, <2>2 DEF Promising
  <2> QED
    BY <2>1, <2>2
<1>9. \A f \in Execs : req = <<"Invoke", f>> /\ InvokedBy[f] # NoExec =>
        /\ status[InvokedBy[f]] = "Started"
        /\ \A i \in DOMAIN Pending : ~Reports(Pending[i], InvokedBy[f])
  <2>1. ASSUME NEW r \in Runners, runner[r].at # "idle"
        PROVE  /\ status[runner[r].exec] = "Started"
               /\ \A i \in DOMAIN Pending : ~Reports(Pending[i], runner[r].exec)
    BY <1>6, <2>1 DEF Promising
  <2>2. ASSUME NEW f \in Execs, req = <<"Invoke", f>>, InvokedBy[f] # NoExec
        PROVE  \E r \in Runners : runner[r].at # "idle" /\ runner[r].exec = InvokedBy[f]
    <3>1. \A e \in Execs : ~Reports(req, e)
      BY <2>2 DEF Reports
    <3>2. \A g \in Execs : req = <<"Invoke", g>> => g = f
      BY <2>2
    <3> QED
      BY <1>1, <2>2, <3>1, <3>2
  <2> QED
    BY <2>1, <2>2
<1>10. /\ \A q \in Request : reqStatus'[q] # "Failed"
       /\ \A i \in DOMAIN Pending' : reqStatus'[Pending'[i]] # "None"
       /\ \A q \in Request, e \in Execs :
            Reports(q, e) /\ reqStatus'[q] # "None" => status'[e] \in {"Started", "Completed", "Failed"}
  BY <1>2, <1>5, <1>6, <1>8 DEF Promising
<1>11. \A r \in Runners : runner'[r].at # "idle" =>
       /\ status'[runner'[r].exec] = "Started"
       /\ \A q \in Request : Reports(q, runner'[r].exec) => reqStatus'[q] = "None"
       /\ \A s \in Runners : runner'[s].at # "idle" /\ runner'[s].exec = runner'[r].exec => s = r
  BY <1>2, <1>7 DEF Promising
<1>12. ASSUME NEW i \in DOMAIN Pending', NEW e \in Execs, Reports(Pending'[i], e)
       PROVE  /\ i > 1 \/ ~Begun' => status'[e] = "Started"
              /\ \A j \in DOMAIN Pending' : Reports(Pending'[j], e) => j = i
  BY <1>4, <1>5, <1>8, <1>12 DEF Promising
<1>13. ASSUME NEW i \in DOMAIN Pending', NEW f \in Execs, Pending'[i] = <<"Invoke", f>>,
              i > 1 \/ ~Begun', InvokedBy[f] # NoExec
       PROVE  /\ status'[InvokedBy[f]] = "Started"
              /\ \A j \in DOMAIN Pending' : j < i => ~Reports(Pending'[j], InvokedBy[f])
  <2>1. CASE i \in DOMAIN Pending /\ Pending'[i] = Pending[i] /\ i < n
    <3>1. /\ status[InvokedBy[f]] = "Started"
          /\ \A j \in DOMAIN Pending : j < i => ~Reports(Pending[j], InvokedBy[f])
      BY <1>4, <1>13, <2>1 DEF Promising
    <3>2. \A j \in DOMAIN Pending' : j < i => j \in DOMAIN Pending /\ Pending'[j] = Pending[j]
      BY <1>5, <2>1
    <3> QED
      BY <3>1, <3>2
  <2>2. CASE i = n /\ Pending'[i] = req
    <3>1. \A j \in DOMAIN Pending' : j < i => j \in DOMAIN Pending /\ Pending'[j] = Pending[j]
      BY <1>5, <2>2
    <3> QED
      BY <1>9, <1>13, <2>2, <3>1
  <2> QED
    BY <1>5, <2>1, <2>2
<1> QED
  BY <1>10, <1>11, <1>12, <1>13 DEF Promising, Reports

LEMMA PromisingInit == Init => Promising
<1> SUFFICES ASSUME Init  PROVE Promising
  OBVIOUS
<1>1. Pending = << >>
  BY DEF Init, Pending
<1>2. DOMAIN Pending = {}
  BY <1>1
<1> QED
  BY <1>2 DEF Init, Promising, Free

LEMMA PromisingStep ==
  ASSUME MaxCrashes = 0, Untidy = FALSE, Typed, Tokened, Promising, [Next]_vars
  PROVE  Promising'
<1>0. /\ RequestCalls = {"authorize", "plan", "emitPlanned", "complete", "emitCompleted",
                         "setState", "publish", "fail", "emitFailed", "ack"}
      /\ worker \in [Workers -> WorkerStates]
      /\ At \in RequestCalls <=> batch # << >>
      /\ At \in EventCalls \cup {"idle"} => At \notin RequestCalls
  BY DEF RequestCalls, EventCalls, Typed, WorkerOK
<1>1. ASSUME At \in RequestCalls
      PROVE  /\ batch # << >> /\ Subject \in Execs /\ Head(batch) = <<Head(batch)[1], Subject>>
             /\ 1 \in DOMAIN Pending /\ Pending[1] = Head(batch)
             /\ Head(batch)[1] \in {"Invoke", "Complete", "Fail"}
  BY <1>0, <1>1, SubjectIs, PendingIs DEF Typed
<1>2. \A req \in Request : reqStatus[req] # "Failed"
  BY DEF Promising
<1>3. ASSUME UNCHANGED <<batch, requests, reqStatus, runner>>, Begun => Begun',
             \A e \in Execs : /\ status[e] \in {"Started", "Completed", "Failed"}
                                  => status'[e] \in {"Started", "Completed", "Failed"}
                              /\ status[e] = "Started" => status'[e] = "Started"
      PROVE  Promising'
  <2>1. Pending' = Pending
    BY <1>3 DEF Pending
  <2> QED
    BY <1>2, <1>3, <2>1, PromisingKeeps
<1>4. ASSUME UNCHANGED <<batch, requests, reqStatus, runner, status>>, Begun => Begun'
      PROVE  Promising'
  BY <1>3, <1>4
<1>5. CASE TakeBatch(1)
  <2>1. /\ At = "idle" /\ At' = "authorize" /\ batch' \o requests' = requests /\ batch = << >>
        /\ UNCHANGED <<status, runner>>
    BY <1>5, TakeBatchTakes DEF TakeBatch
  <2>2. Pending' = Pending
    BY <2>1, PendingIs DEF Pending
  <2>3. \A req \in Request : \/ reqStatus'[req] = reqStatus[req]
                             \/ reqStatus'[req] = "Processing" /\ \E i \in DOMAIN requests : requests[i] = req
    <3> DEFINE n == IF Len(requests) < BatchLimit THEN Len(requests) ELSE BatchLimit
    <3>1. reqStatus' = [r \in Request |->
                     IF \E i \in 1..n : requests[i] = r THEN "Processing" ELSE reqStatus[r]]
      BY <1>5 DEF TakeBatch
    <3>2. 1..n \subseteq DOMAIN requests
      BY BatchLimitAssumption DEF Typed, RequestsOK
    <3> HIDE DEF n
    <3> QED
      BY <3>1, <3>2
  <2>4. \A i \in DOMAIN requests : reqStatus[requests[i]] # "None"
    BY <2>1, PendingIs DEF Promising
  <2>5. \A req \in Request : reqStatus'[req] # "Failed" /\ (reqStatus'[req] = "None" <=> reqStatus[req] = "None")
    BY <1>2, <2>3, <2>4
  <2>6. ~Begun
    BY <2>1 DEF Begun
  <2> QED
    BY <2>1, <2>2, <2>5, <2>6, PromisingKeeps
<1>6. CASE Authorize(1)
  <2>1. At = "authorize"
    BY <1>6 DEF Authorize, At
  <2>2. ~Begun
    BY <2>1 DEF Begun
  <2>3. Authorized
    <3>1. SUFFICES ASSUME Head(batch)[1] = "Invoke", InvokedBy[Subject] # NoExec
                   PROVE  tokens[InvokedBy[Subject]] > 0
      BY DEF Authorized
    <3>2. Pending[1] = <<"Invoke", Subject>> /\ Subject \in Execs /\ 1 \in DOMAIN Pending
      BY <1>0, <1>1, <2>1, <3>1
    <3>3. status[InvokedBy[Subject]] = "Started"
      BY <2>2, <3>1, <3>2 DEF Promising
    <3>4. InvokedBy[Subject] \in Execs
      BY <3>1, <3>2, InvokedByAssumption
    <3> QED
      BY <3>3, <3>4 DEF Tokened, TokenLive
  <2>4. UNCHANGED <<batch, requests, reqStatus, runner, status>>
    BY <1>6, <2>3 DEF Authorize, Handling
  <2> QED
    BY <1>4, <2>2, <2>4
<1>7. CASE PlanExec(1)
  <2>1. /\ Handling(1, "plan", "emitPlanned") /\ status[Subject] = "Absent"
        /\ status' = [status EXCEPT ![Subject] = "Planned"]
    BY <1>7 DEF PlanExec, Lifecycle!Plan, Lifecycle!Advance
  <2>2. At = "plan" /\ UNCHANGED <<batch, requests, reqStatus, runner>>
    BY <1>0, <2>1, HandlingMoves
  <2>3. ~Begun
    BY <2>2 DEF Begun
  <2>4. \A e \in Execs : e = Subject \/ status'[e] = status[e]
    BY <2>1 DEF Typed, StoreOK
  <2> QED
    BY <1>3, <2>1, <2>2, <2>3, <2>4
<1>8. ASSUME NEW call \in {"complete", "fail"}, NEW next \in {"emitCompleted", "emitFailed"},
             NEW to \in {"Completed", "Failed"}, Handling(1, call, next),
             status' = [status EXCEPT ![Subject] = to]
      PROVE  Promising'
  <2>1. At = call /\ At' = next /\ UNCHANGED <<batch, requests, reqStatus, runner>>
    BY <1>0, <1>8, HandlingMoves
  <2>2. Begun' /\ Pending' = Pending
    BY <2>1 DEF Begun, Pending
  <2>3. Head(batch)[1] \in {"Complete", "Fail"}
    BY <1>8, <2>1 DEF Typed, WorkerOK
  <2>4. /\ 1 \in DOMAIN Pending /\ Subject \in Execs /\ Reports(Pending[1], Subject)
    BY <1>0, <1>1, <1>8, <2>1, <2>3 DEF Reports
  <2> QED
    BY <1>8, <2>1, <2>2, <2>4, PromiseKept
<1>9. ASSUME At \in {"complete", "fail"}  PROVE status[Subject] = "Started"
  <2>1. Head(batch)[1] \in {"Complete", "Fail"}
    BY <1>9 DEF Typed, WorkerOK
  <2>2. /\ 1 \in DOMAIN Pending /\ Subject \in Execs /\ Reports(Pending[1], Subject)
    BY <1>0, <1>1, <1>9, <2>1 DEF Reports
  <2>3. ~Begun
    BY <1>9 DEF Begun
  <2> QED
    BY <2>2, <2>3 DEF Promising
<1>10. CASE CompleteExec(1) \/ FailExec(1)
  <2>1. \/ Handling(1, "complete", "emitCompleted") /\ status' = [status EXCEPT ![Subject] = "Completed"]
        \/ Handling(1, "fail", "emitFailed") /\ status' = [status EXCEPT ![Subject] = "Failed"]
    BY <1>9, <1>10 DEF CompleteExec, FailExec, At, Lifecycle!Complete, Lifecycle!Fail, Lifecycle!Advance
  <2> QED
    BY <1>8, <2>1
<1>11. CASE EmitPlanned(1) \/ EmitCompleted(1) \/ EmitFailed(1) \/ SetState(1) \/ Publish(1)
  <2>1. UNCHANGED <<batch, requests, reqStatus, runner, status>>
    BY <1>11 DEF EmitPlanned, EmitCompleted, EmitFailed, SetState, Publish, Handling
  <2>2. At' \in {"ack", "setState", "publish"}
    BY <1>0, <1>11, HandlingMoves DEF EmitPlanned, EmitCompleted, EmitFailed, SetState, Publish
  <2>3. Begun'
    BY <2>2 DEF Begun
  <2> QED
    BY <1>4, <2>1, <2>3
<1>12. CASE Ack(1)
  <2>1. At = "ack" /\ Answer(1, "Completed") /\ UNCHANGED <<status, requests, runner>>
    BY <1>12 DEF Ack, At
  <2>2. Begun /\ batch # << >>
    BY <1>0, <2>1 DEF Begun
  <2> QED
    BY <2>1, <2>2, AnswerAnswers, PromisingAnswers
<1>13. ASSUME At \in EventCalls \cup {"idle"}  PROVE ~Begun
  BY <1>0, <1>13 DEF Begun
<1>14. CASE RunTask(1) \/ CreateToken(1) \/ EmitScheduled(1) \/ RevokeToken(1)
  <2>1. UNCHANGED <<batch, requests, reqStatus, runner, status>>
    BY <1>14 DEF RunTask, CreateToken, EmitScheduled, RevokeToken, Serving, durable
  <2>2. At \in EventCalls \cup {"idle"}
    BY <1>14, IdleIs DEF RunTask, CreateToken, EmitScheduled, RevokeToken, Serving, At, EventCalls
  <2> QED
    BY <1>4, <1>13, <2>1, <2>2
<1>15. CASE QueueExec(1)
  <2>1. /\ At = "queue" /\ UNCHANGED <<batch, requests, reqStatus, runner>>
        /\ \/ status' = status
           \/ status[Ex] = "Scheduled" /\ status' = [status EXCEPT ![Ex] = "Queued"]
    BY <1>15 DEF QueueExec, Serving, At, Ex, Lifecycle!Queue, Lifecycle!Advance
  <2>2. \A e \in Execs : status'[e] = status[e] \/ status[e] = "Scheduled"
    BY <2>1 DEF Typed, StoreOK
  <2>3. ~Begun
    BY <1>13, <2>1 DEF EventCalls
  <2> QED
    BY <1>3, <2>1, <2>2, <2>3
<1>16. CASE ScheduleOrBacklog(1)
  <2>1. /\ At = "schedule" /\ UNCHANGED <<batch, requests, reqStatus, runner>>
        /\ \/ status' = status
           \/ status[Ex] = "Planned" /\ status' = [status EXCEPT ![Ex] = "Scheduled"]
    BY <1>16, ScheduleDoes
  <2>2. \A e \in Execs : status'[e] = status[e] \/ status[e] = "Planned"
    BY <2>1 DEF Typed, StoreOK
  <2>3. ~Begun
    BY <1>13, <2>1 DEF EventCalls
  <2> QED
    BY <1>3, <2>1, <2>2, <2>3
<1>17. CASE FinishExec(1)
  <2>1. /\ At = "finish" /\ UNCHANGED <<batch, requests, reqStatus, runner>>
        /\ \/ status' = status
           \/ \E f : status[f] = "Planned" /\ status' = [status EXCEPT ![f] = "Scheduled"]
    BY <1>17, FinishDoes
  <2>2. \A e \in Execs : status'[e] = status[e] \/ status[e] = "Planned"
    BY <2>1 DEF Typed, StoreOK
  <2>3. ~Begun
    BY <1>13, <2>1 DEF EventCalls
  <2> QED
    BY <1>3, <2>1, <2>2, <2>3
<1>18. ASSUME NEW e \in Execs, ClientInvoke(e)  PROVE Promising'
  <2>1. <<"Invoke", e>> \in Request /\ InvokedBy[e] = NoExec /\ Submit(<<"Invoke", e>>)
    BY <1>18 DEF ClientInvoke, Request
  <2>2. UNCHANGED <<batch, worker, status, runner>>
    BY <1>18 DEF ClientInvoke
  <2> QED
    BY <2>1, <2>2, PromisingSubmits
<1>19. ASSUME NEW r \in Runners, Spawn(r)  PROVE Promising'
  <2>1. PICK e \in Execs : InvokedBy[e] = runner[r].exec /\ Submit(<<"Invoke", e>>)
    BY <1>19 DEF Spawn
  <2>2. <<"Invoke", e>> \in Request
    BY DEF Request
  <2>3. runner[r].at # "idle" /\ UNCHANGED <<batch, worker, status, runner>>
    BY <1>19 DEF Spawn, AtBridge
  <2> QED
    BY <2>1, <2>2, <2>3, PromisingSubmits
<1>20. ASSUME NEW r \in Runners, Report(r)  PROVE Promising'
  <2>1. PICK op \in {"Complete", "Fail"} : Submit(<<op, runner[r].exec>>)
    BY <1>20 DEF Report
  <2>2. /\ runner[r].at # "idle" /\ runner' = [runner EXCEPT ![r] = Free]
        /\ UNCHANGED <<batch, worker, status>>
    BY <1>20 DEF Report, AtBridge
  <2>3. runner[r].exec \in Execs
    BY <2>2 DEF Typed, RunnersOK
  <2>4. <<op, runner[r].exec>> \in Request /\ Reports(<<op, runner[r].exec>>, runner[r].exec)
    BY <2>3 DEF Request, Reports
  <2> QED
    BY <2>1, <2>2, <2>4, PromisingSubmits
<1>21. ASSUME NEW r \in Runners, Dequeue(r)  PROVE Promising'
  <2>1. PICK e \in Execs : /\ Lifecycle!Start(e)
                           /\ runner' = [runner EXCEPT ![r] = [at |-> "starting", exec |-> e, state |-> NoExec]]
    BY <1>21 DEF Dequeue
  <2>2. /\ status[e] = "Queued" /\ status' = [status EXCEPT ![e] = "Started"]
        /\ runner[r] = Free /\ UNCHANGED <<batch, requests, reqStatus, worker>>
    BY <1>21, <2>1 DEF Dequeue, AtBridge, Lifecycle!Start, Lifecycle!Advance
  <2>3. \A f \in Execs : status'[f] = IF f = e THEN "Started" ELSE status[f]
    BY <2>2 DEF Typed, StoreOK
  <2>4. Pending' = Pending /\ (Begun' <=> Begun)
    BY <2>2 DEF Pending, Begun, At
  <2>5. /\ \A s \in Runners : runner[s].at # "idle" => runner[s].exec \in Execs
        /\ runner'[r].exec = e /\ runner'[r].at # "idle"
        /\ \A s \in Runners : s = r \/ runner'[s] = runner[s]
    BY <2>1 DEF Typed, RunnersOK
  <2>6. \A req \in Request : Reports(req, e) => reqStatus[req] = "None"
    BY <2>2 DEF Promising
  <2>7. \A s \in Runners : runner[s].at # "idle" => runner[s].exec # e
    BY <2>2 DEF Promising
  <2>8. /\ \A i \in DOMAIN Pending : Pending[i] \in Request
        /\ \A f \in Execs : InvokedBy[f] # NoExec => InvokedBy[f] \in Execs
    BY PendingIs, InvokedByAssumption
  <2> HIDE DEF Pending, Begun, Reports
  <2>9. \A s \in Runners : runner'[s].at # "idle" =>
         /\ status'[runner'[s].exec] = "Started"
         /\ \A req \in Request : Reports(req, runner'[s].exec) => reqStatus'[req] = "None"
         /\ \A q \in Runners : runner'[q].at # "idle" /\ runner'[q].exec = runner'[s].exec => q = s
    BY <2>2, <2>3, <2>5, <2>6, <2>7 DEF Promising
  <2>10. /\ \A req \in Request : reqStatus'[req] # "Failed"
         /\ \A i \in DOMAIN Pending' : reqStatus'[Pending'[i]] # "None"
         /\ \A req \in Request, f \in Execs :
              Reports(req, f) /\ reqStatus'[req] # "None" => status'[f] \in {"Started", "Completed", "Failed"}
    BY <2>2, <2>3, <2>4 DEF Promising
  <2>11. \A i \in DOMAIN Pending', f \in Execs : Reports(Pending[i], f) =>
         /\ i > 1 \/ ~Begun' => status'[f] = "Started"
         /\ \A j \in DOMAIN Pending' : Reports(Pending[j], f) => j = i
    BY <2>3, <2>4 DEF Promising
  <2>12. \A i \in DOMAIN Pending', f \in Execs :
         /\ Pending[i] = <<"Invoke", f>> /\ (i > 1 \/ ~Begun')
         /\ InvokedBy[f] # NoExec
         => /\ status'[InvokedBy[f]] = "Started"
            /\ \A j \in DOMAIN Pending' : j < i => ~Reports(Pending[j], InvokedBy[f])
    BY <2>3, <2>4, <2>8 DEF Promising
  <2> QED
    BY <2>4, <2>9, <2>10, <2>11, <2>12 DEF Promising, Reports
<1>22. ASSUME NEW r \in Runners, Reply(r)  PROVE Promising'
  <2>1. /\ \/ runner' = [runner EXCEPT ![r] = Free]
           \/ \E f : runner' = [runner EXCEPT ![r] = [at |-> "running", exec |-> runner[r].exec, state |-> f]]
        /\ runner[r].at = "starting"
        /\ UNCHANGED <<batch, requests, reqStatus, worker, status>>
    BY <1>22 DEF Reply, AtBridge
  <2>2. \A s \in Runners : runner'[s].at # "idle" =>
          runner[s].at # "idle" /\ runner'[s].exec = runner[s].exec
    BY <2>1 DEF Typed, RunnersOK, Free
  <2>3. Pending' = Pending /\ (Begun' <=> Begun)
    BY <2>1 DEF Pending, Begun, At
  <2> HIDE DEF Pending, Begun, Reports
  <2>4. \A s \in Runners : runner'[s].at # "idle" =>
         /\ status'[runner'[s].exec] = "Started"
         /\ \A req \in Request : Reports(req, runner'[s].exec) => reqStatus'[req] = "None"
         /\ \A q \in Runners : runner'[q].at # "idle" /\ runner'[q].exec = runner'[s].exec => q = s
    BY <2>1, <2>2 DEF Promising
  <2>5. /\ \A req \in Request : reqStatus'[req] # "Failed"
        /\ \A i \in DOMAIN Pending' : reqStatus'[Pending'[i]] # "None"
        /\ \A req \in Request, f \in Execs :
              Reports(req, f) /\ reqStatus'[req] # "None" => status'[f] \in {"Started", "Completed", "Failed"}
    BY <2>1, <2>3 DEF Promising
  <2>6. \A i \in DOMAIN Pending', f \in Execs : Reports(Pending[i], f) =>
         /\ i > 1 \/ ~Begun' => status'[f] = "Started"
         /\ \A j \in DOMAIN Pending' : Reports(Pending[j], f) => j = i
    BY <2>1, <2>3 DEF Promising
  <2>7. \A i \in DOMAIN Pending', f \in Execs :
         /\ Pending[i] = <<"Invoke", f>> /\ (i > 1 \/ ~Begun')
         /\ InvokedBy[f] # NoExec
         => /\ status'[InvokedBy[f]] = "Started"
            /\ \A j \in DOMAIN Pending' : j < i => ~Reports(Pending[j], InvokedBy[f])
    BY <2>1, <2>3 DEF Promising
  <2> QED
    BY <2>3, <2>4, <2>5, <2>6, <2>7 DEF Promising, Reports
<1>23. CASE (\E t \in Topics : HandOver(t)) \/ Commit \/ UNCHANGED vars
  <2>1. UNCHANGED <<batch, requests, reqStatus, runner, status, worker>>
    BY <1>23 DEF HandOver, Commit, vars, durable
  <2>2. Begun' <=> Begun
    BY <2>1 DEF Begun, At
  <2> QED
    BY <1>4, <2>1, <2>2
<1>24. /\ ~Crash
       /\ \A r \in Runners : ~LoseReply(r) /\ ~LoseReport(r)
       /\ \A e \in Execs : ~StrayReport(e)
  BY DEF Crash, Typed, StoreOK, LoseReply, LoseReport, StrayReport
<1> QED
  BY <1>5, <1>6, <1>7, <1>10, <1>11, <1>12, <1>14, <1>15, <1>16, <1>17, <1>18, <1>19, <1>20, <1>21,
     <1>22, <1>23, <1>24, Steps

\* As long as nothing crashes and the network loses no reply and no report, every
\* request that is taken in succeeds: an exec's code that invoked another one has
\* that authorized by a token that its own report, which comes later, takes away,
\* and a report finds its exec started.
THEOREM RequestsSucceed ==
  ASSUME MaxCrashes = 0, Untidy = FALSE
  PROVE  Spec => []NoRequestFails
<1>1. Typed /\ Tokened /\ Promising /\ [Next]_vars => Promising'
  BY PromisingStep
<1>2. Promising => NoRequestFails
  BY DEF Promising, NoRequestFails
<1> QED
  BY <1>1, <1>2, TypedInvariant, TokenedInvariant, PromisingInit, PTL DEF Spec
-----------------------------------------------------------------------------
\* Answers are true.

\* The exec is where the request takes it: nothing else takes it there.
Took(req) ==
  \/ req[1] = "Invoke" /\ status[req[2]] # "Absent"
  \/ req[1] = "Complete" /\ status[req[2]] = "Completed"
  \/ req[1] = "Fail" /\ status[req[2]] = "Failed"

PublishedOnce(e) == \E i \in DOMAIN published : Publications(e) = {i}
StateSet(e) == CorrelationOf[e] \in Correlations => state[CorrelationOf[e]] # NoExec

\* Everything the handler of the request does is done.
InPlace(req) ==
  /\ Took(req)
  /\ req[1] = "Invoke" => Logged("Planned", req[2])
  /\ req[1] = "Fail" => Logged("Failed", req[2])
  /\ req[1] = "Complete" =>
       Logged("Completed", req[2]) /\ PublishedOnce(req[2]) /\ StateSet(req[2])

\* How far the handler of the first request has got.
WorkerTruthful ==
  /\ At \in {"emitCompleted", "setState", "publish"} =>
       status[Subject] = "Completed" /\ Publications(Subject) = {}
  /\ At \in {"setState", "publish"} => Logged("Completed", Subject)
  /\ At = "publish" => StateSet(Subject)
  /\ At = "ack" => InPlace(Head(batch))

\* A request waits once, and what it asks for is not done before its turn.
WaitsOnce ==
  /\ \A i, j \in DOMAIN Pending : Pending[i] = Pending[j] => i = j
  /\ \A i \in DOMAIN Pending : reqStatus[Pending[i]] \in {"Submitted", "Processing"}
  /\ \A i \in DOMAIN Pending : i > 1 \/ ~Begun => ~Took(Pending[i])
  /\ \A req \in Request : Took(req) => reqStatus[req] \notin {"None", "Failed"}

PublishesOnce ==
  /\ \A i \in DOMAIN published : status[published[i]] = "Completed"
  /\ \A i, j \in DOMAIN published : published[i] = published[j] => i = j

Truthful ==
  /\ WaitsOnce /\ PublishesOnce /\ WorkerTruthful
  /\ \A req \in Request : reqStatus[req] = "Completed" => InPlace(req)

LEMMA RequestIs ==
  ASSUME NEW req \in Request
  PROVE  /\ req[1] \in {"Invoke", "Complete", "Fail"} /\ req[2] \in Execs
         /\ req = <<req[1], req[2]>>
BY DEF Request

\* What the invariant says of the requests of one exec.
LEMMA TruthfulSuffices == ASSUME Typed, LoggedOnce, Truthful  PROVE AnswersAreTrue
<1> SUFFICES ASSUME NEW e \in Execs
    PROVE /\ reqStatus[<<"Invoke", e>>] = "Completed" => status[e] # "Absent" /\ Logged("Planned", e)
          /\ reqStatus[<<"Invoke", e>>] = "Failed" => status[e] = "Absent"
          /\ reqStatus[<<"Fail", e>>] = "Completed" => status[e] = "Failed" /\ Logged("Failed", e)
          /\ reqStatus[<<"Fail", e>>] = "Failed" => ~Logged("Failed", e)
          /\ reqStatus[<<"Complete", e>>] = "Completed" =>
               /\ status[e] = "Completed" /\ Logged("Completed", e)
               /\ \E i \in DOMAIN published : Publications(e) = {i}
               /\ CorrelationOf[e] \in Correlations => state[CorrelationOf[e]] # NoExec
          /\ reqStatus[<<"Complete", e>>] = "Failed" =>
               ~Logged("Completed", e) /\ Publications(e) = {}
  BY DEF AnswersAreTrue
<1>1. \A op \in {"Invoke", "Complete", "Fail"} :
        /\ <<op, e>> \in Request /\ <<op, e>>[1] = op /\ <<op, e>>[2] = e
  BY DEF Request
<1>2. /\ Took(<<"Invoke", e>>) <=> status[e] # "Absent"
      /\ Took(<<"Complete", e>>) <=> status[e] = "Completed"
      /\ Took(<<"Fail", e>>) <=> status[e] = "Failed"
  BY <1>1 DEF Took
<1>3. \A t \in {"Completed", "Failed"} : Logged(t, e) => status[e] = t
  BY DEF Logged, LoggedOnce
<1>4. Publications(e) # {} => status[e] = "Completed"
  BY DEF Publications, Truthful, PublishesOnce
<1>5. \A op \in {"Invoke", "Complete", "Fail"} :
        reqStatus[<<op, e>>] = "Failed" => ~Took(<<op, e>>)
  BY <1>1 DEF Truthful, WaitsOnce
<1>6. \A op \in {"Invoke", "Complete", "Fail"} :
        reqStatus[<<op, e>>] = "Completed" => InPlace(<<op, e>>)
  BY <1>1 DEF Truthful
<1> HIDE DEF Took, Logged, Publications
<1>7. reqStatus[<<"Invoke", e>>] = "Completed" => status[e] # "Absent" /\ Logged("Planned", e)
  BY <1>1, <1>2, <1>6 DEF InPlace
<1>8. reqStatus[<<"Fail", e>>] = "Completed" => status[e] = "Failed" /\ Logged("Failed", e)
  BY <1>1, <1>2, <1>6 DEF InPlace
<1>9. reqStatus[<<"Complete", e>>] = "Completed" =>
        status[e] = "Completed" /\ Logged("Completed", e) /\ PublishedOnce(e) /\ StateSet(e)
  BY <1>1, <1>2, <1>6 DEF InPlace
<1> QED
  BY <1>2, <1>3, <1>4, <1>5, <1>7, <1>8, <1>9 DEF PublishedOnce, StateSet
\* What any step does to the records the requests leave: log and states keep
\* what they have, and only the first request publishes.
LEMMA RecordsMove ==
  ASSUME Typed, [Next]_vars
  PROVE  /\ log' = log \/ \E topic \in Topics, e \in Execs : Emit(topic, e)
         /\ \A c \in Correlations : state[c] # NoExec => state'[c] # NoExec
         /\ \/ published' = published
            \/ At = "publish" /\ Subject \in Execs /\ published' = Append(published, Subject)
<1>0. /\ At \in RequestCalls => Subject \in Execs
      /\ At \in EventCalls => Ex \in Execs
      /\ At = "emitScheduled" => Sch \in Execs
      /\ RequestCalls = {"authorize", "plan", "emitPlanned", "complete", "emitCompleted",
                         "setState", "publish", "fail", "emitFailed", "ack"}
  BY SubjectIs DEF Typed, WorkerOK, RequestCalls
<1>1. CASE UNCHANGED <<log, state, published>>
  BY <1>1
<1>2. CASE EmitPlanned(1) \/ EmitCompleted(1) \/ EmitFailed(1)
  <2>1. /\ At \in RequestCalls /\ UNCHANGED <<state, published>>
        /\ \E topic \in Topics : Emit(topic, Subject)
    BY <1>0, <1>2 DEF EmitPlanned, EmitCompleted, EmitFailed, Handling, At, Topics
  <2> QED
    BY <1>0, <2>1
<1>3. CASE EmitScheduled(1)
  <2>1. At = "emitScheduled" /\ UNCHANGED <<state, published>> /\ Emit("Scheduled", Sch)
    BY <1>3 DEF EmitScheduled, Serving, At, Sch
  <2> QED
    BY <1>0, <2>1 DEF Topics
<1>4. CASE SetState(1)
  <2>1. /\ At = "setState" /\ UNCHANGED <<log, published>>
        /\ state' = [c \in Correlations |-> IF c = CorrelationOf[Subject] THEN Subject ELSE state[c]]
    BY <1>4 DEF SetState, Handling, At
  <2> QED
    BY <1>0, <2>1, CorrelationsAssumption
<1>5. CASE Publish(1)
  <2>1. /\ At = "publish" /\ UNCHANGED <<log, state>> /\ published' = Append(published, Subject)
    BY <1>5 DEF Publish, Handling, At
  <2> QED
    BY <1>0, <2>1
<1>6. ASSUME \/ TakeBatch(1) \/ Ack(1) \/ Authorize(1) \/ PlanExec(1) \/ CompleteExec(1) \/ FailExec(1)
      PROVE  UNCHANGED <<log, state, published>>
  BY <1>6 DEF TakeBatch, Ack, Authorize, PlanExec, CompleteExec, FailExec, Refuse
<1>7. ASSUME RunTask(1) \/ CreateToken(1) \/ QueueExec(1) \/ RevokeToken(1)
      PROVE  UNCHANGED <<log, state, published>>
  BY <1>7 DEF RunTask, CreateToken, QueueExec, RevokeToken, Serving, durable
<1>8. ASSUME ScheduleOrBacklog(1) \/ FinishExec(1)
      PROVE  UNCHANGED <<log, state, published>>
  BY <1>8, ScheduleDoes, FinishDoes
<1>9. ASSUME \/ \E r \in Runners : \/ Dequeue(r) \/ Reply(r) \/ LoseReply(r)
                                   \/ Spawn(r) \/ Report(r) \/ LoseReport(r)
             \/ \E e \in Execs : ClientInvoke(e) \/ StrayReport(e)
             \/ \E t \in Topics : HandOver(t)
             \/ Commit \/ Crash \/ UNCHANGED vars
      PROVE  UNCHANGED <<log, state, published>>
  BY <1>9 DEF Dequeue, Reply, LoseReply, Spawn, Report, LoseReport, ClientInvoke, StrayReport,
              HandOver, Commit, Crash, AtBridge, vars, durable
<1> QED
  BY <1>1, <1>2, <1>3, <1>4, <1>5, <1>6, <1>7, <1>8, <1>9, Steps

LEMMA LogKeeps ==
  ASSUME Typed, [Next]_vars, NEW t \in Topics, NEW e, Logged(t, e)
  PROVE  Logged(t, e)'
<1>1. PICK i \in DOMAIN log[t] : log[t][i] = e
  BY DEF Logged
<1>2. i \in DOMAIN log'[t] /\ log'[t][i] = e
  <2>1. CASE log' = log
    BY <1>1, <2>1
  <2>2. ASSUME NEW topic \in Topics, NEW f \in Execs, Emit(topic, f)
        PROVE  i \in DOMAIN log'[t] /\ log'[t][i] = e
    <3>1. log' = [log EXCEPT ![topic] = Append(log[topic], f)] /\ log \in [Topics -> Seq(Execs)]
      BY <2>2 DEF Emit, Typed, EventsOK
    <3>2. CASE topic = t
      <4>1. log'[t] = Append(log[t], f) /\ log[t] \in Seq(Execs)
        BY <3>1, <3>2
      <4> QED
        BY <1>1, <4>1, AppendKeeps
    <3>3. CASE topic # t
      <4>1. log'[t] = log[t]
        BY <3>1, <3>3
      <4> QED
        BY <1>1, <4>1
    <3> QED
      BY <3>2, <3>3
  <2> QED
    BY <2>1, <2>2, RecordsMove
<1> QED
  BY <1>2 DEF Logged

\* What an exec published once it does not publish again.
LEMMA PublishedStays ==
  ASSUME Typed, [Next]_vars, WorkerTruthful, NEW e \in Execs, PublishedOnce(e)
  PROVE  PublishedOnce(e)'
<1>1. PICK i \in DOMAIN published : Publications(e) = {i}
  BY DEF PublishedOnce
<1>2. CASE published' = published
  BY <1>2 DEF PublishedOnce, Publications
<1>3. CASE At = "publish" /\ Subject \in Execs /\ published' = Append(published, Subject)
  <2>1. Publications(Subject) = {}
    BY <1>3 DEF WorkerTruthful
  <2>2. Subject # e
    BY <1>1, <2>1
  <2>3. published \in Seq(Execs)
    BY DEF Typed, StoreOK
  <2>4. \A k \in DOMAIN published' : published'[k] = e <=> k = i
    BY <1>1, <1>3, <2>2, <2>3, AppendKeeps DEF Publications
  <2>5. i \in DOMAIN published'
    BY <1>3, <2>3, AppendKeeps
  <2>6. {k \in DOMAIN published' : published'[k] = e} = {i}
    BY <2>4, <2>5
  <2> QED
    BY <2>5, <2>6 DEF PublishedOnce, Publications
<1> QED
  BY <1>2, <1>3, RecordsMove

LEMMA TookStays ==
  ASSUME Typed, [Next]_vars, NEW req \in Request, Took(req)
  PROVE  Took(req)'
BY StatusMoves, RequestIs DEF Took, Terminated

LEMMA InPlaceStays ==
  ASSUME Typed, [Next]_vars, WorkerTruthful, NEW req \in Request, InPlace(req)
  PROVE  InPlace(req)'
<1>1. Took(req)'
  BY TookStays DEF InPlace
<1>2. \A t \in {"Planned", "Completed", "Failed"} : Logged(t, req[2]) => Logged(t, req[2])'
  BY LogKeeps DEF Topics
<1>3. PublishedOnce(req[2]) => PublishedOnce(req[2])'
  BY PublishedStays, RequestIs
<1>4. StateSet(req[2]) => StateSet(req[2])'
  BY RecordsMove DEF StateSet
<1> HIDE DEF Took, Logged, PublishedOnce, StateSet
<1> QED
  BY <1>1, <1>2, <1>3, <1>4 DEF InPlace
\* Only the first call of its handler does what a request asks for.
LEMMA TookRests ==
  ASSUME Typed,
         \/ UNCHANGED status
         \/ \E e \in Execs : \E to \in {"Scheduled", "Queued", "Started"} :
              /\ status[e] \in {"Planned", "Scheduled", "Queued"}
              /\ status' = [status EXCEPT ![e] = to]
  PROVE  \A req \in Request : Took(req)' <=> Took(req)
<1>1. CASE UNCHANGED status
  BY <1>1 DEF Took
<1>2. ASSUME NEW e \in Execs, NEW to \in {"Scheduled", "Queued", "Started"},
             status[e] \in {"Planned", "Scheduled", "Queued"},
             status' = [status EXCEPT ![e] = to], NEW req \in Request
      PROVE  Took(req)' <=> Took(req)
  <2>1. req[2] \in Execs /\ status \in [Execs -> Lifecycle!Statuses]
    BY RequestIs DEF Typed, StoreOK
  <2>2. CASE req[2] = e
    <3>1. status'[req[2]] = to
      BY <1>2, <2>1, <2>2
    <3> QED
      BY <1>2, <2>2, <3>1 DEF Took
  <2>3. CASE req[2] # e
    <3>1. status'[req[2]] = status[req[2]]
      BY <1>2, <2>1, <2>3
    <3> QED
      BY <3>1 DEF Took
  <2> QED
    BY <2>2, <2>3
<1> QED
  BY <1>1, <1>2

\* The other steps of the worker, and those of the bridge and the runners.
LEMMA OthersRest ==
  ASSUME Typed,
         \/ RunTask(1) \/ CreateToken(1) \/ ScheduleOrBacklog(1) \/ EmitScheduled(1) \/ QueueExec(1)
         \/ FinishExec(1) \/ RevokeToken(1)
         \/ \E r \in Runners : Dequeue(r) \/ Reply(r) \/ LoseReply(r) \/ LoseReport(r)
         \/ \E t \in Topics : HandOver(t)
         \/ Commit \/ UNCHANGED vars
  PROVE  /\ UNCHANGED <<batch, requests, reqStatus>>
         /\ \A req \in Request : Took(req)' <=> Took(req)
         /\ worker' = worker \/ (At \notin RequestCalls /\ At' \notin RequestCalls)
<1>0. /\ worker \in [Workers -> WorkerStates]
      /\ At \in EventCalls => Ex \in Execs
      /\ RequestCalls = {"authorize", "plan", "emitPlanned", "complete", "emitCompleted",
                         "setState", "publish", "fail", "emitFailed", "ack"}
      /\ RequestCalls \cap (EventCalls \cup {"idle"}) = {}
  BY DEF Typed, WorkerOK, RequestCalls, EventCalls
<1>1. CASE RunTask(1)
  <2>1. tasks # << >> /\ worker[1] = Idle /\ UNCHANGED <<batch, requests, reqStatus, status>>
    BY <1>1 DEF RunTask, durable
  <2>2. Head(tasks) \in Topics \X Execs
    BY <2>1, TailKeeps DEF Typed, EventsOK
  <2>3. FirstOf[Head(tasks)[1]] \in {"token", "queue", "finish"} /\ Head(tasks)[2] \in Execs
    BY <2>2 DEF FirstOf, Topics
  <2>4. FirstOf[Head(tasks)[1]] \in EventCalls
    BY <2>3 DEF EventCalls
  <2>5. At = "idle" /\ At' \in EventCalls
    BY <1>0, <1>1, <2>1, <2>3, <2>4, IdleIs, RunMoves
  <2> QED
    BY <1>0, <2>1, <2>5, TookRests
<1>2. CASE CreateToken(1) \/ EmitScheduled(1) \/ RevokeToken(1)
  <2>1. /\ UNCHANGED <<batch, requests, reqStatus, status>> /\ At \in EventCalls
        /\ Goto(1, "schedule") \/ Goto(1, "revoke") \/ Done(1)
    BY <1>2 DEF CreateToken, EmitScheduled, RevokeToken, Serving, At, EventCalls
  <2>2. At' \in EventCalls \cup {"idle"}
    BY <1>0, <2>1, GotoMoves, DoneIdles DEF EventCalls
  <2> QED
    BY <1>0, <2>1, <2>2, TookRests
<1>3. CASE QueueExec(1)
  <2>1. /\ At = "queue" /\ Done(1) /\ UNCHANGED <<batch, requests, reqStatus>>
        /\ \/ UNCHANGED status
           \/ status[Ex] = "Scheduled" /\ status' = [status EXCEPT ![Ex] = "Queued"]
    BY <1>3 DEF QueueExec, Serving, At, Ex, Lifecycle!Queue, Lifecycle!Advance
  <2>2. Ex \in Execs /\ At' = "idle" /\ "queue" \in EventCalls
    BY <1>0, <2>1, DoneIdles DEF EventCalls
  <2>3. \A req \in Request : Took(req)' <=> Took(req)
    BY <2>1, <2>2, TookRests
  <2> QED
    BY <1>0, <2>1, <2>2, <2>3
<1>4. CASE ScheduleOrBacklog(1)
  <2>1. /\ At = "schedule" /\ Ex \in Execs /\ UNCHANGED <<batch, requests, reqStatus>>
        /\ \/ status' = status /\ At' = "idle"
           \/ /\ status[Ex] = "Planned" /\ status' = [status EXCEPT ![Ex] = "Scheduled"]
              /\ At' = "emitScheduled"
    BY <1>4, ScheduleDoes
  <2>2. \A req \in Request : Took(req)' <=> Took(req)
    BY <2>1, TookRests
  <2> QED
    BY <2>1, <2>2 DEF RequestCalls
<1>5. CASE FinishExec(1)
  <2>1. /\ At = "finish" /\ UNCHANGED <<batch, requests, reqStatus>>
        /\ \/ status' = status /\ At' = "idle"
           \/ status' = status /\ At' = "revoke"
           \/ \E c \in Correlations : \E k \in DOMAIN backlog[c] :
                /\ status[backlog[c][k]] = "Planned"
                /\ status' = [status EXCEPT ![backlog[c][k]] = "Scheduled"]
                /\ At' = "emitScheduled"
    BY <1>5, FinishDoes
  <2>2. \A c \in Correlations : \A k \in DOMAIN backlog[c] : backlog[c][k] \in Execs
    BY DEF Typed, ServiceOK
  <2>3. \A req \in Request : Took(req)' <=> Took(req)
    BY <2>1, <2>2, TookRests
  <2> QED
    BY <2>1, <2>3 DEF RequestCalls
<1>6. ASSUME NEW r \in Runners, Dequeue(r)
      PROVE  /\ UNCHANGED <<batch, requests, reqStatus, worker>>
             /\ \A req \in Request : Took(req)' <=> Took(req)
  <2>1. /\ UNCHANGED <<batch, requests, reqStatus, worker>>
        /\ \E e \in Execs : status[e] = "Queued" /\ status' = [status EXCEPT ![e] = "Started"]
    BY <1>6 DEF Dequeue, AtBridge, Lifecycle!Start, Lifecycle!Advance
  <2> QED
    BY <2>1, TookRests
<1>7. ASSUME \/ \E r \in Runners : Reply(r) \/ LoseReply(r) \/ LoseReport(r)
             \/ \E t \in Topics : HandOver(t)
             \/ Commit \/ UNCHANGED vars
      PROVE  UNCHANGED <<batch, requests, reqStatus, worker, status>>
  BY <1>7 DEF Reply, LoseReply, LoseReport, HandOver, Commit, AtBridge, vars, durable
<1>8. ASSUME UNCHANGED status  PROVE \A req \in Request : Took(req)' <=> Took(req)
  BY <1>8, TookRests
<1> HIDE DEF Took
<1> QED
  BY <1>1, <1>2, <1>3, <1>4, <1>5, <1>6, <1>7, <1>8
\* The requests stay where they are, and at most the first of them is begun.
LEMMA WaitsRest ==
  ASSUME Typed, WaitsOnce, Pending' = Pending, Begun => Begun',
         \A req \in Request : /\ Took(req)' => Took(req) \/ (Begun' /\ batch # << >> /\ req = Head(batch))
                              /\ reqStatus[req] = "Submitted" => reqStatus'[req] \in {"Submitted", "Processing"}
                              /\ reqStatus[req] # "Submitted" => reqStatus'[req] = reqStatus[req]
  PROVE  WaitsOnce'
<1>1. /\ \A i \in DOMAIN Pending : Pending[i] \in Request
      /\ batch # << >> => 1 \in DOMAIN Pending /\ Pending[1] = Head(batch)
  BY PendingIs
<1> HIDE DEF Pending, Begun, Took
<1>2. \A i, j \in DOMAIN Pending' : Pending'[i] = Pending'[j] => i = j
  BY DEF WaitsOnce
<1>3. \A i \in DOMAIN Pending' : reqStatus'[Pending[i]] \in {"Submitted", "Processing"}
  BY <1>1 DEF WaitsOnce
<1>4. ASSUME NEW i \in DOMAIN Pending, i > 1 \/ ~Begun'  PROVE ~Took(Pending[i])'
  <2>1. ~Took(Pending[i])
    BY <1>4 DEF WaitsOnce
  <2>2. PICK req \in Request : req = Pending[i]
    BY <1>1, <1>4
  <2>3. Begun' /\ batch # << >> => req # Head(batch)
    <3>1. ASSUME Begun', batch # << >>, req = Head(batch)  PROVE FALSE
      <4>1. i = 1
        BY <1>1, <1>4, <2>2, <3>1 DEF WaitsOnce
      <4> QED
        BY <1>4, <3>1, <4>1
    <3> QED
      BY <3>1
  <2>4. ~Took(req)'
    BY <2>1, <2>2, <2>3
  <2>5. Pending' = Pending /\ req' = req
    OBVIOUS
  <2> QED
    BY <2>2, <2>4, <2>5 DEF Took
<1>5. ASSUME NEW req \in Request, Took(req)'  PROVE reqStatus'[req] \notin {"None", "Failed"}
  <2>1. CASE Took(req)
    BY <2>1 DEF WaitsOnce
  <2>2. CASE batch # << >> /\ req = Head(batch)
    <3>1. reqStatus[req] \in {"Submitted", "Processing"}
      BY <1>1, <2>2 DEF WaitsOnce
    <3> QED
      BY <3>1
  <2> QED
    BY <1>5, <2>1, <2>2
<1>6. \A i \in DOMAIN Pending' : i > 1 \/ ~Begun' => ~Took(Pending[i])'
  BY <1>4
<1> QED
  BY <1>2, <1>3, <1>5, <1>6 DEF WaitsOnce

LEMMA WaitsSubmitted ==
  ASSUME Typed, WaitsOnce, NEW new \in Request, Submit(new), UNCHANGED <<status, batch, worker>>
  PROVE  WaitsOnce'
<1>1. /\ requests' = Append(requests, new) /\ reqStatus[new] = "None"
      /\ reqStatus' = [reqStatus EXCEPT ![new] = "Submitted"]
      /\ reqStatus \in [Request -> {"None", "Submitted", "Processing", "Completed", "Failed"}]
  BY SubmitTyped DEF Typed, RequestsOK
<1>2. Pending' = Append(Pending, new)
  BY <1>1, PendingAppends
<1>3. /\ Pending \in Seq(Request)
      /\ batch # << >> => 1 \in DOMAIN Pending /\ Pending[1] = Head(batch)
      /\ DOMAIN Pending = 1..Len(Pending) /\ Len(Pending) \in Nat
  BY PendingIs
<1>4. /\ Begun' <=> Begun
      /\ Begun => batch # << >>
      /\ \A req : Took(req)' <=> Took(req)
  BY DEF Begun, At, Took, Typed, WorkerOK, RequestCalls
<1>5. \A i \in DOMAIN Pending' :
        \/ i \in DOMAIN Pending /\ Pending'[i] = Pending[i]
        \/ i = Len(Pending) + 1 /\ Pending'[i] = new
  BY <1>2, <1>3, AppendKeeps
<1>6. \A i \in DOMAIN Pending : Pending[i] # new /\ Pending[i] \in Request
  BY <1>1, <1>3 DEF WaitsOnce
<1>7. ~Took(new)
  BY <1>1 DEF WaitsOnce
<1> HIDE DEF Pending, Begun, Took
<1>8. \A i, j \in DOMAIN Pending' : Pending'[i] = Pending'[j] => i = j
  BY <1>5, <1>6 DEF WaitsOnce
<1>9. \A i \in DOMAIN Pending' : reqStatus'[Pending'[i]] \in {"Submitted", "Processing"}
  BY <1>1, <1>5, <1>6 DEF WaitsOnce
<1>10. ASSUME NEW i \in DOMAIN Pending', i > 1 \/ ~Begun'  PROVE ~Took(Pending[i])'
  <2>1. PICK req : req = Pending'[i]
    OBVIOUS
  <2>2. ~Took(req)
    BY <1>4, <1>5, <1>7, <1>10, <2>1 DEF WaitsOnce
  <2>3. ~Took(req)'
    BY <1>4, <2>2
  <2> QED
    BY <2>1, <2>3 DEF Took
<1>11. \A req \in Request : Took(req)' => reqStatus'[req] \notin {"None", "Failed"}
  BY <1>1, <1>4 DEF WaitsOnce
<1>12. \A i \in DOMAIN Pending' : i > 1 \/ ~Begun' => ~Took(Pending[i])'
  BY <1>10
<1> QED
  BY <1>8, <1>9, <1>11, <1>12 DEF WaitsOnce

\* The first request is answered. It fails only if it was not begun.
LEMMA WaitsAnswered ==
  ASSUME Typed, WaitsOnce, batch # << >>, batch' = Tail(batch), UNCHANGED <<requests, status>>,
         NEW outcome \in {"Completed", "Failed"}, outcome = "Failed" => ~Begun,
         reqStatus' = [reqStatus EXCEPT ![Head(batch)] = outcome]
  PROVE  WaitsOnce'
<1>1. /\ \A i \in DOMAIN Pending' : /\ i \in Nat \ {0} /\ i + 1 \in DOMAIN Pending
                                    /\ Pending'[i] = Pending[i + 1] /\ i + 1 > 1
      /\ \A i, j \in DOMAIN Pending' : i + 1 = j + 1 => i = j
  BY PendingShifts
<1>2. /\ 1 \in DOMAIN Pending /\ Pending[1] = Head(batch)
      /\ \A i \in DOMAIN Pending : Pending[i] \in Request
  BY PendingIs
<1>3. /\ reqStatus \in [Request -> {"None", "Submitted", "Processing", "Completed", "Failed"}]
      /\ \A req : Took(req)' <=> Took(req)
  BY DEF Typed, RequestsOK, Took
<1> HIDE DEF Pending, Begun, Took
<1>4. \A i \in DOMAIN Pending' : Pending'[i] # Head(batch)
  <2>1. ASSUME NEW i \in DOMAIN Pending', Pending'[i] = Head(batch)  PROVE FALSE
    <3>1. i + 1 = 1
      BY <1>1, <1>2, <2>1 DEF WaitsOnce
    <3> QED
      BY <1>1, <2>1, <3>1
  <2> QED
    BY <2>1
<1>5. \A i, j \in DOMAIN Pending' : Pending'[i] = Pending'[j] => i = j
  BY <1>1 DEF WaitsOnce
<1>6. \A i \in DOMAIN Pending' : reqStatus'[Pending'[i]] \in {"Submitted", "Processing"}
  <2>1. ASSUME NEW i \in DOMAIN Pending'  PROVE reqStatus'[Pending'[i]] \in {"Submitted", "Processing"}
    <3>1. Pending'[i] \in Request /\ reqStatus[Pending'[i]] \in {"Submitted", "Processing"}
      BY <1>1, <1>2 DEF WaitsOnce
    <3> QED
      BY <1>3, <1>4, <3>1
  <2> QED
    BY <2>1
<1>7. ASSUME NEW i \in DOMAIN Pending'  PROVE ~Took(Pending[i])'
  <2>1. PICK req : req = Pending'[i]
    OBVIOUS
  <2>2. ~Took(req)
    BY <1>1, <2>1 DEF WaitsOnce
  <2>3. ~Took(req)'
    BY <1>3, <2>2
  <2> QED
    BY <2>1, <2>3 DEF Took
<1>8. \A i \in DOMAIN Pending' : i > 1 \/ ~Begun' => ~Took(Pending[i])'
  BY <1>7
<1>9. outcome = "Failed" => ~Took(Head(batch))
  BY <1>2 DEF WaitsOnce
<1>10. \A req \in Request : Took(req)' => reqStatus'[req] \notin {"None", "Failed"}
  BY <1>3, <1>9 DEF WaitsOnce
<1> QED
  BY <1>5, <1>6, <1>8, <1>10 DEF WaitsOnce

\* What was taken is lost, what was not is still there.
LEMMA WaitsDropped ==
  ASSUME Typed, WaitsOnce, batch' = << >>, UNCHANGED <<requests, status, reqStatus>>
  PROVE  WaitsOnce'
<1>1. batch \in Seq(Request) /\ requests \in Seq(Request)
  BY DEF Typed, RequestsOK
<1>2. /\ Len(batch) \in Nat /\ Len(requests) \in Nat
      /\ Len(Pending) = Len(batch) + Len(requests)
      /\ \A i \in (Len(batch) + 1)..(Len(batch) + Len(requests)) : Pending[i] = requests[i - Len(batch)]
      /\ DOMAIN Pending = 1..Len(Pending) /\ DOMAIN requests = 1..Len(requests)
  BY <1>1, ConcatProperties DEF Pending
<1>3. Pending' = requests
  BY <1>1, ConcatProperties DEF Pending
<1>4. /\ Begun => batch # << >>
      /\ batch # << >> => Len(batch) > 0
      /\ \A req : Took(req)' <=> Took(req)
  BY <1>1 DEF Begun, Took, Typed, WorkerOK, RequestCalls
<1> HIDE DEF Pending, Begun, Took
<1>5. ASSUME NEW i \in DOMAIN requests
      PROVE  /\ i + Len(batch) \in DOMAIN Pending /\ requests[i] = Pending[i + Len(batch)]
             /\ i + Len(batch) > 1 \/ ~Begun
  <2>1. i \in Nat \ {0} /\ i <= Len(requests)
    BY <1>2
  <2>2. i + Len(batch) \in (Len(batch) + 1)..(Len(batch) + Len(requests))
    BY <1>2, <2>1
  <2>3. (i + Len(batch)) - Len(batch) = i
    BY <1>2, <2>1
  <2>4. i + Len(batch) > 1 \/ ~Begun
    BY <1>2, <1>4, <2>1
  <2>5. i + Len(batch) \in DOMAIN Pending
    BY <1>2, <2>1
  <2> QED
    BY <1>2, <2>2, <2>3, <2>4, <2>5
<1>6. \A i, j \in DOMAIN requests : i + Len(batch) = j + Len(batch) => i = j
  BY <1>2
<1>7. \A i, j \in DOMAIN Pending' : Pending'[i] = Pending'[j] => i = j
  BY <1>3, <1>5, <1>6 DEF WaitsOnce
<1>8. \A i \in DOMAIN Pending' : reqStatus'[Pending'[i]] \in {"Submitted", "Processing"}
  BY <1>3, <1>5 DEF WaitsOnce
<1>9. ASSUME NEW i \in DOMAIN Pending'  PROVE ~Took(Pending[i])'
  <2>1. PICK req : req = requests[i]
    OBVIOUS
  <2>2. ~Took(req)
    BY <1>3, <1>5, <2>1 DEF WaitsOnce
  <2>3. ~Took(req)' /\ req = Pending'[i]
    BY <1>3, <1>4, <2>1, <2>2
  <2> QED
    BY <2>3 DEF Took
<1>10. \A i \in DOMAIN Pending' : i > 1 \/ ~Begun' => ~Took(Pending[i])'
  BY <1>9
<1>11. \A req \in Request : Took(req)' => reqStatus'[req] \notin {"None", "Failed"}
  BY <1>4 DEF WaitsOnce
<1> QED
  BY <1>7, <1>8, <1>10, <1>11 DEF WaitsOnce
LEMMA WaitsStep == Typed /\ WaitsOnce /\ [Next]_vars => WaitsOnce'
<1> SUFFICES ASSUME Typed, WaitsOnce, [Next]_vars  PROVE WaitsOnce'
  OBVIOUS
<1>0. /\ RequestCalls = {"authorize", "plan", "emitPlanned", "complete", "emitCompleted",
                         "setState", "publish", "fail", "emitFailed", "ack"}
      /\ Begun => At \in RequestCalls
      /\ At \in RequestCalls => batch # << >>
      /\ \A call \in {"emitPlanned", "emitCompleted", "setState", "publish", "emitFailed", "ack"} :
           (At' = call => Begun') /\ (At = call => Begun)
      /\ At \in {"authorize", "plan", "complete", "fail"} => ~Begun
  BY DEF RequestCalls, Begun, Typed, WorkerOK
<1>1. /\ At \in RequestCalls => Subject \in Execs /\ Head(batch)[1] \in {"Invoke", "Complete", "Fail"}
      /\ UNCHANGED <<batch, requests>> => Pending' = Pending
      /\ UNCHANGED worker => (Begun' <=> Begun)
      /\ UNCHANGED status => \A req \in Request : Took(req)' <=> Took(req)
  BY <1>0, SubjectIs, TookRests DEF Typed, WorkerOK, Pending, Begun, At
<1> HIDE DEF Begun, Pending, Took
<1>2. CASE TakeBatch(1)
  <2>1. /\ At = "idle" /\ batch = << >> /\ batch' \o requests' = requests
        /\ UNCHANGED status
    BY <1>2, TakeBatchTakes DEF TakeBatch
  <2>2. Pending = requests /\ Pending' = requests
    BY <2>1, PendingIs DEF Pending
  <2>3. ~Begun
    BY <1>0, <2>1
  <2> DEFINE n == IF Len(requests) < BatchLimit THEN Len(requests) ELSE BatchLimit
  <2>4. reqStatus' = [r \in Request |->
                        IF \E i \in 1..n : requests[i] = r THEN "Processing" ELSE reqStatus[r]]
    BY <1>2 DEF TakeBatch
  <2>5. requests \in Seq(Request) /\ Len(requests) \in Nat /\ BatchLimit \in Nat
    BY BatchLimitAssumption DEF Typed, RequestsOK
  <2>6. 1..n \subseteq DOMAIN requests
    BY <2>5
  <2> HIDE DEF n
  <2>7. \A req \in Request :
          /\ reqStatus[req] = "Submitted" => reqStatus'[req] \in {"Submitted", "Processing"}
          /\ reqStatus[req] # "Submitted" => reqStatus'[req] = reqStatus[req]
    BY <2>2, <2>4, <2>6 DEF WaitsOnce
  <2> QED
    BY <1>1, <2>1, <2>2, <2>3, <2>7, WaitsRest
<1>3. CASE Ack(1)
  <2>1. /\ At = "ack" /\ Answer(1, "Completed") /\ UNCHANGED <<status, requests>>
    BY <1>3 DEF Ack, At
  <2>2. batch # << >>
    BY <1>0, <2>1
  <2>3. batch' = Tail(batch) /\ reqStatus' = [reqStatus EXCEPT ![Head(batch)] = "Completed"]
    BY <2>1, <2>2, AnswerAnswers
  <2> QED
    BY <2>1, <2>2, <2>3, WaitsAnswered
<1>4. ASSUME Refuse(1), At \in {"authorize", "complete", "fail"}  PROVE WaitsOnce'
  <2>1. /\ batch # << >> /\ batch' = Tail(batch) /\ UNCHANGED <<status, requests>>
        /\ reqStatus' = [reqStatus EXCEPT ![Head(batch)] = "Failed"]
    BY <1>0, <1>4, RefuseRefuses
  <2> QED
    BY <1>0, <1>4, <2>1, WaitsAnswered
<1>5. ASSUME NEW call, NEW next \in RequestCalls, Handling(1, call, next), UNCHANGED status,
             At \in {"authorize", "plan", "complete", "fail"} \/ next \notin {"authorize", "plan", "complete", "fail"}
      PROVE  WaitsOnce'
  <2>1. At' = next /\ UNCHANGED <<batch, requests, reqStatus>>
    BY <1>5, HandlingMoves
  <2>2. Begun => Begun'
    BY <1>0, <1>5, <2>1
  <2> QED
    BY <1>1, <1>5, <2>1, <2>2, WaitsRest
<1>6. CASE Authorize(1)
  <2>1. At = "authorize"
    BY <1>6 DEF Authorize, At
  <2>2. FirstCall \in RequestCalls
    BY <1>0, <1>1, <2>1 DEF FirstCall
  <2>3. ASSUME Handling(1, "authorize", FirstCall), UNCHANGED status  PROVE WaitsOnce'
    BY <1>5, <2>1, <2>2, <2>3
  <2> QED
    BY <1>4, <1>6, <2>1, <2>3 DEF Authorize
<1>7. CASE EmitPlanned(1) \/ EmitCompleted(1) \/ SetState(1) \/ Publish(1) \/ EmitFailed(1)
  <2>1. /\ \E call \in RequestCalls, next \in {"ack", "setState", "publish"} : Handling(1, call, next)
        /\ UNCHANGED status
    BY <1>0, <1>7 DEF EmitPlanned, EmitCompleted, SetState, Publish, EmitFailed
  <2> QED
    BY <1>0, <1>5, <2>1
<1>8. ASSUME NEW call \in {"plan", "complete", "fail"},
             NEW next \in {"emitPlanned", "emitCompleted", "emitFailed"},
             Handling(1, call, next), NEW to \in {"Planned", "Completed", "Failed"},
             \/ to = "Planned" /\ Head(batch)[1] = "Invoke"
             \/ to = "Completed" /\ Head(batch)[1] = "Complete" /\ status[Subject] = "Started"
             \/ to = "Failed" /\ Head(batch)[1] = "Fail" /\ status[Subject] = "Started",
             status' = [status EXCEPT ![Subject] = to]
      PROVE  WaitsOnce'
  <2>1. At = call /\ At' = next /\ UNCHANGED <<batch, requests, reqStatus>>
    BY <1>0, <1>8, HandlingMoves
  <2>2. Begun' /\ batch # << >> /\ Subject \in Execs /\ Head(batch) = <<Head(batch)[1], Subject>>
    BY <1>0, <1>1, <1>8, <2>1, SubjectIs DEF Typed
  <2>3. ASSUME NEW req \in Request, Took(req)', ~Took(req)  PROVE req = Head(batch)
    <3>1. /\ req[1] \in {"Invoke", "Complete", "Fail"} /\ req[2] \in Execs /\ req = <<req[1], req[2]>>
          /\ status \in [Execs -> Lifecycle!Statuses]
      BY RequestIs DEF Typed, StoreOK
    <3>2. req[2] = Subject
      BY <1>8, <2>3, <3>1 DEF Took
    <3>3. status'[Subject] = to
      BY <1>8, <2>2, <3>1
    <3>4. req[1] = Head(batch)[1]
      BY <1>8, <2>3, <3>1, <3>2, <3>3 DEF Took
    <3> QED
      BY <2>2, <3>1, <3>2, <3>4
  <2> QED
    BY <1>1, <2>1, <2>2, <2>3, WaitsRest
<1>9. ASSUME PlanExec(1)  PROVE WaitsOnce'
  <2>1. Head(batch)[1] = "Invoke"
    BY <1>9 DEF PlanExec, Handling, Typed, WorkerOK, At
  <2> QED
    BY <1>8, <1>9, <2>1 DEF PlanExec, Lifecycle!Plan, Lifecycle!Advance
<1>10. ASSUME CompleteExec(1)  PROVE WaitsOnce'
  <2>1. At = "complete" /\ Head(batch)[1] = "Complete"
    BY <1>10 DEF CompleteExec, Handling, Typed, WorkerOK, At
  <2>2. CASE Refuse(1)
    BY <1>4, <2>1, <2>2
  <2>3. CASE Handling(1, "complete", "emitCompleted") /\ Lifecycle!Complete(Subject)
    BY <1>8, <2>1, <2>3 DEF Lifecycle!Complete, Lifecycle!Advance
  <2> QED
    BY <1>10, <2>2, <2>3 DEF CompleteExec
<1>11. ASSUME FailExec(1)  PROVE WaitsOnce'
  <2>1. At = "fail" /\ Head(batch)[1] = "Fail"
    BY <1>11 DEF FailExec, Handling, Typed, WorkerOK, At
  <2>2. CASE Refuse(1)
    BY <1>4, <2>1, <2>2
  <2>3. CASE Handling(1, "fail", "emitFailed") /\ Lifecycle!Fail(Subject)
    BY <1>8, <2>1, <2>3 DEF Lifecycle!Fail, Lifecycle!Advance
  <2> QED
    BY <1>11, <2>2, <2>3 DEF FailExec
<1>12. ASSUME \/ \E r \in Runners : Spawn(r) \/ Report(r)
              \/ \E e \in Execs : ClientInvoke(e) \/ StrayReport(e)
       PROVE  WaitsOnce'
  <2>1. \A r \in Runners : runner[r].at = "running" => runner[r].exec \in Execs
    BY DEF Typed, RunnersOK
  <2>2. /\ UNCHANGED <<status, batch, worker>>
        /\ \E op \in {"Invoke", "Complete", "Fail"}, e \in Execs : Submit(<<op, e>>)
    BY <1>12, <2>1 DEF Spawn, Report, ClientInvoke, StrayReport, AtBridge
  <2>3. \E req \in Request : Submit(req)
    BY <2>2 DEF Request
  <2> QED
    BY <2>2, <2>3, WaitsSubmitted
<1>13. CASE Crash
  <2>1. batch' = << >> /\ UNCHANGED <<requests, status, reqStatus>>
    BY <1>13 DEF Crash, durable
  <2> QED
    BY <2>1, WaitsDropped
<1>14. CASE \/ RunTask(1) \/ CreateToken(1) \/ ScheduleOrBacklog(1) \/ EmitScheduled(1) \/ QueueExec(1)
            \/ FinishExec(1) \/ RevokeToken(1)
            \/ \E r \in Runners : Dequeue(r) \/ Reply(r) \/ LoseReply(r) \/ LoseReport(r)
            \/ \E t \in Topics : HandOver(t)
            \/ Commit \/ UNCHANGED vars
  <2>1. /\ UNCHANGED <<batch, requests, reqStatus>>
        /\ \A req \in Request : Took(req)' <=> Took(req)
        /\ worker' = worker \/ (At \notin RequestCalls /\ At' \notin RequestCalls)
    BY <1>14, OthersRest
  <2>2. Begun => Begun'
    BY <1>0, <1>1, <2>1
  <2> QED
    BY <1>1, <2>1, <2>2, WaitsRest
<1> QED
  BY <1>2, <1>3, <1>6, <1>7, <1>9, <1>10, <1>11, <1>12, <1>13, <1>14, Steps
LEMMA PublishesStep == Typed /\ PublishesOnce /\ WorkerTruthful /\ [Next]_vars => PublishesOnce'
<1> SUFFICES ASSUME Typed, PublishesOnce, WorkerTruthful, [Next]_vars  PROVE PublishesOnce'
  OBVIOUS
<1>0. /\ published \in Seq(Execs)
      /\ \A e \in Execs : status[e] = "Completed" => status'[e] = "Completed"
  BY StatusMoves DEF Typed, StoreOK, Terminated
<1>1. CASE published' = published
  BY <1>0, <1>1 DEF PublishesOnce
<1>2. CASE At = "publish" /\ Subject \in Execs /\ published' = Append(published, Subject)
  <2>1. /\ status[Subject] = "Completed"
        /\ \A i \in DOMAIN published : published[i] # Subject /\ published[i] \in Execs
    BY <1>0, <1>2 DEF WorkerTruthful, Publications
  <2>2. \A i \in DOMAIN published' :
          \/ i \in DOMAIN published /\ published'[i] = published[i]
          \/ i = Len(published) + 1 /\ published'[i] = Subject
    BY <1>0, <1>2, AppendKeeps
  <2>3. \A i \in DOMAIN published' : status'[published'[i]] = "Completed"
    BY <1>0, <1>2, <2>1, <2>2 DEF PublishesOnce
  <2>4. \A i, j \in DOMAIN published' : published'[i] = published'[j] => i = j
    BY <2>1, <2>2 DEF PublishesOnce
  <2> QED
    BY <2>3, <2>4 DEF PublishesOnce
<1> QED
  BY <1>1, <1>2, RecordsMove

\* The last call of a handler, that emits the event of its exec.
LEMMA EmittedInPlace ==
  ASSUME Typed, [Next]_vars, NEW topic \in {"Planned", "Failed"}, NEW req \in Request,
         Emit(topic, req[2]), Took(req),
         \/ topic = "Planned" /\ req[1] = "Invoke"
         \/ topic = "Failed" /\ req[1] = "Fail"
  PROVE  InPlace(req)'
<1>1. Took(req)'
  BY TookStays
<1>2. log' = [log EXCEPT ![topic] = Append(log[topic], req[2])] /\ log \in [Topics -> Seq(Execs)]
  BY DEF Emit, Typed, EventsOK
<1>3. log'[topic] = Append(log[topic], req[2]) /\ log[topic] \in Seq(Execs) /\ req[2] \in Execs
  BY <1>2, RequestIs DEF Topics
<1>4. \E i \in DOMAIN log'[topic] : log'[topic][i] = req[2]
  BY <1>3, AppendKeeps
<1>5. Logged(topic, req[2])'
  BY <1>4 DEF Logged
<1> HIDE DEF Took, Logged
<1> QED
  BY <1>1, <1>5 DEF InPlace

\* The last call of the handler of a completion.
LEMMA PublishedInPlace ==
  ASSUME Typed, [Next]_vars, WorkerTruthful, At = "publish", published' = Append(published, Subject),
         NEW req \in Request, req[1] = "Complete", req[2] = Subject
  PROVE  InPlace(req)'
<1> DEFINE e == req[2]
<1>1. /\ status[e] = "Completed" /\ Publications(e) = {} /\ Logged("Completed", e) /\ StateSet(e)
      /\ e \in Execs
  BY RequestIs DEF WorkerTruthful
<1>2. Took(req)'
  BY <1>1, TookStays DEF Took
<1>3. Logged("Completed", req[2])'
  BY <1>1, LogKeeps DEF Topics
<1>4. StateSet(req[2])'
  BY <1>1, RecordsMove DEF StateSet
<1>5. PublishedOnce(req[2])'
  <2>1. published \in Seq(Execs)
    BY DEF Typed, StoreOK
  <2>2. \A k \in DOMAIN published' : published'[k] = e <=> k = Len(published) + 1
    BY <1>1, <2>1, AppendKeeps DEF Publications
  <2>3. Len(published) + 1 \in DOMAIN published'
    BY <1>1, <2>1, AppendKeeps
  <2>4. {k \in DOMAIN published' : published'[k] = req[2]} = {Len(published) + 1}
    BY <2>2, <2>3
  <2> QED
    BY <2>3, <2>4 DEF PublishedOnce, Publications
<1> HIDE DEF Took, Logged, StateSet, PublishedOnce, e
<1> QED
  BY <1>2, <1>3, <1>4, <1>5 DEF InPlace

\* Only the last call of all answers that the request is completed.
LEMMA AnswersLast ==
  ASSUME Typed, [Next]_vars, NEW req \in Request, reqStatus'[req] = "Completed", reqStatus[req] # "Completed"
  PROVE  At = "ack" /\ batch # << >> /\ req = Head(batch)
<1>0. /\ reqStatus \in [Request -> {"None", "Submitted", "Processing", "Completed", "Failed"}]
      /\ At \in RequestCalls => batch # << >>
      /\ {"ack", "authorize", "complete", "fail"} \subseteq RequestCalls
  BY DEF Typed, RequestsOK, WorkerOK, RequestCalls
<1>1. CASE Ack(1)
  <2>1. At = "ack" /\ Answer(1, "Completed")
    BY <1>1 DEF Ack, At
  <2>2. batch # << >> /\ reqStatus' = [reqStatus EXCEPT ![Head(batch)] = "Completed"]
    BY <1>0, <2>1 DEF Answer
  <2> QED
    BY <1>0, <2>1, <2>2
<1>2. ASSUME Refuse(1)  PROVE FALSE
  <2>1. reqStatus' = [reqStatus EXCEPT ![Head(batch)] = "Failed"]
    BY <1>2 DEF Refuse, Answer
  <2> QED
    BY <1>0, <2>1
<1>3. ASSUME \E new : Submit(new)  PROVE FALSE
  BY <1>0, <1>3 DEF Submit
<1>4. ASSUME TakeBatch(1)  PROVE FALSE
  BY <1>0, <1>4 DEF TakeBatch
<1>5. ASSUME UNCHANGED reqStatus  PROVE FALSE
  BY <1>5
<1>6. ASSUME \/ Authorize(1) \/ PlanExec(1) \/ EmitPlanned(1) \/ CompleteExec(1) \/ EmitCompleted(1)
             \/ SetState(1) \/ Publish(1) \/ FailExec(1) \/ EmitFailed(1)
      PROVE  FALSE
  BY <1>2, <1>5, <1>6 DEF Authorize, PlanExec, EmitPlanned, CompleteExec, EmitCompleted, SetState, Publish,
                         FailExec, EmitFailed, Handling
<1>7. ASSUME \/ \E r \in Runners : Spawn(r) \/ Report(r)
             \/ \E e \in Execs : ClientInvoke(e) \/ StrayReport(e)
      PROVE  FALSE
  BY <1>3, <1>7 DEF Spawn, Report, ClientInvoke, StrayReport
<1>8. ASSUME Crash  PROVE FALSE
  BY <1>5, <1>8 DEF Crash, durable
<1>9. ASSUME \/ RunTask(1) \/ CreateToken(1) \/ ScheduleOrBacklog(1) \/ EmitScheduled(1) \/ QueueExec(1)
             \/ FinishExec(1) \/ RevokeToken(1)
             \/ \E r \in Runners : Dequeue(r) \/ Reply(r) \/ LoseReply(r) \/ LoseReport(r)
             \/ \E t \in Topics : HandOver(t)
             \/ Commit \/ UNCHANGED vars
      PROVE  FALSE
  BY <1>5, <1>9, OthersRest
<1> QED
  BY <1>1, <1>4, <1>6, <1>7, <1>8, <1>9, Steps
LEMMA WorkerTruthfulStep ==
  ASSUME Typed, LoggedOnce, Truthful, [Next]_vars
  PROVE  WorkerTruthful'
<1>0. /\ RequestCalls = {"authorize", "plan", "emitPlanned", "complete", "emitCompleted",
                         "setState", "publish", "fail", "emitFailed", "ack"}
      /\ At \in RequestCalls => batch # << >> /\ Subject \in Execs /\ Head(batch) \in Request
                                /\ Head(batch) = <<Head(batch)[1], Subject>>
      /\ At \in RequestCalls => Head(batch)[1] \in {"Invoke", "Complete", "Fail"}
      /\ At \in {"plan", "emitPlanned"} => Head(batch)[1] = "Invoke"
      /\ At \in {"complete", "emitCompleted", "setState", "publish"} => Head(batch)[1] = "Complete"
      /\ At \in {"fail", "emitFailed"} => Head(batch)[1] = "Fail"
  BY SubjectIs DEF RequestCalls, Typed, WorkerOK
<1>1. ASSUME At' \notin {"emitCompleted", "setState", "publish", "ack"}  PROVE WorkerTruthful'
  BY <1>1 DEF WorkerTruthful
<1>2. /\ \A e \in Execs : status[e] = "Completed" => status'[e] = "Completed"
      /\ \A t \in Topics : \A e : Logged(t, e) => Logged(t, e)'
      /\ \A c \in Correlations : state[c] # NoExec => state'[c] # NoExec
      /\ \A req \in Request : InPlace(req) => InPlace(req)'
      /\ WorkerTruthful
  BY StatusMoves, LogKeeps, RecordsMove, InPlaceStays DEF Terminated, Truthful
<1> HIDE DEF Logged, InPlace
<1>3. ASSUME UNCHANGED <<worker, batch, published>>  PROVE WorkerTruthful'
  <2>1. At' = At /\ Subject' = Subject /\ Publications(Subject)' = Publications(Subject)
    BY <1>3 DEF At, Subject, Publications
  <2>2. At = "ack" => InPlace(Head(batch))'
    <3>1. ASSUME At = "ack"  PROVE InPlace(Head(batch))'
      <4>1. PICK req \in Request : req = Head(batch)
        BY <1>0, <3>1
      <4>2. InPlace(req)'
        BY <1>2, <3>1, <4>1 DEF WorkerTruthful
      <4>3. req = Head(batch)'
        BY <1>3, <4>1
      <4> QED
        BY <4>2, <4>3 DEF InPlace, Took, Logged, PublishedOnce, Publications, StateSet
    <3> QED
      BY <3>1
  <2>3. At \in {"setState", "publish"} => Logged("Completed", Subject)'
    <3>1. PICK e : e = Subject
      OBVIOUS
    <3>2. At \in {"setState", "publish"} => Logged("Completed", e)'
      BY <1>2, <3>1 DEF WorkerTruthful, Topics
    <3> QED
      BY <2>1, <3>1, <3>2 DEF Logged
  <2> QED
    BY <1>0, <1>2, <2>1, <2>2, <2>3 DEF WorkerTruthful, StateSet
<1>4. CASE CompleteExec(1)
  <2>1. At = "complete"
    BY <1>4 DEF CompleteExec, Handling, At
  <2>2. CASE Refuse(1)
    BY <1>0, <1>1, <2>1, <2>2, RefuseRefuses
  <2>3. CASE Handling(1, "complete", "emitCompleted") /\ Lifecycle!Complete(Subject) /\ UNCHANGED published
    <3>1. At' = "emitCompleted" /\ Subject' = Subject
      BY <1>0, <2>3, HandlingMoves
    <3>2. status[Subject] = "Started" /\ status' = [status EXCEPT ![Subject] = "Completed"]
      BY <2>3 DEF Lifecycle!Complete, Lifecycle!Advance
    <3>3. status'[Subject] = "Completed"
      BY <1>0, <2>1, <3>2 DEF Typed, StoreOK
    <3>4. Publications(Subject) = {}
      BY <3>2 DEF Publications, Truthful, PublishesOnce
    <3>5. Publications(Subject)' = {}
      BY <2>3, <3>1, <3>4 DEF Publications
    <3> QED
      BY <3>1, <3>3, <3>5 DEF WorkerTruthful
  <2> QED
    BY <1>4, <2>2, <2>3 DEF CompleteExec
<1>5. CASE EmitCompleted(1)
  <2>1. /\ At = "emitCompleted" /\ Handling(1, "emitCompleted", "setState") /\ Emit("Completed", Subject)
        /\ UNCHANGED <<status, published>>
    BY <1>5 DEF EmitCompleted, Handling, At
  <2>2. At' = "setState" /\ Subject' = Subject
    BY <1>0, <2>1, HandlingMoves
  <2>3. status'[Subject] = "Completed" /\ Publications(Subject)' = {}
    BY <1>2, <2>1, <2>2 DEF WorkerTruthful, Publications
  <2>4. log' = [log EXCEPT !["Completed"] = Append(log["Completed"], Subject)]
        /\ log \in [Topics -> Seq(Execs)] /\ Subject \in Execs
    BY <1>0, <2>1 DEF Emit, Typed, EventsOK
  <2>5. log'["Completed"] = Append(log["Completed"], Subject) /\ log["Completed"] \in Seq(Execs)
    BY <2>4 DEF Topics
  <2>6. \E i \in DOMAIN log'["Completed"] : log'["Completed"][i] = Subject
    BY <2>4, <2>5, AppendKeeps
  <2>7. Logged("Completed", Subject)'
    BY <2>2, <2>6 DEF Logged
  <2> QED
    BY <2>2, <2>3, <2>7 DEF WorkerTruthful
<1>6. CASE SetState(1)
  <2>1. /\ At = "setState" /\ Handling(1, "setState", "publish") /\ UNCHANGED <<status, published, log>>
        /\ state' = [c \in Correlations |-> IF c = CorrelationOf[Subject] THEN Subject ELSE state[c]]
    BY <1>6 DEF SetState, Handling, At
  <2>2. At' = "publish" /\ Subject' = Subject /\ Subject \in Execs
    BY <1>0, <2>1, HandlingMoves
  <2>3. status'[Subject] = "Completed" /\ Publications(Subject)' = {}
    BY <1>2, <2>1, <2>2 DEF WorkerTruthful, Publications
  <2>4. Logged("Completed", Subject)'
    BY <1>2, <2>1, <2>2 DEF WorkerTruthful, Logged
  <2>5. StateSet(Subject)'
    BY <2>1, <2>2, CorrelationsAssumption DEF StateSet
  <2> QED
    BY <2>2, <2>3, <2>4, <2>5 DEF WorkerTruthful
<1>7. CASE Publish(1)
  <2>1. /\ At = "publish" /\ Handling(1, "publish", "ack") /\ published' = Append(published, Subject)
    BY <1>7 DEF Publish, Handling, At
  <2>2. At' = "ack" /\ batch' = batch
    BY <1>0, <2>1, HandlingMoves
  <2>3. PICK req \in Request : req = Head(batch)
    BY <1>0, <2>1
  <2>4. req[1] = "Complete" /\ req[2] = Subject
    BY <1>0, <2>1, <2>3 DEF Subject
  <2>5. InPlace(req)'
    BY <1>2, <2>1, <2>4, PublishedInPlace
  <2>6. InPlace(Head(batch))'
    BY <2>2, <2>3, <2>5 DEF InPlace, Took, Logged, PublishedOnce, Publications, StateSet
  <2> QED
    BY <2>2, <2>6 DEF WorkerTruthful
<1>8. CASE EmitPlanned(1) \/ EmitFailed(1)
  <2>1. \/ At = "emitPlanned" /\ Handling(1, "emitPlanned", "ack") /\ Emit("Planned", Subject)
        \/ At = "emitFailed" /\ Handling(1, "emitFailed", "ack") /\ Emit("Failed", Subject)
    BY <1>8 DEF EmitPlanned, EmitFailed, Handling, At
  <2>2. At' = "ack" /\ batch' = batch
    BY <1>0, <2>1, HandlingMoves
  <2>3. PICK req \in Request : req = Head(batch)
    BY <1>0, <2>1
  <2>4. req[2] = Subject /\ req[1] = Head(batch)[1]
    BY <2>3 DEF Subject
  <2>5. Took(req)
    BY <1>0, <2>1, <2>4 DEF Took, LoggedOnce, WorkerLogged
  <2>6. InPlace(req)'
    BY <1>0, <2>1, <2>4, <2>5, EmittedInPlace
  <2>7. InPlace(Head(batch))'
    BY <2>2, <2>3, <2>6 DEF InPlace, Took, Logged, PublishedOnce, Publications, StateSet
  <2> QED
    BY <2>2, <2>7 DEF WorkerTruthful
<1>9. CASE TakeBatch(1)
  BY <1>1, <1>9, TakeBatchTakes
<1>10. CASE Ack(1)
  <2>1. At = "ack" /\ Answer(1, "Completed")
    BY <1>10 DEF Ack, At
  <2> QED
    BY <1>0, <1>1, <2>1, AnswerAnswers
<1>11. CASE Authorize(1)
  <2>1. At = "authorize"
    BY <1>11 DEF Authorize, At
  <2>2. FirstCall \in {"plan", "complete", "fail"}
    BY <1>0, <2>1 DEF FirstCall
  <2>3. ASSUME Handling(1, "authorize", FirstCall)  PROVE WorkerTruthful'
    BY <1>0, <1>1, <2>2, <2>3, HandlingMoves
  <2>4. ASSUME Refuse(1)  PROVE WorkerTruthful'
    BY <1>0, <1>1, <2>1, <2>4, RefuseRefuses
  <2> QED
    BY <1>11, <2>3, <2>4 DEF Authorize
<1>12. CASE PlanExec(1)
  <2>1. At' = "emitPlanned"
    BY <1>0, <1>12, HandlingMoves DEF PlanExec
  <2> QED
    BY <1>1, <2>1
<1>13. CASE FailExec(1)
  <2>1. At = "fail"
    BY <1>13 DEF FailExec, Handling, At
  <2>2. ASSUME Handling(1, "fail", "emitFailed")  PROVE WorkerTruthful'
    BY <1>0, <1>1, <2>2, HandlingMoves
  <2>3. ASSUME Refuse(1)  PROVE WorkerTruthful'
    BY <1>0, <1>1, <2>1, <2>3, RefuseRefuses
  <2> QED
    BY <1>13, <2>2, <2>3 DEF FailExec
<1>14. CASE Crash
  <2>1. worker' = [w \in Workers |-> Idle]
    BY <1>14 DEF Crash
  <2>2. At' = "idle"
    BY <2>1 DEF At, Idle, Workers
  <2> QED
    BY <1>1, <2>2
<1>15. CASE \/ RunTask(1) \/ CreateToken(1) \/ ScheduleOrBacklog(1) \/ EmitScheduled(1) \/ QueueExec(1)
            \/ FinishExec(1) \/ RevokeToken(1)
  <2>1. worker' = worker \/ At' \notin RequestCalls
    BY <1>15, OthersRest
  <2>2. At \in {"token", "schedule", "emitScheduled", "queue", "finish", "revoke", "idle"}
    <3>1. CASE RunTask(1)
      BY <3>1, IdleIs DEF RunTask
    <3>2. CASE CreateToken(1) \/ EmitScheduled(1) \/ QueueExec(1) \/ RevokeToken(1)
      BY <3>2 DEF CreateToken, EmitScheduled, QueueExec, RevokeToken, Serving, At
    <3>3. CASE ScheduleOrBacklog(1) \/ FinishExec(1)
      BY <3>3, ScheduleDoes, FinishDoes
    <3> QED
      BY <1>15, <3>1, <3>2, <3>3
  <2>3. At \notin RequestCalls
    BY <1>0, <2>2
  <2> QED
    BY <1>0, <1>1, <2>1, <2>3 DEF At
<1>16. CASE \/ \E r \in Runners : \/ Dequeue(r) \/ Reply(r) \/ LoseReply(r)
                                  \/ Spawn(r) \/ Report(r) \/ LoseReport(r)
            \/ \E e \in Execs : ClientInvoke(e) \/ StrayReport(e)
            \/ \E t \in Topics : HandOver(t)
            \/ Commit \/ UNCHANGED vars
  <2>1. UNCHANGED <<worker, batch, published>>
    BY <1>16 DEF Dequeue, Reply, LoseReply, Spawn, Report, LoseReport, ClientInvoke, StrayReport,
                 HandOver, Commit, AtBridge, vars, durable
  <2> QED
    BY <1>3, <2>1
<1> QED
  BY <1>4, <1>5, <1>6, <1>7, <1>8, <1>9, <1>10, <1>11, <1>12, <1>13, <1>14, <1>15, <1>16, Steps

LEMMA TruthfulInit == Init => Truthful
<1> SUFFICES ASSUME Init  PROVE Truthful
  OBVIOUS
<1>1. /\ At = "idle" /\ batch = << >> /\ requests = << >> /\ published = << >>
      /\ \A req \in Request : reqStatus[req] = "None" /\ status[req[2]] = "Absent"
  BY RequestIs DEF Init, At, Workers, Idle, Orch!Init, Orch!Lifecycle!Init
<1>2. WaitsOnce
  BY <1>1 DEF WaitsOnce, Pending, Took
<1>3. PublishesOnce /\ WorkerTruthful
  BY <1>1 DEF PublishesOnce, WorkerTruthful
<1> QED
  BY <1>1, <1>2, <1>3 DEF Truthful

LEMMA TruthfulStep == Typed /\ LoggedOnce /\ Truthful /\ [Next]_vars => Truthful'
<1> SUFFICES ASSUME Typed, LoggedOnce, Truthful, [Next]_vars  PROVE Truthful'
  OBVIOUS
<1>1. WaitsOnce' /\ PublishesOnce' /\ WorkerTruthful'
  BY WaitsStep, PublishesStep, WorkerTruthfulStep DEF Truthful
<1>2. ASSUME NEW req \in Request, reqStatus'[req] = "Completed"  PROVE InPlace(req)'
  <2>1. InPlace(req)
    BY <1>2, AnswersLast DEF Truthful, WorkerTruthful
  <2> QED
    BY <2>1, InPlaceStays DEF Truthful
<1> QED
  BY <1>1, <1>2 DEF Truthful

\* Whatever crashes, gets lost or comes from elsewhere: a request that is answered
\* as completed has all its effects in place, and each of them once; one that is
\* answered as failed had none.
THEOREM AnswersTrue == Spec => []AnswersAreTrue
BY TypedInvariant, LoggedInvariant, TruthfulInit, TruthfulStep, TruthfulSuffices, PTL DEF Spec
-----------------------------------------------------------------------------
\* State is handed over.

Orchestrated == INSTANCE OrchestrationProofs

LEMMA SameOrchestration ==
  ASSUME [Orch!Next]_(Orch!vars)
  PROVE  [Orchestrated!Next]_(Orchestrated!vars)
<1>1. UNCHANGED Orch!vars => UNCHANGED Orchestrated!vars
  BY DEF Orch!vars, Orchestrated!vars, Orch!service, Orchestrated!service,
         Orch!history, Orchestrated!history
<1>2. ASSUME NEW e \in Execs, Orch!Progress(e)  PROVE Orchestrated!Progress(e)
  BY <1>2 DEF Orch!Progress, Orch!service, Orch!history, Orch!Lifecycle!Plan, Orch!Lifecycle!Queue,
              Orch!Lifecycle!Start, Orch!Lifecycle!Complete, Orch!Lifecycle!Fail, Orch!Lifecycle!Advance,
              Orchestrated!Progress, Orchestrated!service, Orchestrated!history,
              Orchestrated!Lifecycle!Plan, Orchestrated!Lifecycle!Queue, Orchestrated!Lifecycle!Start,
              Orchestrated!Lifecycle!Complete, Orchestrated!Lifecycle!Fail, Orchestrated!Lifecycle!Advance
<1>3. ASSUME NEW e \in Execs, Orch!PlannedHandled(e)  PROVE Orchestrated!PlannedHandled(e)
  BY <1>3 DEF Orch!PlannedHandled, Orch!Schedule, Orch!ScheduleExec, Orch!Lifecycle!Schedule,
              Orch!Lifecycle!Advance, Orchestrated!PlannedHandled, Orchestrated!Schedule,
              Orchestrated!ScheduleExec, Orchestrated!Lifecycle!Schedule, Orchestrated!Lifecycle!Advance
<1>4. ASSUME NEW e \in Execs, Orch!FinishedHandled(e)  PROVE Orchestrated!FinishedHandled(e)
  BY <1>4 DEF Orch!FinishedHandled, Orch!Finish, Orch!ScheduleExec, Orch!Lifecycle!Schedule,
              Orch!Lifecycle!Advance, Orchestrated!FinishedHandled, Orchestrated!Finish,
              Orchestrated!ScheduleExec, Orchestrated!Lifecycle!Schedule, Orchestrated!Lifecycle!Advance
<1> QED
  BY <1>1, <1>2, <1>3, <1>4 DEF Orch!Next, Orchestrated!Next, Orch!Lifecycle!Terminal,
                                Orchestrated!Lifecycle!Terminal

LEMMA OrchestrationHolds ==
  ASSUME MaxCrashes = 0
  PROVE  Spec => [](Orch!BooksExact /\ Orch!SerialInOrder)
<1>1. Orch!Init => Orchestrated!Init
  BY DEF Orch!Init, Orchestrated!Init, Orch!Lifecycle!Init, Orchestrated!Lifecycle!Init
<1>2. Orchestrated!Spec => []Orchestrated!BooksExact
  BY CorrelationsAssumption, Orchestrated!Books
<1>3. Orchestrated!Spec => []Orchestrated!SerialInOrder
  BY CorrelationsAssumption, Orchestrated!Serial
<1>4. Orchestrated!BooksExact => Orch!BooksExact
  BY DEF Orch!BooksExact, Orchestrated!BooksExact
<1>5. Orchestrated!SerialInOrder => Orch!SerialInOrder
  BY DEF Orch!SerialInOrder, Orchestrated!SerialInOrder, Orch!Correlated, Orchestrated!Correlated
<1>6. [Orch!Next]_(Orch!vars) => [Orchestrated!Next]_(Orchestrated!vars)
  BY SameOrchestration
<1>7. Spec => Orch!Spec
  BY Implements DEF ImplementsOrchestration
<1> QED
  BY <1>1, <1>2, <1>3, <1>4, <1>5, <1>6, <1>7, PTL DEF Orch!Spec, Orchestrated!Spec

\* As long as the backend does not crash, execs that share a correlation run one
\* after the other in the order their planned events were handled: what the
\* orchestration promises holds of the engine, with its log, threads and runners.
THEOREM EngineSerial ==
  ASSUME MaxCrashes = 0
  PROVE  Spec => []Orch!SerialInOrder
BY OrchestrationHolds, PTL

\* The state of a correlation is the last completed exec, except between the two
\* calls of the handler that completes another one; meanwhile that one is not
\* settled, and no other exec of the correlation is under way.
Handoff ==
  /\ \A c \in Correlations :
       LastCompleted(c, state[c]) \/ (At = "setState" /\ CorrelationOf[Subject] = c)
  /\ At = "setState" =>
       /\ Subject \notin settled
       /\ \A c \in Correlations : CorrelationOf[Subject] = c => LastCompleted(c, Subject)
  /\ StateHandoff

LEMMA Alone ==
  ASSUME Orch!BooksExact, NEW c \in Correlations, NEW e \in Execs, NEW f \in Execs,
         CorrelationOf[e] = c, CorrelationOf[f] = c, e \notin settled, f \notin settled,
         status[e] \notin {"Absent", "Planned"}, status[f] \notin {"Absent", "Planned"}
  PROVE  e = f
<1>1. e \in execs \ settled /\ f \in execs \ settled
  BY DEF Orch!BooksExact
<1>2. inflight[c] = e /\ inflight[c] = f
  BY <1>1 DEF Orch!BooksExact
<1> QED
  BY <1>2

\* What a runner has is started and not settled.
LEMMA RunnerUnsettled ==
  ASSUME Typed, LoggedOnce, HandledOnce, Promising, NEW r \in Runners, runner[r].at # "idle"
  PROVE  runner[r].exec \in Execs /\ status[runner[r].exec] = "Started" /\ runner[r].exec \notin settled
<1> DEFINE e == runner[r].exec
<1>1. e \in Execs /\ status[e] = "Started"
  BY DEF Typed, RunnersOK, Promising
<1>2. e \in settled => status[e] \in {"Completed", "Failed"}
  BY Exclusive DEF HandledOnce
<1> QED
  BY <1>1, <1>2

LEMMA HandoffKeeps ==
  ASSUME Typed, Handoff, log'["Completed"] = log["Completed"], UNCHANGED state,
         \/ UNCHANGED <<worker, batch, settled>>
         \/ At # "setState" /\ At' # "setState",
         \A r \in Runners : runner'[r].at = "running" => runner'[r] = runner[r]
  PROVE  Handoff'
<1>1. \A c, f : LastCompleted(c, f)' <=> LastCompleted(c, f)
  BY DEF LastCompleted, CompletedOf
<1>2. \A c \in Correlations : LastCompleted(c, state[c])' <=> LastCompleted(c, state[c])
  BY DEF LastCompleted, CompletedOf
<1>3. ASSUME NEW r \in Runners, runner'[r].at = "running", CorrelationOf[runner'[r].exec] \in Correlations
      PROVE  LastCompleted(CorrelationOf[runner[r].exec], runner[r].state)'
  <2>1. runner'[r] = runner[r]
    BY <1>3
  <2>2. LastCompleted(CorrelationOf[runner[r].exec], runner[r].state)
    BY <1>3, <2>1 DEF Handoff, StateHandoff
  <2> QED
    BY <2>1, <2>2 DEF LastCompleted, CompletedOf
<1>4. StateHandoff'
  BY <1>3 DEF StateHandoff
<1>5. UNCHANGED <<worker, batch, settled>> => At' = At /\ Subject' = Subject
  BY DEF At, Subject
<1>6. \A c \in Correlations :
        LastCompleted(c, state[c])' \/ (At' = "setState" /\ CorrelationOf[Subject'] = c)
  BY <1>2, <1>5 DEF Handoff
<1>7. ASSUME At' = "setState"
      PROVE  /\ Subject' \notin settled'
             /\ \A c \in Correlations : CorrelationOf[Subject'] = c => LastCompleted(c, Subject)'
  <2>1. At = "setState" /\ Subject' = Subject /\ settled' = settled
    BY <1>5, <1>7
  <2>2. \A c : LastCompleted(c, Subject)' <=> LastCompleted(c, Subject)
    BY <2>1 DEF LastCompleted, CompletedOf
  <2> QED
    BY <2>1, <2>2 DEF Handoff
<1> HIDE DEF LastCompleted
<1> QED
  BY <1>4, <1>6, <1>7 DEF Handoff
\* The completion of e is logged: its state is the one to hand over from now on.
LEMMA CompletionLogged ==
  ASSUME Typed, NEW e \in Execs, Emit("Completed", e)
  PROVE  \A c : /\ CorrelationOf[e] = c => LastCompleted(c, e)'
                /\ CorrelationOf[e] # c => \A f : LastCompleted(c, f)' <=> LastCompleted(c, f)
<1> DEFINE q == log["Completed"]
           new == log'["Completed"]
<1>1. log' = [log EXCEPT !["Completed"] = Append(log["Completed"], e)] /\ log \in [Topics -> Seq(Execs)]
  BY DEF Emit, Typed, EventsOK
<1>2. new = Append(q, e) /\ q \in Seq(Execs)
  BY <1>1 DEF Topics
<1> HIDE DEF q, new
<1>3. /\ Len(q) \in Nat /\ DOMAIN q = 1..Len(q) /\ DOMAIN new = 1..(Len(q) + 1)
      /\ \A i \in DOMAIN q : i \in DOMAIN new /\ new[i] = q[i] /\ i <= Len(q) + 1
      /\ new[Len(q) + 1] = e /\ Len(q) + 1 \in DOMAIN new
      /\ \A i \in DOMAIN new : i \in DOMAIN q \/ i = Len(q) + 1
  BY <1>2, AppendKeeps
<1>4. /\ \A c : CompletedOf(c) = {i \in DOMAIN q : CorrelationOf[q[i]] = c}
      /\ \A c : CompletedOf(c)' = {i \in DOMAIN new : CorrelationOf[new[i]] = c}
  BY DEF CompletedOf, q, new
<1>5. ASSUME NEW c, CorrelationOf[e] = c  PROVE LastCompleted(c, e)'
  <2>1. Len(q) + 1 \in CompletedOf(c)'
    BY <1>3, <1>4, <1>5
  <2>2. \A j \in CompletedOf(c)' : j <= Len(q) + 1
    BY <1>3, <1>4
  <2> QED
    BY <1>3, <2>1, <2>2 DEF LastCompleted, new
<1>6. ASSUME NEW c, CorrelationOf[e] # c, NEW f
      PROVE  LastCompleted(c, f)' <=> LastCompleted(c, f)
  <2>1. CompletedOf(c)' = CompletedOf(c)
    BY <1>3, <1>4, <1>6
  <2>2. \A i \in CompletedOf(c) : new[i] = q[i]
    BY <1>3, <1>4
  <2> QED
    BY <2>1, <2>2 DEF LastCompleted, q, new
<1> QED
  BY <1>5, <1>6

LEMMA HandoffEmits ==
  ASSUME Typed, LoggedOnce, HandledOnce, Promising, Truthful, Orch!BooksExact, Handoff, EmitCompleted(1)
  PROVE  Handoff'
<1>1. /\ At = "emitCompleted" /\ Handling(1, "emitCompleted", "setState") /\ Emit("Completed", Subject)
      /\ UNCHANGED state /\ "setState" \in RequestCalls /\ At \in RequestCalls
  BY DEF EmitCompleted, Handling, At, RequestCalls
<1>2. /\ At' = "setState" /\ Subject' = Subject /\ UNCHANGED <<runner, settled>>
      /\ Subject \in Execs
  BY <1>1, HandlingMoves, SubjectIs DEF Typed, WorkerOK
<1>3. PICK e \in Execs : e = Subject
  BY <1>2
<1>4. status[e] = "Completed" /\ e \notin settled
  <2>1. status[e] = "Completed" /\ NotLogged("Completed", e)
    BY <1>1, <1>3 DEF LoggedOnce, WorkerLogged
  <2>2. ~Passed("Completed", e)
    BY <2>1, PassedIs DEF NotLogged, Topics
  <2>3. ~Passed("Failed", e)
    BY <2>1, Exclusive
  <2> QED
    BY <2>1, <2>2, <2>3 DEF HandledOnce
<1>5. \A c : /\ CorrelationOf[e] = c => LastCompleted(c, e)'
             /\ CorrelationOf[e] # c => \A f : LastCompleted(c, f)' <=> LastCompleted(c, f)
  BY <1>1, <1>3, CompletionLogged
<1>6. ASSUME NEW r \in Runners, runner[r].at = "running", CorrelationOf[runner[r].exec] \in Correlations
      PROVE  LastCompleted(CorrelationOf[runner[r].exec], runner[r].state)'
  <2>1. PICK c, f : c \in Correlations /\ c = CorrelationOf[runner[r].exec] /\ f = runner[r].state
    BY <1>6
  <2>2. runner[r].exec # e /\ runner[r].exec \in Execs /\ runner[r].exec \notin settled
        /\ status[runner[r].exec] = "Started"
    BY <1>4, <1>6, RunnerUnsettled
  <2>3. c # CorrelationOf[e]
    BY <1>4, <2>1, <2>2, Alone
  <2>4. LastCompleted(c, f)
    BY <1>6, <2>1 DEF Handoff, StateHandoff
  <2>5. LastCompleted(c, f)'
    BY <1>5, <2>3, <2>4
  <2> QED
    BY <1>2, <2>1, <2>5 DEF LastCompleted, CompletedOf
<1>7. StateHandoff'
  BY <1>2, <1>6 DEF StateHandoff
<1>8. ASSUME NEW c \in Correlations, CorrelationOf[e] # c  PROVE LastCompleted(c, state[c])'
  <2>1. PICK f : f = state[c]
    OBVIOUS
  <2>2. LastCompleted(c, f)
    BY <1>1, <1>3, <1>8, <2>1 DEF Handoff
  <2>3. LastCompleted(c, f)'
    BY <1>5, <1>8, <2>2
  <2> QED
    BY <1>1, <2>1, <2>3 DEF LastCompleted, CompletedOf
<1>9. \A c \in Correlations : CorrelationOf[Subject'] = c => LastCompleted(c, Subject)'
  <2>1. ASSUME NEW c \in Correlations, CorrelationOf[e] = c  PROVE LastCompleted(c, Subject)'
    <3>1. LastCompleted(c, e)'
      BY <1>5, <2>1
    <3> QED
      BY <1>2, <1>3, <3>1 DEF LastCompleted, CompletedOf
  <2> QED
    BY <1>2, <1>3, <2>1
<1> HIDE DEF LastCompleted
<1> QED
  BY <1>2, <1>3, <1>4, <1>7, <1>8, <1>9 DEF Handoff

LEMMA HandoffSets ==
  ASSUME Typed, Handoff, SetState(1)
  PROVE  Handoff'
<1>1. /\ At = "setState" /\ Handling(1, "setState", "publish") /\ UNCHANGED log
      /\ state' = [c \in Correlations |-> IF c = CorrelationOf[Subject] THEN Subject ELSE state[c]]
      /\ "publish" \in RequestCalls
  BY DEF SetState, Handling, At, RequestCalls
<1>2. At' = "publish" /\ UNCHANGED runner
  BY <1>1, HandlingMoves
<1>3. ASSUME NEW c \in Correlations  PROVE LastCompleted(c, state[c])'
  <2>1. PICK f : f = state'[c]
    OBVIOUS
  <2>2. LastCompleted(c, f)
    <3>1. CASE c = CorrelationOf[Subject]
      BY <1>1, <2>1, <3>1 DEF Handoff
    <3>2. CASE c # CorrelationOf[Subject]
      BY <1>1, <2>1, <3>2 DEF Handoff
    <3> QED
      BY <3>1, <3>2
  <2> QED
    BY <1>1, <2>1, <2>2 DEF LastCompleted, CompletedOf
<1>4. StateHandoff'
  BY <1>1, <1>2 DEF Handoff, StateHandoff, LastCompleted, CompletedOf
<1> HIDE DEF LastCompleted
<1> QED
  BY <1>2, <1>3, <1>4 DEF Handoff

\* The state is read for the answer: not between the two calls.
LEMMA HandoffReads ==
  ASSUME Typed, LoggedOnce, HandledOnce, Promising, Truthful, Orch!BooksExact, Handoff,
         NEW r \in Runners, Reply(r)
  PROVE  Handoff'
<1> DEFINE e == runner[r].exec
           s == IF tokens[e] = 0 THEN Free
                ELSE [at |-> "running", exec |-> e,
                      state |-> IF CorrelationOf[e] \in Correlations THEN state[CorrelationOf[e]] ELSE NoExec]
<1>1. /\ runner[r].at = "starting" /\ runner' = [runner EXCEPT ![r] = s]
      /\ UNCHANGED <<log, state, worker, batch, settled>>
  BY DEF Reply, AtBridge, history
<1>2. e \in Execs /\ status[e] = "Started" /\ e \notin settled
  BY <1>1, RunnerUnsettled
<1>3. \A q \in Runners : runner'[q] = IF q = r THEN s ELSE runner[q]
  BY <1>1 DEF Typed, RunnersOK
<1>4. At' = At /\ Subject' = Subject
  BY <1>1 DEF At, Subject
<1>5. ASSUME NEW c \in Correlations, CorrelationOf[e] = c  PROVE LastCompleted(c, state[c])
  <2>1. ASSUME At = "setState", CorrelationOf[Subject] = c  PROVE FALSE
    <3>1. Subject \in Execs /\ status[Subject] = "Completed" /\ Subject \notin settled
      BY <2>1, SubjectIs DEF Handoff, Typed, WorkerOK, RequestCalls, Truthful, WorkerTruthful
    <3>2. Subject = e
      BY <1>2, <1>5, <2>1, <3>1, Alone
    <3> QED
      BY <1>2, <3>1, <3>2
  <2> QED
    BY <2>1 DEF Handoff
<1>6. ASSUME NEW q \in Runners, runner'[q].at = "running", NEW c \in Correlations, NEW f,
             c = CorrelationOf[runner'[q].exec], f = runner'[q].state
      PROVE  LastCompleted(c, f)
  <2>1. CASE q = r
    <3>1. runner'[q] = s /\ s # Free
      BY <1>3, <1>6, <2>1 DEF Free
    <3>2. c = CorrelationOf[e] /\ f = state[c]
      BY <1>6, <3>1
    <3> QED
      BY <1>5, <3>2
  <2>2. CASE q # r
    BY <1>3, <1>6, <2>2 DEF Handoff, StateHandoff
  <2> QED
    BY <2>1, <2>2
<1> HIDE DEF e, s
<1>7. StateHandoff'
  <2>1. ASSUME NEW q \in Runners, runner'[q].at = "running", CorrelationOf[runner'[q].exec] \in Correlations
        PROVE  LastCompleted(CorrelationOf[runner[q].exec], runner[q].state)'
    <3>1. PICK c, f : c \in Correlations /\ c = CorrelationOf[runner'[q].exec] /\ f = runner'[q].state
      BY <2>1
    <3>2. LastCompleted(c, f)
      BY <1>6, <2>1, <3>1
    <3> QED
      BY <1>1, <3>1, <3>2 DEF LastCompleted, CompletedOf
  <2> QED
    BY <2>1 DEF StateHandoff
<1>8. /\ \A c \in Correlations : LastCompleted(c, state[c])' <=> LastCompleted(c, state[c])
      /\ \A c : LastCompleted(c, Subject)' <=> LastCompleted(c, Subject)
  BY <1>1, <1>4 DEF LastCompleted, CompletedOf
<1> HIDE DEF LastCompleted
<1> QED
  BY <1>1, <1>4, <1>7, <1>8 DEF Handoff
LEMMA HandoffStep ==
  ASSUME MaxCrashes = 0, Untidy = FALSE, Typed, LoggedOnce, HandledOnce, Promising, Truthful,
         Orch!BooksExact, Handoff, [Next]_vars
  PROVE  Handoff'
<1>0. /\ RequestCalls = {"authorize", "plan", "emitPlanned", "complete", "emitCompleted",
                         "setState", "publish", "fail", "emitFailed", "ack"}
      /\ At \in RequestCalls => Head(batch)[1] \in {"Invoke", "Complete", "Fail"}
      /\ At \in RequestCalls => batch # << >>
      /\ worker \in [Workers -> WorkerStates]
  BY SubjectIs DEF RequestCalls, Typed, WorkerOK
<1>1. ASSUME UNCHANGED <<log, state, runner>>, At # "setState", At' # "setState"  PROVE Handoff'
  BY <1>1, HandoffKeeps
<1>2. CASE TakeBatch(1)
  <2>1. UNCHANGED <<log, state, runner>> /\ At = "idle" /\ At' = "authorize"
    BY <1>2, TakeBatchTakes DEF TakeBatch
  <2> QED
    BY <1>1, <2>1
<1>3. CASE Ack(1)
  <2>1. At = "ack" /\ Answer(1, "Completed") /\ UNCHANGED <<log, state, runner>>
    BY <1>3 DEF Ack, At
  <2>2. At' \in {"idle", "authorize"}
    BY <1>0, <2>1, AnswerAnswers
  <2> QED
    BY <1>1, <2>1, <2>2
<1>4. ASSUME Refuse(1), At \in {"authorize", "complete", "fail"}  PROVE Handoff'
  <2>1. At' \in {"idle", "authorize"} /\ UNCHANGED <<log, state, runner>>
    BY <1>0, <1>4, RefuseRefuses
  <2> QED
    BY <1>1, <1>4, <2>1
<1>5. ASSUME NEW call \in RequestCalls \ {"setState"}, NEW next \in RequestCalls \ {"setState"},
             Handling(1, call, next), UNCHANGED state,
             log' = log \/ \E topic \in Topics \ {"Completed"} : Emit(topic, Subject)
      PROVE  Handoff'
  <2>1. At = call /\ At' = next /\ UNCHANGED runner
    BY <1>5, HandlingMoves
  <2>2. log'["Completed"] = log["Completed"]
    BY <1>5 DEF Emit, Typed, EventsOK, Topics
  <2> QED
    BY <1>5, <2>1, <2>2, HandoffKeeps
<1>6. CASE Authorize(1)
  <2>1. At = "authorize"
    BY <1>6 DEF Authorize, At
  <2>2. FirstCall \in {"plan", "complete", "fail"}
    BY <1>0, <2>1 DEF FirstCall
  <2>3. ASSUME Handling(1, "authorize", FirstCall), UNCHANGED <<log, state>>  PROVE Handoff'
    BY <1>0, <1>5, <2>2, <2>3
  <2> QED
    BY <1>4, <1>6, <2>1, <2>3 DEF Authorize
<1>7. CASE PlanExec(1) \/ EmitPlanned(1) \/ Publish(1) \/ EmitFailed(1)
  <2>1. /\ UNCHANGED state
        /\ log' = log \/ \E topic \in Topics \ {"Completed"} : Emit(topic, Subject)
        /\ \E call \in RequestCalls \ {"setState"}, next \in RequestCalls \ {"setState"} : Handling(1, call, next)
    BY <1>0, <1>7 DEF PlanExec, EmitPlanned, Publish, EmitFailed, Topics
  <2> QED
    BY <1>5, <2>1
<1>8. CASE CompleteExec(1) \/ FailExec(1)
  <2>1. CASE Refuse(1) /\ At \in {"complete", "fail"}
    BY <1>4, <2>1
  <2>2. CASE /\ Handling(1, "complete", "emitCompleted") \/ Handling(1, "fail", "emitFailed")
             /\ UNCHANGED <<log, state>>
    BY <1>0, <1>5, <2>2
  <2> QED
    BY <1>8, <2>1, <2>2 DEF CompleteExec, FailExec, At
<1>9. CASE \/ RunTask(1) \/ CreateToken(1) \/ ScheduleOrBacklog(1) \/ EmitScheduled(1) \/ QueueExec(1)
           \/ FinishExec(1) \/ RevokeToken(1)
  <2>1. worker' = worker \/ At' \notin RequestCalls
    BY <1>9, OthersRest
  <2>2. At \in {"token", "schedule", "emitScheduled", "queue", "finish", "revoke", "idle"}
    <3>1. CASE RunTask(1)
      BY <3>1, IdleIs DEF RunTask
    <3>2. CASE CreateToken(1) \/ EmitScheduled(1) \/ QueueExec(1) \/ RevokeToken(1)
      BY <3>2 DEF CreateToken, EmitScheduled, QueueExec, RevokeToken, Serving, At
    <3>3. CASE ScheduleOrBacklog(1) \/ FinishExec(1)
      BY <3>3, ScheduleDoes, FinishDoes
    <3> QED
      BY <1>9, <3>1, <3>2, <3>3
  <2>3. At # "setState" /\ At' # "setState"
    BY <1>0, <2>1, <2>2 DEF At
  <2>4. UNCHANGED <<state, runner>> /\ log'["Completed"] = log["Completed"]
    <3>1. CASE RunTask(1) \/ CreateToken(1) \/ QueueExec(1) \/ RevokeToken(1)
      BY <3>1 DEF RunTask, CreateToken, QueueExec, RevokeToken, Serving, durable
    <3>2. CASE ScheduleOrBacklog(1) \/ FinishExec(1)
      BY <3>2, ScheduleDoes, FinishDoes
    <3>3. CASE EmitScheduled(1)
      BY <3>3 DEF EmitScheduled, Serving, Emit, Typed, EventsOK, Topics
    <3> QED
      BY <1>9, <3>1, <3>2, <3>3
  <2> QED
    BY <2>3, <2>4, HandoffKeeps
<1>10. ASSUME UNCHANGED <<log, state, worker, batch, settled>>,
              \/ UNCHANGED runner
              \/ \E r \in Runners : \E s : s.at # "running" /\ runner' = [runner EXCEPT ![r] = s]
       PROVE  Handoff'
  <2>1. \A q \in Runners : runner'[q].at = "running" => runner'[q] = runner[q]
    BY <1>10 DEF Typed, RunnersOK
  <2> QED
    BY <1>10, <2>1, HandoffKeeps
<1>11. ASSUME NEW r \in Runners, Dequeue(r)  PROVE Handoff'
  <2>1. PICK e \in Execs : runner' = [runner EXCEPT ![r] = [at |-> "starting", exec |-> e, state |-> NoExec]]
    BY <1>11 DEF Dequeue
  <2>2. UNCHANGED <<log, state, worker, batch, settled>>
    BY <1>11 DEF Dequeue, AtBridge, history
  <2> QED
    BY <1>10, <2>1, <2>2
<1>12. ASSUME NEW r \in Runners, Report(r)  PROVE Handoff'
  <2>1. /\ runner' = [runner EXCEPT ![r] = Free] /\ Free.at # "running"
        /\ UNCHANGED <<log, state, worker, batch, settled>>
    BY <1>12 DEF Report, AtBridge, history, Free
  <2> QED
    BY <1>10, <2>1
<1>13. CASE \/ \E r \in Runners : Spawn(r)
            \/ \E e \in Execs : ClientInvoke(e)
            \/ \E t \in Topics : HandOver(t)
            \/ Commit \/ UNCHANGED vars
  <2>1. UNCHANGED <<log, state, worker, batch, settled, runner>>
    BY <1>13 DEF Spawn, ClientInvoke, HandOver, Commit, AtBridge, vars, durable, history
  <2> QED
    BY <1>10, <2>1
<1>14. /\ ~Crash
       /\ \A r \in Runners : ~LoseReply(r) /\ ~LoseReport(r)
       /\ \A e \in Execs : ~StrayReport(e)
  BY DEF Crash, Typed, StoreOK, LoseReply, LoseReport, StrayReport
<1>15. CASE EmitCompleted(1) \/ SetState(1) \/ \E r \in Runners : Reply(r)
  BY <1>15, HandoffEmits, HandoffSets, HandoffReads
<1> QED
  BY <1>2, <1>3, <1>6, <1>7, <1>8, <1>9, <1>11, <1>12, <1>13, <1>14, <1>15, Steps

LEMMA HandoffInit == Init => Handoff
<1> SUFFICES ASSUME Init  PROVE Handoff
  OBVIOUS
<1>1. /\ At = "idle" /\ log["Completed"] = << >>
      /\ \A c \in Correlations : state[c] = NoExec
      /\ \A r \in Runners : runner[r].at = "idle"
  BY DEF Init, At, Workers, Idle, Free, Topics
<1>2. \A c \in Correlations : LastCompleted(c, state[c])
  BY <1>1 DEF LastCompleted, CompletedOf
<1> QED
  BY <1>1, <1>2 DEF Handoff, StateHandoff

\* As long as nothing crashes and the network loses nothing, an exec runs with the
\* state that the exec of its correlation that completed last has left: between
\* the completion and the write of the state nobody reads it, because the
\* correlation is released only later, on an event the worker has yet to handle.
THEOREM StateHandedOver ==
  ASSUME MaxCrashes = 0, Untidy = FALSE
  PROVE  Spec => []StateHandoff
<1>1. /\ Typed /\ LoggedOnce /\ HandledOnce /\ Promising /\ Truthful /\ Orch!BooksExact /\ Handoff
      /\ [Next]_vars
      => Handoff'
  BY HandoffStep
<1>2. Typed /\ LoggedOnce /\ Truthful /\ [Next]_vars => Truthful'
  BY TruthfulStep
<1>3. Typed /\ Tokened /\ Promising /\ [Next]_vars => Promising'
  BY PromisingStep
<1>4. Spec => []Orch!BooksExact
  BY OrchestrationHolds, PTL
<1>5. Handoff => StateHandoff
  BY DEF Handoff
<1> QED
  BY <1>1, <1>2, <1>3, <1>4, <1>5, TypedInvariant, TokenedInvariant, LoggedInvariant, HandledInvariant,
     TruthfulInit, PromisingInit, HandoffInit, PTL DEF Spec
=============================================================================
