--------------------------- MODULE TriggersProofs ---------------------------
(***************************************************************************)
(* For any topics, triggers, requests and restarts: of the events that one *)
(* request publishes to a topic the log keeps the first, event triggers    *)
(* invoke for the rows of the log one after the other, and a fixed rate    *)
(* trigger that was emitted is scheduled unless it was switched off.       *)
(***************************************************************************)
EXTENDS Triggers, FiniteSetTheorems, TLAPS

Row == [id : Nat, cmd : Requests, value : Nat \cup Triggers]

\* What the type invariant needs besides: the rows of the internal topic hold
\* triggers, those of the others numbers, and only the creation of a trigger
\* emits.
Internal ==
  /\ \A k \in DOMAIN events[CreatedTopic] : events[CreatedTopic][k].value \in Triggers
  /\ \A t \in Topics : \A k \in DOMAIN events[t] : events[t][k].value \in Nat
  /\ worker.at \in {"emitCreated", "ack"} => ~Publishes(worker.req)
  /\ worker.at = "emitCreated" => worker.req.kind = "createTrigger"

Typed == TypeOK /\ Internal
-----------------------------------------------------------------------------
LEMMA TopicsAreLogTopics ==
  /\ Topics \subseteq LogTopics
  /\ CreatedTopic \in LogTopics /\ CreatedTopic \notin Topics
  /\ EventService \in Consumers /\ EventService \notin EventTriggers
  /\ Follows[EventService] = CreatedTopic
  /\ \A x \in EventTriggers : x \in Consumers /\ Follows[x] \in Topics
BY TopicsAssumption

\* An append leaves the rows there are, and adds one or none.
LEMMA AppendKeepsLog ==
  ASSUME NEW cmd \in Requests, NEW t \in LogTopics, NEW v \in Nat \cup Triggers,
         BrokerTypeOK, events \in [LogTopics -> Seq(Row)],
         AppendEvent(cmd, t, v)
  PROVE  /\ BrokerTypeOK' /\ events' \in [LogTopics -> Seq(Row)]
         /\ nextEventId' = nextEventId
         /\ \A u \in LogTopics : u # t => events'[u] = events[u]
         /\ IF EventsOf(cmd, t) # {} THEN events' = events
            ELSE /\ Len(events'[t]) = Len(events[t]) + 1
                 /\ \A k \in DOMAIN events[t] : events'[t][k] = events[t][k]
                 /\ events'[t][Len(events[t]) + 1].cmd = cmd
                 /\ events'[t][Len(events[t]) + 1].value = v
<1> DEFINE row == [id |-> sequence[t] + 1, cmd |-> cmd, value |-> v]
<1>1. /\ sequence \in [LogTopics -> Nat]
      /\ sequence' = [sequence EXCEPT ![t] = sequence[t] + 1]
      /\ nextEventId' = nextEventId
      /\ nextEventId \in [Consumers -> Nat]
  BY DEF AppendEvent, BrokerTypeOK
<1>2. CASE EventsOf(cmd, t) # {}
  <2>1. events' = events
    BY <1>2 DEF AppendEvent
  <2>2. \A u \in LogTopics : sequence[u] <= sequence'[u] /\ sequence'[u] \in Nat
    BY <1>1
  <2>3. BrokerTypeOK'
    BY <1>1, <2>1, <2>2 DEF BrokerTypeOK
  <2> QED
    BY <1>1, <1>2, <2>1, <2>3
<1>3. CASE EventsOf(cmd, t) = {}
  <2>1. events' = [events EXCEPT ![t] = Append(events[t], row)]
    BY <1>3 DEF AppendEvent
  <2>2. row \in Row
    BY <1>1 DEF Row
  <2>3. /\ events[t] \in Seq(Row)
        /\ events'[t] = Append(events[t], row)
        /\ events' \in [LogTopics -> Seq(Row)]
        /\ \A u \in LogTopics : u # t => events'[u] = events[u]
    BY <2>1, <2>2
  <2>4. /\ Len(events'[t]) = Len(events[t]) + 1
        /\ DOMAIN events'[t] = 1..(Len(events[t]) + 1)
        /\ DOMAIN events[t] = 1..Len(events[t])
        /\ \A k \in DOMAIN events[t] : events'[t][k] = events[t][k]
        /\ events'[t][Len(events[t]) + 1] = row
        /\ Len(events[t]) \in Nat
    BY <2>2, <2>3
  <2>5. ASSUME NEW u \in LogTopics, NEW i \in DOMAIN events'[u]
        PROVE  /\ events'[u][i].id \in 1..sequence'[u]
               /\ \A j \in 1..(i - 1) : events'[u][j].id < events'[u][i].id
    <3>1. CASE u # t
      BY <3>1, <1>1, <2>3, <2>5 DEF BrokerTypeOK
    <3>2. CASE u = t /\ i \in DOMAIN events[t]
      <4>1. \A j \in 1..(i - 1) : j \in DOMAIN events[t]
        BY <2>4, <3>2
      <4>2. events[t][i].id \in 1..sequence[t] /\ sequence[t] \in Nat
        BY <1>1, <3>2 DEF BrokerTypeOK
      <4>3. events'[u][i].id = events[t][i].id /\ sequence'[u] = sequence[t] + 1
        BY <1>1, <2>4, <3>2
      <4>4. \A j \in 1..(i - 1) : events'[u][j] = events[t][j]
                                  /\ events[t][j].id < events[t][i].id
        BY <2>4, <3>2, <4>1 DEF BrokerTypeOK
      <4>5. events'[u][i].id \in 1..sequence'[u]
        BY <4>2, <4>3
      <4>6. \A j \in 1..(i - 1) : events'[u][j].id < events'[u][i].id
        BY <4>3, <4>4
      <4> QED
        BY <4>5, <4>6
    <3>3. CASE u = t /\ i = Len(events[t]) + 1
      <4>1. \A j \in 1..(i - 1) : j \in DOMAIN events[t]
        BY <2>4, <3>3
      <4>2. \A j \in DOMAIN events[t] : events[t][j].id \in 1..sequence[t]
        BY DEF BrokerTypeOK
      <4>3. events'[u][i].id = sequence[t] + 1 /\ sequence'[u] = sequence[t] + 1
            /\ sequence[t] \in Nat
        BY <1>1, <2>4, <3>3
      <4>4. events'[u][i].id \in 1..sequence'[u]
        BY <4>3
      <4>5. \A j \in 1..(i - 1) : events'[u][j].id = events[t][j].id
                                  /\ events[t][j].id \in 1..sequence[t]
        BY <2>4, <3>3, <4>1, <4>2
      <4>6. \A j \in 1..(i - 1) : events'[u][j].id < events'[u][i].id
        BY <4>3, <4>5
      <4> QED
        BY <4>4, <4>6
    <3> QED
      BY <2>4, <2>5, <3>1, <3>2, <3>3
  <2>6. BrokerTypeOK'
    <3>1. sequence' \in [LogTopics -> Nat] /\ nextEventId' \in [Consumers -> Nat]
      BY <1>1
    <3> QED
      BY <2>5, <3>1 DEF BrokerTypeOK
  <2>7. events'[t][Len(events[t]) + 1].cmd = cmd /\ events'[t][Len(events[t]) + 1].value = v
    BY <2>4
  <2> HIDE DEF row
  <2> QED
    BY <1>1, <1>3, <2>3, <2>4, <2>6, <2>7
<1> QED
  BY <1>2, <1>3
-----------------------------------------------------------------------------
\* The type invariant by what it speaks of.
LogTyped ==
  /\ BrokerTypeOK
  /\ events \in [LogTopics -> Seq(Row)]
  /\ \A k \in DOMAIN events[CreatedTopic] : events[CreatedTopic][k].value \in Triggers
  /\ \A t \in Topics : \A k \in DOMAIN events[t] : events[t][k].value \in Nat

StoreTyped ==
  /\ known \subseteq Topics
  /\ trigger \in [Triggers -> {"None", "Active", "Inactive", "Deleted"}]
  /\ reqStatus \in [Requests -> {"None", "Submitted", "Processing", "Completed", "Failed"}]

WorkTyped ==
  /\ phase \in {"down", "refreshed", "ready"}
  /\ batch \subseteq {r \in Requests : reqStatus[r] = "Processing"}
  /\ \/ worker = Idle
     \/ worker \in [at : {"handle", "emitCreated", "ack"}, req : batch, n : Nat \ {0}]
     \/ worker \in [at : {"commit"}, consumer : EventTriggers, id : Nat] /\ batch = {}
  /\ worker.at \in {"emitCreated", "ack"} => ~Publishes(worker.req)
  /\ worker.at = "emitCreated" => worker.req.kind = "createTrigger"

TasksTyped ==
  /\ pool \in Seq(Triggers)
  /\ handing \subseteq Nat
  /\ polling \subseteq {x \in EventTriggers : trigger[x] # "None"}
  /\ schedules \in [FixedRates -> Nat]
  /\ invoked \in [EventTriggers -> Seq(Nat)]
  /\ ticks \in 0..MaxTicks /\ crashes \in 0..MaxCrashes

DownIsEmpty ==
  phase = "down" => /\ batch = {} /\ worker = Idle /\ pool = <<>> /\ handing = None
                    /\ polling = {} /\ \A x \in FixedRates : schedules[x] = 0

LEMMA TypedParts ==
  Typed <=> LogTyped /\ StoreTyped /\ WorkTyped /\ TasksTyped /\ DownIsEmpty
BY DEF Typed, TypeOK, Internal, LogTyped, StoreTyped, WorkTyped, TasksTyped, DownIsEmpty, Row

LEMMA RowTyped ==
  ASSUME LogTyped, NEW t \in LogTopics, NEW k \in DOMAIN events[t]
  PROVE  events[t][k].id \in Nat /\ events[t][k].cmd \in Requests
<1>1. events[t] \in Seq(Row)
  BY DEF LogTyped
<1>2. events[t][k] \in Row
  BY <1>1
<1> QED
  BY <1>2 DEF Row

LEMMA UnchangedLog == LogTyped /\ UNCHANGED broker => LogTyped'
BY DEF LogTyped, BrokerTypeOK, broker

LEMMA CommitKeepsLog ==
  ASSUME LogTyped, NEW c \in Consumers, NEW id \in Nat, Commit(c, id)
  PROVE  LogTyped'
BY DEF LogTyped, BrokerTypeOK, Commit

\* What the log is given fits its topic.
LEMMA AppendKeepsTypes ==
  ASSUME LogTyped, NEW cmd \in Requests, NEW t \in LogTopics, NEW v,
         IF t = CreatedTopic THEN v \in Triggers ELSE v \in Nat,
         AppendEvent(cmd, t, v)
  PROVE  LogTyped'
<1>1. v \in Nat \cup Triggers
  OBVIOUS
<1>2. /\ BrokerTypeOK' /\ events' \in [LogTopics -> Seq(Row)]
      /\ \A u \in LogTopics : u # t => events'[u] = events[u]
      /\ IF EventsOf(cmd, t) # {} THEN events' = events
         ELSE /\ Len(events'[t]) = Len(events[t]) + 1
              /\ \A k \in DOMAIN events[t] : events'[t][k] = events[t][k]
              /\ events'[t][Len(events[t]) + 1].value = v
  BY <1>1, AppendKeepsLog DEF LogTyped
<1>3. ASSUME NEW k \in DOMAIN events'[t]
      PROVE  IF t = CreatedTopic THEN events'[t][k].value \in Triggers
             ELSE events'[t][k].value \in Nat
  <2>1. IF t = CreatedTopic
        THEN \A i \in DOMAIN events[t] : events[t][i].value \in Triggers
        ELSE \A i \in DOMAIN events[t] : events[t][i].value \in Nat
    BY TopicsAssumption DEF LogTyped
  <2>2. CASE events' = events
    BY <2>1, <2>2
  <2>3. CASE k \in DOMAIN events[t] /\ events'[t][k] = events[t][k]
    BY <2>1, <2>3
  <2>4. CASE k = Len(events[t]) + 1 /\ events'[t][k].value = v
    BY <2>4
  <2>5. /\ DOMAIN events[t] = 1..Len(events[t]) /\ Len(events[t]) \in Nat
        /\ DOMAIN events'[t] = 1..Len(events'[t]) /\ Len(events'[t]) \in Nat
    BY <1>2 DEF LogTyped
  <2>6. \/ events' = events
        \/ k \in DOMAIN events[t] /\ events'[t][k] = events[t][k]
        \/ k = Len(events[t]) + 1 /\ events'[t][k].value = v
    <3>1. CASE EventsOf(cmd, t) # {}
      BY <1>2, <3>1
    <3>2. CASE EventsOf(cmd, t) = {}
      <4>1. /\ Len(events'[t]) = Len(events[t]) + 1
            /\ \A i \in DOMAIN events[t] : events'[t][i] = events[t][i]
            /\ events'[t][Len(events[t]) + 1].value = v
        BY <1>2, <3>2
      <4>2. k \in DOMAIN events[t] \/ k = Len(events[t]) + 1
        BY <2>5, <4>1
      <4> QED
        BY <4>1, <4>2
    <3> QED
      BY <3>1, <3>2
  <2> QED
    BY <2>2, <2>3, <2>4, <2>6
<1>4. \A k \in DOMAIN events'[CreatedTopic] : events'[CreatedTopic][k].value \in Triggers
  BY <1>2, <1>3, TopicsAssumption DEF LogTyped
<1>5. \A u \in Topics : \A k \in DOMAIN events'[u] : events'[u][k].value \in Nat
  BY <1>2, <1>3, TopicsAssumption DEF LogTyped
<1> QED
  BY <1>2, <1>4, <1>5 DEF LogTyped
-----------------------------------------------------------------------------
\* What a handler has in its hands.
LEMMA InHand ==
  ASSUME Typed, NEW r, NEW call \in {"handle", "emitCreated", "ack"}, Handling(r, call)
  PROVE  /\ r \in Requests /\ r \in batch /\ reqStatus[r] = "Processing"
         /\ worker \in [at : {call}, req : {r}, n : Nat \ {0}]
         /\ phase # "down"
<1>1. worker.at = call /\ worker.req = r /\ WorkTyped /\ DownIsEmpty
  BY TypedParts DEF Handling
<1>2. worker \in [at : {"handle", "emitCreated", "ack"}, req : batch, n : Nat \ {0}]
  BY <1>1 DEF WorkTyped, Idle
<1> QED
  BY <1>1, <1>2 DEF WorkTyped, DownIsEmpty

\* The event being published, and its topic.
LEMMA PublishInHand ==
  ASSUME Typed, NEW r, Handling(r, "handle"), Publishes(r), worker.n <= Len(r.topics)
  PROVE  /\ r.topics \in Seq(Topics)
         /\ worker.n \in DOMAIN r.topics
         /\ r.topics[worker.n] \in Topics
<1>1. r \in Requests /\ worker.n \in Nat \ {0}
  BY InHand
<1>2. r.topics \in Seq(Topics)
  BY <1>1, RequestsAssumption DEF Publishes
<1> QED
  BY <1>1, <1>2

LEMMA LogStep == Typed /\ Next => LogTyped'
<1> SUFFICES ASSUME Typed, Next PROVE LogTyped'
  OBVIOUS
<1>0. LogTyped /\ TasksTyped /\ WorkTyped
  BY TypedParts
<1>1. CASE UNCHANGED broker
  BY <1>0, <1>1, UnchangedLog
<1>2. ASSUME NEW r \in Requests, EmitCreated(r) PROVE LogTyped'
  <2>1. r.kind = "createTrigger" /\ AppendEvent(r, CreatedTopic, r.trigger)
    BY <1>2, <1>0 DEF EmitCreated, Handling, WorkTyped
  <2>2. r.trigger \in Triggers
    BY <2>1, RequestsAssumption
  <2> QED
    BY <1>0, <2>1, <2>2, TopicsAssumption, AppendKeepsTypes
<1>3. ASSUME NEW r \in Requests, Publish(r) PROVE LogTyped'
  <2>1. /\ Handling(r, "handle") /\ Publishes(r) /\ worker.n <= Len(r.topics)
        /\ AppendEvent(r, r.topics[worker.n], worker.n)
    BY <1>3 DEF Publish
  <2>2. r.topics[worker.n] \in Topics /\ worker.n \in Nat
    BY <2>1, PublishInHand, InHand
  <2> QED
    BY <1>0, <2>1, <2>2, TopicsAssumption, AppendKeepsTypes
<1>4. CASE CommitHandedOver
  BY <1>0, <1>4, TopicsAreLogTopics, CommitKeepsLog DEF CommitHandedOver, TasksTyped
<1>5. CASE CommitInvoked
  <2>1. worker.consumer \in EventTriggers /\ worker.id \in Nat
    BY <1>0, <1>5 DEF CommitInvoked, WorkTyped, Idle
  <2> QED
    BY <1>0, <1>5, <2>1, TopicsAreLogTopics, CommitKeepsLog DEF CommitInvoked
<1>6. \/ UNCHANGED broker
      \/ \E r \in Requests : EmitCreated(r) \/ Publish(r)
      \/ CommitHandedOver \/ CommitInvoked
  <2>1. batch \subseteq Requests
    BY <1>0 DEF WorkTyped
  <2> QED
    BY <2>1 DEF Next, Start, Setup, Ready, Crash, Submit, Invoker, TakeBatch, Begin, Handle, Refuse,
      CreateTopic, CreateTrigger, SetStatus, Delete, MakeTopic, Ack, InternalEvents, HandOver,
      TriggerCreated, Tick, Invoke
<1> QED
  BY <1>1, <1>2, <1>3, <1>4, <1>5, <1>6

LEMMA StoreStep == Typed /\ Next => StoreTyped'
<1> SUFFICES ASSUME Typed, Next PROVE StoreTyped'
  OBVIOUS
<1>0. StoreTyped /\ WorkTyped /\ batch \subseteq Requests
  BY TypedParts DEF WorkTyped
<1>1. CASE UNCHANGED stored
  BY <1>0, <1>1 DEF StoreTyped, stored
<1>2. ASSUME NEW r \in Requests, Submit(r) PROVE StoreTyped'
  BY <1>0, <1>2 DEF Submit, StoreTyped
<1>3. CASE TakeBatch
  BY <1>0, <1>3 DEF TakeBatch, StoreTyped
<1>4. ASSUME NEW r \in batch, Refuse(r) \/ Ack(r) PROVE StoreTyped'
  BY <1>0, <1>4 DEF Refuse, Ack, Answer, StoreTyped
<1>5. ASSUME NEW r \in batch, CreateTopic(r) PROVE StoreTyped'
  BY <1>0, <1>5, RequestsAssumption DEF CreateTopic, StoreTyped
<1>6. ASSUME NEW r \in batch, CreateTrigger(r) \/ SetStatus(r) \/ Delete(r) PROVE StoreTyped'
  BY <1>0, <1>6, RequestsAssumption DEF CreateTrigger, SetStatus, Delete, StoreTyped
<1>7. ASSUME NEW r \in batch, MakeTopic(r) PROVE StoreTyped'
  <2>1. r.topics[worker.n] \in Topics
    BY <1>7, PublishInHand DEF MakeTopic, Publishes
  <2> QED
    BY <1>0, <1>7, <2>1 DEF MakeTopic, StoreTyped
<1>8. \/ UNCHANGED stored
      \/ (\E r \in Requests : Submit(r)) \/ TakeBatch
      \/ \E r \in batch : \/ Refuse(r) \/ Ack(r) \/ CreateTopic(r) \/ CreateTrigger(r)
                          \/ SetStatus(r) \/ Delete(r) \/ MakeTopic(r)
  BY DEF Next, Start, Setup, Ready, Crash, Invoker, Begin, Handle, EmitCreated, Publish,
    InternalEvents, HandOver, CommitHandedOver, TriggerCreated, Tick, Invoke, CommitInvoked, stored
<1> QED
  BY <1>1, <1>2, <1>3, <1>4, <1>5, <1>6, <1>7, <1>8

LEMMA WorkStep == Typed /\ Next => WorkTyped'
<1> SUFFICES ASSUME Typed, Next PROVE WorkTyped'
  OBVIOUS
<1>0. StoreTyped /\ WorkTyped /\ batch \subseteq Requests /\ LogTyped
  BY TypedParts DEF WorkTyped
<1>1. CASE Setup \/ Ready \/ InternalEvents \/ TriggerCreated \/ \E x \in FixedRates : Tick(x)
  BY <1>0, <1>1 DEF Setup, Ready, InternalEvents, HandOver, CommitHandedOver, TriggerCreated, Tick,
    WorkTyped, stored, Publishes
<1>2. CASE Crash
  BY <1>0, <1>2 DEF Crash, WorkTyped, Idle, stored
<1>3. ASSUME NEW r \in Requests, Submit(r) PROVE WorkTyped'
  BY <1>0, <1>3 DEF Submit, WorkTyped, Publishes, StoreTyped
<1>4. CASE TakeBatch
  BY <1>0, <1>4 DEF TakeBatch, WorkerFree, WorkTyped, Idle, Submitted
<1>5. ASSUME NEW r \in batch, Begin(r) PROVE WorkTyped'
  BY <1>0, <1>5 DEF Begin, WorkTyped, Idle, stored
<1>6. ASSUME NEW r \in batch, Refuse(r) \/ Ack(r) PROVE WorkTyped'
  <2>1. phase' = phase /\ (Answer(r, "Failed") \/ Answer(r, "Completed"))
    BY <1>6 DEF Refuse, Ack, Handling
  <2>2. worker' = Idle /\ batch' = batch \ {r}
        /\ \A q \in Requests : q # r => reqStatus'[q] = reqStatus[q]
    BY <1>0, <2>1 DEF Answer, StoreTyped
  <2> QED
    BY <1>0, <2>1, <2>2 DEF WorkTyped, Idle
<1>7. ASSUME NEW r \in batch,
             CreateTopic(r) \/ CreateTrigger(r) \/ EmitCreated(r) \/ SetStatus(r) \/ Delete(r)
      PROVE  WorkTyped'
  <2>1. /\ \/ worker' = [worker EXCEPT !.at = "ack"]
           \/ worker' = [worker EXCEPT !.at = "emitCreated"] /\ r.kind = "createTrigger"
        /\ ~Publishes(r)
        /\ Handling(r, "handle") \/ Handling(r, "emitCreated")
        /\ phase' = phase /\ batch' = batch /\ reqStatus' = reqStatus
    BY <1>0, <1>7 DEF CreateTopic, CreateTrigger, EmitCreated, SetStatus, Delete, Goto, Handling,
      Publishes, stored, WorkTyped
  <2>2. worker.req = r /\ worker \in [at : {"handle", "emitCreated"}, req : {r}, n : Nat \ {0}]
    BY <2>1, InHand
  <2> QED
    BY <1>0, <2>1, <2>2 DEF WorkTyped, Publishes
<1>8. ASSUME NEW r \in batch, MakeTopic(r) PROVE WorkTyped'
  BY <1>0, <1>8 DEF MakeTopic, Handling, WorkTyped, Publishes
<1>9. ASSUME NEW r \in batch, Publish(r) PROVE WorkTyped'
  <2>1. /\ worker' = [worker EXCEPT !.n = worker.n + 1]
        /\ phase' = phase /\ batch' = batch /\ reqStatus' = reqStatus
    BY <1>9 DEF Publish, Handling, stored
  <2>2. worker \in [at : {"handle"}, req : {r}, n : Nat \ {0}]
    BY <1>9, InHand DEF Publish
  <2> QED
    BY <1>0, <2>1, <2>2 DEF WorkTyped
<1>10. ASSUME NEW x \in EventTriggers, Invoke(x) PROVE WorkTyped'
  <2>1. PICK k \in DOMAIN events[Follows[x]] :
          worker' = [at |-> "commit", consumer |-> x, id |-> events[Follows[x]][k].id]
    BY <1>10 DEF Invoke
  <2>2. events[Follows[x]][k].id \in Nat
    BY <1>0, TopicsAreLogTopics, RowTyped
  <2> QED
    BY <1>0, <1>10, <2>1, <2>2 DEF Invoke, WorkTyped, WorkerFree, stored
<1>11. CASE CommitInvoked
  BY <1>0, <1>11 DEF CommitInvoked, WorkTyped, Idle, stored
<1> QED
  BY <1>1, <1>2, <1>3, <1>4, <1>5, <1>6, <1>7, <1>8, <1>9, <1>10, <1>11
  DEF Next, Start, Invoker, Handle

LEMMA TasksStep == Typed /\ Next => TasksTyped'
<1> SUFFICES ASSUME Typed, Next PROVE TasksTyped'
  OBVIOUS
<1>0. StoreTyped /\ WorkTyped /\ LogTyped /\ TasksTyped /\ MaxTicks \in Nat /\ MaxCrashes \in Nat
  BY TypedParts, BoundsAssumption
<1>1. CASE trigger' = trigger /\ UNCHANGED <<pool, handing, tasks, made, crashes>>
  BY <1>0, <1>1 DEF TasksTyped, tasks, made
<1>2. CASE Setup \/ Ready
  <2>1. schedules' \in [FixedRates -> Nat]
    BY <1>0, <1>2 DEF Setup, Ready, TasksTyped
  <2>2. polling' \subseteq {x \in EventTriggers : trigger'[x] # "None"}
    <3>1. polling' = polling \/ polling' = {x \in EventTriggers : Exists(x)}
      BY <1>2 DEF Setup, Ready
    <3>2. trigger' = trigger
      BY <1>2 DEF Setup, Ready, stored
    <3> QED
      BY <1>0, <3>1, <3>2 DEF TasksTyped, Exists
  <2> QED
    BY <1>0, <1>2, <2>1, <2>2 DEF Setup, Ready, TasksTyped, made
<1>3. CASE Crash
  BY <1>0, <1>3 DEF Crash, TasksTyped, stored, tasks, made, None
<1>4. ASSUME NEW r \in batch, CreateTrigger(r) \/ SetStatus(r) \/ Delete(r) PROVE TasksTyped'
  <2>1. /\ UNCHANGED <<pool, handing, tasks, made, crashes>>
        /\ \A x \in Triggers : trigger[x] # "None" => trigger'[x] # "None"
    BY <1>0, <1>4, RequestsAssumption
    DEF CreateTrigger, SetStatus, Delete, Handling, StoreTyped, WorkTyped
  <2> QED
    BY <1>0, <2>1 DEF TasksTyped, tasks, made, Triggers
<1>5. CASE HandOver
  <2>1. PICK k \in DOMAIN events[CreatedTopic] :
          /\ handing' = {events[CreatedTopic][k].id}
          /\ pool' = Append(pool, events[CreatedTopic][k].value)
    BY <1>5 DEF HandOver
  <2>2. events[CreatedTopic][k].id \in Nat /\ events[CreatedTopic][k].value \in Triggers
    <3>1. events[CreatedTopic][k].value \in Triggers
      BY <1>0 DEF LogTyped
    <3> QED
      BY <1>0, <3>1, TopicsAreLogTopics, RowTyped
  <2>3. pool' \in Seq(Triggers) /\ handing' \subseteq Nat
    BY <1>0, <2>1, <2>2 DEF TasksTyped
  <2> QED
    BY <1>0, <1>5, <2>3 DEF HandOver, TasksTyped, stored, tasks, made
<1>6. CASE CommitHandedOver
  BY <1>0, <1>6 DEF CommitHandedOver, TasksTyped, stored, tasks, made, None
<1>7. CASE TriggerCreated
  BY <1>0, <1>7 DEF TriggerCreated, TasksTyped, stored, made
<1>8. ASSUME NEW x \in FixedRates, Tick(x) PROVE TasksTyped'
  BY <1>0, <1>8 DEF Tick, TasksTyped, stored, tasks
<1>9. ASSUME NEW x \in EventTriggers, Invoke(x) PROVE TasksTyped'
  <2>1. PICK k \in DOMAIN events[Follows[x]] :
          invoked' = [invoked EXCEPT ![x] = Append(invoked[x], events[Follows[x]][k].id)]
    BY <1>9 DEF Invoke
  <2>2. events[Follows[x]][k].id \in Nat
    BY <1>0, TopicsAreLogTopics, RowTyped
  <2> QED
    BY <1>0, <1>9, <2>1, <2>2 DEF Invoke, TasksTyped, stored, tasks
<1>10. \/ trigger' = trigger /\ UNCHANGED <<pool, handing, tasks, made, crashes>>
       \/ Setup \/ Ready \/ Crash \/ HandOver \/ CommitHandedOver \/ TriggerCreated
       \/ (\E r \in batch : CreateTrigger(r) \/ SetStatus(r) \/ Delete(r))
       \/ (\E x \in FixedRates : Tick(x)) \/ (\E x \in EventTriggers : Invoke(x))
  BY DEF Next, Start, Submit, Invoker, TakeBatch, Begin, Handle, Handling, Refuse, CreateTopic,
    EmitCreated, MakeTopic, Publish, Ack, InternalEvents, CommitInvoked, stored
<1> QED
  BY <1>1, <1>2, <1>3, <1>4, <1>5, <1>6, <1>7, <1>8, <1>9, <1>10

LEMMA DownStep == Typed /\ Next => DownIsEmpty'
<1> SUFFICES ASSUME Typed, Next, phase' = "down" PROVE DownIsEmpty'
  BY DEF DownIsEmpty
<1>0. WorkTyped /\ TasksTyped /\ DownIsEmpty
  BY TypedParts
<1>1. CASE Crash
  BY <1>1 DEF Crash, DownIsEmpty
<1>2. CASE phase = "down" /\ ~Crash
  <2>1. batch = {} /\ worker.at = "idle" /\ pool = <<>> /\ handing = {}
    BY <1>0, <1>2 DEF DownIsEmpty, Idle, None
  <2>2. UNCHANGED <<batch, worker, pool, handing, tasks>>
    BY <1>2, <2>1 DEF Next, Start, Setup, Ready, Submit, Invoker, TakeBatch, WorkerFree,
      InternalEvents, HandOver, CommitHandedOver, TriggerCreated, Tick, Invoke, CommitInvoked
  <2> QED
    BY <1>0, <1>2, <2>2 DEF DownIsEmpty, tasks
<1>3. phase = "down" \/ Crash
  BY DEF Next, Start, Setup, Ready, Submit, Invoker, TakeBatch, Begin, Handle, Handling, Refuse,
    CreateTopic, CreateTrigger, EmitCreated, SetStatus, Delete, MakeTopic, Publish, Ack,
    InternalEvents, HandOver, CommitHandedOver, TriggerCreated, Tick, Invoke, CommitInvoked
<1> QED
  BY <1>1, <1>2, <1>3

LEMMA TypedInit == Init => Typed
<1> SUFFICES ASSUME Init PROVE Typed
  OBVIOUS
<1> DEFINE earlier == [t \in LogTopics |->
             IF t # CreatedTopic THEN <<>>
             ELSE [i \in DOMAIN TriggersBefore |-> <<TriggersBefore[i], TriggersBefore[i].trigger>>]]
<1>1. InitBroker(earlier)
  BY DEF Init
<1>2. \A t \in Topics : t \in LogTopics /\ earlier[t] = <<>>
  BY TopicsAssumption
<1>3. /\ earlier[CreatedTopic] \in Seq(Requests \X Triggers)
      /\ DOMAIN earlier[CreatedTopic] = DOMAIN TriggersBefore
      /\ \A i \in DOMAIN TriggersBefore :
           earlier[CreatedTopic][i] = <<TriggersBefore[i], TriggersBefore[i].trigger>>
  <2>1. /\ TriggersBefore \in Seq(Requests)
        /\ \A i \in DOMAIN TriggersBefore :
             TriggersBefore[i] \in Requests /\ TriggersBefore[i].trigger \in Triggers
    BY BeforeAssumption, RequestsAssumption
  <2>2. earlier[CreatedTopic] =
          [i \in DOMAIN TriggersBefore |-> <<TriggersBefore[i], TriggersBefore[i].trigger>>]
    BY TopicsAssumption
  <2> HIDE DEF earlier
  <2> QED
    BY <2>1, <2>2
<1> HIDE DEF earlier
<1>4. \A t \in LogTopics : earlier[t] \in Seq(Requests \X Triggers)
  <2>1. <<>> \in Seq(Requests \X Triggers)
    OBVIOUS
  <2> QED
    BY <1>2, <1>3, <2>1, TopicsAssumption
<1>5. ASSUME NEW t \in LogTopics
      PROVE  /\ events[t] \in Seq(Row)
             /\ DOMAIN events[t] = DOMAIN earlier[t] /\ DOMAIN earlier[t] = 1..Len(earlier[t])
             /\ \A i \in DOMAIN events[t] : events[t][i].id = i /\ events[t][i].value \in Triggers
             /\ sequence[t] = Len(earlier[t]) /\ Len(earlier[t]) \in Nat
  <2>1. events[t] = Rows(earlier[t]) /\ sequence[t] = Len(earlier[t])
    BY <1>1 DEF InitBroker
  <2>2. /\ DOMAIN earlier[t] = 1..Len(earlier[t]) /\ Len(earlier[t]) \in Nat
        /\ \A i \in DOMAIN earlier[t] : earlier[t][i][1] \in Requests /\ earlier[t][i][2] \in Triggers
    BY <1>4
  <2>3. \A i \in DOMAIN earlier[t] :
          [id |-> i, cmd |-> earlier[t][i][1], value |-> earlier[t][i][2]] \in Row
    BY <2>2 DEF Row
  <2> QED
    BY <2>1, <2>2, <2>3 DEF Rows
<1>6. LogTyped
  <2>1. events \in [LogTopics -> Seq(Row)]
    BY <1>1, <1>5 DEF InitBroker
  <2>2. sequence \in [LogTopics -> Nat] /\ nextEventId \in [Consumers -> Nat]
    <3>1. \A c \in Consumers : Len(earlier[Follows[c]]) \in Nat
      BY <1>4, FollowsAssumption
    <3> QED
      BY <1>1, <1>5, <3>1 DEF InitBroker
  <2>3. BrokerTypeOK
    BY <1>5, <2>2 DEF BrokerTypeOK
  <2>4. ASSUME NEW t \in Topics PROVE DOMAIN events[t] = {}
    <3>1. t \in LogTopics /\ earlier[t] = <<>>
      BY <1>2
    <3>2. DOMAIN events[t] = DOMAIN earlier[t]
      BY <1>5, <3>1
    <3> QED
      BY <3>1, <3>2
  <2> QED
    BY <1>5, <2>1, <2>3, <2>4, TopicsAssumption DEF LogTyped
<1>7. StoreTyped
  BY BeforeAssumption, RequestsAssumption DEF Init, StoreTyped
<1>8. WorkTyped /\ TasksTyped /\ DownIsEmpty
  BY BoundsAssumption DEF Init, WorkTyped, TasksTyped, DownIsEmpty, Idle, None
<1> QED
  BY <1>6, <1>7, <1>8, TypedParts

LEMMA TypedStep == Typed /\ [Next]_vars => Typed'
<1>1. Typed /\ UNCHANGED vars => Typed'
  BY DEF Typed, TypeOK, Internal, BrokerTypeOK, vars, broker, stored, tasks, made, Publishes
<1>2. LogTyped' /\ StoreTyped' /\ WorkTyped' /\ TasksTyped' /\ DownIsEmpty' => Typed'
  BY DEF Typed, TypeOK, Internal, LogTyped, StoreTyped, WorkTyped, TasksTyped, DownIsEmpty, Row
<1> QED
  BY <1>1, <1>2, LogStep, StoreStep, WorkStep, TasksStep, DownStep

LEMMA AlwaysTyped == Spec => []Typed
BY TypedInit, TypedStep, PTL DEF Spec

\* The variables keep their types: what the invoker holds is Processing, the
\* ids of a topic grow, and a process that is down holds nothing.
THEOREM TypeCorrect == Spec => []TypeOK
<1>1. Typed => TypeOK
  BY DEF Typed
<1> QED
  BY <1>1, AlwaysTyped, PTL
-----------------------------------------------------------------------------
\* Why the first event is kept. A request that is not being handled and may
\* still be has published nothing; one that is being handled has published to
\* the topics of the events behind it, each time with an earlier number; one
\* that is completed, to all of its topics.
KeptFirst ==
  \A r \in Requests, t \in Topics : Publishes(r) =>
    \A i \in EventsOf(r, t) :
      /\ \A j \in DOMAIN r.topics : r.topics[j] = t => events[t][i].value <= j
      /\ EventsOf(r, t) = {i}

Untouched(r) ==
  \/ reqStatus[r] \in {"None", "Submitted"}
  \/ r \in batch /\ ~(worker.at \in {"handle", "emitCreated", "ack"} /\ worker.req = r)

Fresh ==
  \A r \in Requests : Publishes(r) /\ Untouched(r) => \A t \in Topics : EventsOf(r, t) = {}

Underway ==
  worker.at = "handle" /\ Publishes(worker.req) =>
    /\ \A j \in DOMAIN worker.req.topics :
         j < worker.n => EventsOf(worker.req, worker.req.topics[j]) # {}
    /\ \A t \in Topics : \A i \in EventsOf(worker.req, t) : events[t][i].value < worker.n

Done ==
  \A r \in Requests : Publishes(r) /\ reqStatus[r] = "Completed" =>
    \A j \in DOMAIN r.topics : EventsOf(r, r.topics[j]) # {}

Once == KeptFirst /\ Fresh /\ Underway /\ Done

LEMMA OnceSuffices == Once => FirstEventKept
<1> SUFFICES ASSUME Once, NEW r \in {q \in Requests : Publishes(q)}, NEW t \in Topics
             PROVE  LET mine == {i \in DOMAIN r.topics : r.topics[i] = t} IN
                      /\ \A i \in EventsOf(r, t) : /\ \A j \in mine : events[t][i].value <= j
                                                   /\ EventsOf(r, t) = {i}
                      /\ reqStatus[r] = "Completed" /\ mine # {} => EventsOf(r, t) # {}
  BY DEF FirstEventKept
<1> QED
  BY DEF Once, KeptFirst, Done

\* Nothing but the publication of a request touches the topics.
LEMMA TopicsQuiet ==
  ASSUME Typed, Next, \A r \in batch : ~Publish(r)
  PROVE  \A t \in Topics : events'[t] = events[t]
<1>0. LogTyped /\ WorkTyped /\ batch \subseteq Requests
  BY TypedParts DEF WorkTyped
<1>1. CASE UNCHANGED events
  BY <1>1
<1>2. ASSUME NEW r \in batch, EmitCreated(r)
      PROVE  \A t \in Topics : events'[t] = events[t]
  <2>1. AppendEvent(r, CreatedTopic, r.trigger)
    BY <1>2 DEF EmitCreated
  <2> QED
    BY <1>0, <2>1, TopicsAssumption DEF AppendEvent, LogTyped
<1>3. UNCHANGED events \/ \E r \in batch : EmitCreated(r)
  BY DEF Next, Start, Setup, Ready, Crash, Submit, Invoker, TakeBatch, Begin, Handle, Refuse,
    CreateTopic, CreateTrigger, SetStatus, Delete, MakeTopic, Ack, InternalEvents, HandOver,
    CommitHandedOver, TriggerCreated, Tick, Invoke, CommitInvoked, Commit, broker
<1> QED
  BY <1>1, <1>2, <1>3

\* A step that is not a publication leaves each request's events as they are.
LEMMA EventsOfQuiet ==
  ASSUME \A t \in Topics : events'[t] = events[t]
  PROVE  \A r \in Requests, t \in Topics : EventsOf(r, t)' = EventsOf(r, t)
BY DEF EventsOf

LEMMA StaysUntouched ==
  ASSUME Typed, Next, NEW q \in Requests, Untouched(q)'
  PROVE  Untouched(q)
<1>0. WorkTyped /\ StoreTyped /\ batch \subseteq Requests
  BY TypedParts DEF WorkTyped
<1>1. CASE reqStatus' = reqStatus /\ batch' = batch
           /\ (worker' = worker \/ batch = {})
  BY <1>1 DEF Untouched
<1>2. ASSUME NEW r \in Requests, Submit(r) PROVE Untouched(q)
  BY <1>0, <1>2 DEF Submit, Untouched, StoreTyped
<1>3. CASE TakeBatch
  BY <1>0, <1>3 DEF TakeBatch, Untouched, WorkerFree, Submitted, Idle
<1>4. CASE Crash
  BY <1>4 DEF Crash, Untouched, stored
<1>5. ASSUME NEW r \in batch, Begin(r) PROVE Untouched(q)
  BY <1>5 DEF Begin, Untouched, stored, Idle
<1>6. ASSUME NEW r \in batch, Refuse(r) \/ Ack(r) PROVE Untouched(q)
  <2>1. Answer(r, "Failed") \/ Answer(r, "Completed")
    BY <1>6 DEF Refuse, Ack
  <2>2. worker.req = r
    BY <1>6 DEF Refuse, Ack, Handling
  <2> QED
    BY <1>0, <2>1, <2>2 DEF Answer, Untouched, StoreTyped
<1>7. ASSUME NEW r \in batch, NEW next \in {"handle", "emitCreated", "ack"},
             worker'.at = next, worker'.req = worker.req,
             worker.at \in {"handle", "emitCreated", "ack"},
             batch' = batch, reqStatus' = reqStatus
      PROVE  Untouched(q)
  BY <1>7 DEF Untouched
<1>8. ASSUME NEW r \in batch,
             \/ CreateTopic(r) \/ CreateTrigger(r) \/ EmitCreated(r) \/ SetStatus(r)
             \/ Delete(r) \/ Publish(r)
      PROVE  Untouched(q)
  <2>1. /\ Handling(r, "handle") \/ Handling(r, "emitCreated")
        /\ batch' = batch /\ reqStatus' = reqStatus
        /\ \/ worker' = [worker EXCEPT !.at = "ack"]
           \/ worker' = [worker EXCEPT !.at = "emitCreated"]
           \/ worker' = [worker EXCEPT !.n = worker.n + 1] /\ worker.at = "handle"
    BY <1>8 DEF CreateTopic, CreateTrigger, EmitCreated, SetStatus, Delete, Publish, Goto, stored,
      Handling
  <2>2. worker \in [at : {"handle", "emitCreated"}, req : {r}, n : Nat \ {0}]
    BY <2>1, InHand
  <2> QED
    BY <1>7, <2>1, <2>2
<1>9. ASSUME NEW x \in EventTriggers, Invoke(x) PROVE Untouched(q)
  BY <1>1, <1>9 DEF Invoke, WorkerFree, stored
<1>10. CASE CommitInvoked
  BY <1>0, <1>1, <1>10 DEF CommitInvoked, WorkTyped, Idle, stored
<1>11. ASSUME NEW r \in batch, MakeTopic(r) PROVE Untouched(q)
  BY <1>1, <1>11 DEF MakeTopic
<1>12. CASE Start \/ InternalEvents \/ TriggerCreated \/ \E x \in FixedRates : Tick(x)
  BY <1>1, <1>12 DEF Start, Setup, Ready, InternalEvents, HandOver, CommitHandedOver,
    TriggerCreated, Tick, stored
<1> QED
  BY <1>2, <1>3, <1>4, <1>5, <1>6, <1>8, <1>9, <1>10, <1>11, <1>12 DEF Next, Invoker, Handle

LEMMA OnceInit == Init => Once
<1> SUFFICES ASSUME Init PROVE Once
  OBVIOUS
<1>1. \A t \in Topics : events[t] = <<>>
  BY TopicsAssumption DEF Init, InitBroker, Rows
<1>2. \A r \in Requests, t \in Topics : EventsOf(r, t) = {}
  BY <1>1 DEF EventsOf
<1>3. \A r \in Requests : reqStatus[r] = "Completed" => ~Publishes(r)
  BY BeforeAssumption DEF Init, HandledBefore, Publishes
<1> QED
  BY <1>2, <1>3 DEF Once, KeptFirst, Fresh, Underway, Done, Init, Idle

\* A step that publishes nothing only takes requests on or answers them.
LEMMA OnceQuiet ==
  ASSUME Typed, Once, Next, \A r \in batch : ~Publish(r)
  PROVE  Once'
<1>0. /\ WorkTyped /\ StoreTyped /\ LogTyped /\ batch \subseteq Requests
      /\ \A t \in Topics : events'[t] = events[t]
      /\ \A r \in Requests, t \in Topics : EventsOf(r, t)' = EventsOf(r, t)
  BY TypedParts, TopicsQuiet, EventsOfQuiet DEF WorkTyped
<1>1. KeptFirst'
  BY <1>0 DEF Once, KeptFirst, Publishes
<1>2. Fresh'
  BY <1>0, StaysUntouched DEF Once, Fresh, Publishes
<1>3. Underway'
  <2>1. CASE worker' = worker
    <3>1. ASSUME worker.at = "handle", Publishes(worker.req)
          PROVE  worker.req \in Requests /\ worker.req.topics \in Seq(Topics)
      BY <1>0, <3>1, RequestsAssumption DEF WorkTyped, Publishes, Idle
    <3> QED
      BY <1>0, <2>1, <3>1 DEF Once, Underway, Publishes
  <2>2. ASSUME NEW r \in batch, Begin(r) PROVE Underway'
    <3>1. r \in Requests /\ worker' = [at |-> "handle", req |-> r, n |-> 1]
          /\ (Publishes(r) => \A t \in Topics : EventsOf(r, t) = {})
      BY <1>0, <2>2 DEF Begin, Once, Fresh, Untouched, Idle
    <3>2. Publishes(r) => r.topics \in Seq(Topics)
      BY <3>1, RequestsAssumption DEF Publishes
    <3> QED
      BY <1>0, <3>1, <3>2 DEF Underway, Publishes
  <2>3. CASE worker'.at # "handle"
    BY <2>3 DEF Underway
  <2>4. worker' = worker \/ worker'.at # "handle" \/ \E r \in batch : Begin(r)
    <3>1. ASSUME NEW r \in batch,
                 CreateTopic(r) \/ CreateTrigger(r) \/ EmitCreated(r) \/ SetStatus(r) \/ Delete(r)
          PROVE  worker'.at # "handle"
      <4>1. /\ Handling(r, "handle") \/ Handling(r, "emitCreated")
            /\ \/ worker' = [worker EXCEPT !.at = "ack"]
               \/ worker' = [worker EXCEPT !.at = "emitCreated"]
        BY <3>1 DEF CreateTopic, CreateTrigger, EmitCreated, SetStatus, Delete, Goto
      <4>2. worker \in [at : {"handle", "emitCreated"}, req : {r}, n : Nat \ {0}]
        BY <4>1, InHand
      <4> QED
        BY <4>1, <4>2
    <3> QED
      BY <3>1 DEF Next, Start, Setup, Ready, Crash, Submit, Invoker, TakeBatch, Handle, Refuse, Ack,
        Answer, MakeTopic, InternalEvents, HandOver, CommitHandedOver, TriggerCreated, Tick,
        Invoke, CommitInvoked, Idle
  <2> QED
    BY <2>1, <2>2, <2>3, <2>4
<1>4. Done'
  <2>1. ASSUME NEW r \in Requests, reqStatus'[r] = "Completed", reqStatus[r] # "Completed",
               Publishes(r)
        PROVE  \A j \in DOMAIN r.topics : EventsOf(r, r.topics[j]) # {}
    <3>1. Ack(r)
      BY <1>0, <2>1 DEF Next, Start, Setup, Ready, Crash, Submit, Invoker, TakeBatch, Begin, Handle,
        Refuse, CreateTopic, CreateTrigger, EmitCreated, SetStatus, Delete, MakeTopic, Publish, Ack,
        Answer, InternalEvents, HandOver, CommitHandedOver, TriggerCreated, Tick, Invoke,
        CommitInvoked, stored, StoreTyped, Handling
    <3>2. worker.at = "handle" /\ worker.req = r /\ worker.n > Len(r.topics)
      BY <1>0, <2>1, <3>1 DEF Ack, Handling, WorkTyped
    <3>3. r.topics \in Seq(Topics) /\ worker.n \in Nat
      BY <1>0, <2>1, <3>2, RequestsAssumption DEF Publishes, WorkTyped, Idle
    <3> QED
      BY <2>1, <3>2, <3>3 DEF Once, Underway
  <2>2. \A r \in Requests : Publishes(r) => r.topics \in Seq(Topics)
    BY RequestsAssumption DEF Publishes
  <2> QED
    BY <1>0, <2>1, <2>2 DEF Once, Done, Publishes
<1> QED
  BY <1>1, <1>2, <1>3, <1>4 DEF Once

\* A publication adds the first row of the request to the topic, or none.
LEMMA OncePublish ==
  ASSUME Typed, Once, Next, NEW r \in batch, Publish(r)
  PROVE  Once'
<1>0. /\ WorkTyped /\ StoreTyped /\ LogTyped /\ r \in Requests
      /\ \A q \in Requests : Publishes(q) => q.topics \in Seq(Topics)
  BY TypedParts, RequestsAssumption DEF WorkTyped, Publishes
<1>p. PICK n \in Nat, t \in Topics : n = worker.n /\ t = r.topics[worker.n]
  BY PublishInHand, InHand DEF Publish
<1>1. /\ Publishes(r) /\ r.topics \in Seq(Topics) /\ n \in DOMAIN r.topics /\ t \in Topics
      /\ n \in Nat /\ t \in LogTopics
      /\ worker \in [at : {"handle"}, req : {r}, n : Nat \ {0}]
      /\ worker' = [worker EXCEPT !.n = n + 1]
      /\ reqStatus' = reqStatus /\ batch' = batch
  BY <1>p, PublishInHand, InHand, TopicsAssumption DEF Publish, stored, Handling
<1>2. /\ \A u \in LogTopics : u # t => events'[u] = events[u]
      /\ IF EventsOf(r, t) # {} THEN events' = events
         ELSE /\ Len(events'[t]) = Len(events[t]) + 1
              /\ \A k \in DOMAIN events[t] : events'[t][k] = events[t][k]
              /\ events'[t][Len(events[t]) + 1].cmd = r
              /\ events'[t][Len(events[t]) + 1].value = n
      /\ events' \in [LogTopics -> Seq(Row)]
  <2>1. AppendEvent(r, t, n) /\ n \in Nat \cup Triggers
    BY <1>p DEF Publish
  <2> QED
    BY <1>0, <1>1, <2>1, AppendKeepsLog DEF LogTyped
<1>3. /\ DOMAIN events[t] = 1..Len(events[t]) /\ Len(events[t]) \in Nat
      /\ DOMAIN events'[t] = 1..Len(events'[t])
  BY <1>0, <1>1, <1>2 DEF LogTyped
\* What is in the topics afterwards.
<1>4. ASSUME NEW q \in Requests, NEW u \in Topics, q # r \/ u # t
      PROVE  /\ EventsOf(q, u)' = EventsOf(q, u)
             /\ \A i \in EventsOf(q, u) : events'[u][i] = events[u][i]
  <2>1. CASE events'[u] = events[u]
    BY <2>1 DEF EventsOf
  <2>2. CASE u = t /\ q # r /\ EventsOf(r, t) = {}
    <3>1. /\ \A k \in DOMAIN events[t] : events'[t][k] = events[t][k]
          /\ DOMAIN events'[t] = DOMAIN events[t] \cup {Len(events[t]) + 1}
          /\ events'[t][Len(events[t]) + 1].cmd # q
      BY <1>2, <1>3, <2>2
    <3> QED
      BY <2>2, <3>1 DEF EventsOf
  <2> QED
    BY <1>2, <1>4, <2>1, <2>2, TopicsAssumption
<1>5. CASE EventsOf(r, t) # {}
  <2>1. \A q \in Requests, u \in Topics : EventsOf(q, u)' = EventsOf(q, u)
    BY <1>2, <1>5 DEF EventsOf
  <2>2. events' = events
    BY <1>2, <1>5
  <2>3. KeptFirst' /\ Fresh' /\ Done'
    BY <1>0, <1>1, <2>1, <2>2, StaysUntouched DEF Once, KeptFirst, Fresh, Done, Publishes
  <2>4. Underway'
    <3>1. worker'.req = r /\ worker'.n = n + 1 /\ worker.req = r /\ worker.n = n /\ worker.at = "handle"
      BY <1>1, <1>p
    <3>2. /\ \A j \in DOMAIN r.topics : j < n => EventsOf(r, r.topics[j]) # {}
          /\ \A u \in Topics : \A i \in EventsOf(r, u) : events[u][i].value < n
      BY <1>1, <3>1 DEF Once, Underway
    <3>3. \A j \in DOMAIN r.topics : j < n + 1 => EventsOf(r, r.topics[j]) # {}
      BY <1>1, <1>5, <3>2, <1>p
    <3>4. \A u \in Topics : \A i \in EventsOf(r, u) : events[u][i].value < n + 1
      <4>1. \A u \in Topics : \A i \in EventsOf(r, u) : events[u][i].value \in Nat
        BY <1>0 DEF LogTyped, EventsOf
      <4> QED
        BY <1>1, <3>2, <4>1
    <3>5. \A j \in DOMAIN r.topics : r.topics[j] \in Topics
      BY <1>1
    <3> QED
      BY <1>0, <2>1, <2>2, <3>1, <3>3, <3>4, <3>5 DEF Underway, Publishes
  <2> QED
    BY <2>3, <2>4 DEF Once
<1>6. CASE EventsOf(r, t) = {}
  <2>1. /\ EventsOf(r, t)' = {Len(events[t]) + 1}
        /\ events'[t][Len(events[t]) + 1].value = n
    <3>1. /\ Len(events'[t]) = Len(events[t]) + 1
          /\ \A k \in DOMAIN events[t] : events'[t][k] = events[t][k]
          /\ events'[t][Len(events[t]) + 1].cmd = r
          /\ events'[t][Len(events[t]) + 1].value = n
      BY <1>2, <1>6
    <3>2. DOMAIN events'[t] = DOMAIN events[t] \cup {Len(events[t]) + 1}
      BY <1>3, <3>1
    <3>3. \A k \in DOMAIN events[t] : events'[t][k].cmd # r
      BY <1>6, <3>1 DEF EventsOf
    <3>4. EventsOf(r, t)' = {k \in DOMAIN events'[t] : events'[t][k].cmd = r}
      BY DEF EventsOf
    <3>5. EventsOf(r, t)' = {Len(events[t]) + 1}
      BY <3>1, <3>2, <3>3, <3>4
    <3> QED
      BY <3>1, <3>5
  <2>2. worker'.req = r /\ worker'.n = n + 1 /\ worker.req = r /\ worker.n = n /\ worker.at = "handle"
    BY <1>1, <1>p
  <2>3. /\ \A j \in DOMAIN r.topics : j < n => EventsOf(r, r.topics[j]) # {}
        /\ \A u \in Topics : \A i \in EventsOf(r, u) : events[u][i].value < n
    BY <1>1, <2>2 DEF Once, Underway
  <2>4. KeptFirst'
    <3>1. \A j \in DOMAIN r.topics : r.topics[j] = t => n <= j
      BY <1>1, <1>6, <2>3
    <3>2. ASSUME NEW q \in Requests, NEW u \in Topics, Publishes(q), NEW i \in EventsOf(q, u)'
          PROVE  /\ \A j \in DOMAIN q.topics : q.topics[j] = u => events'[u][i].value <= j
                 /\ EventsOf(q, u)' = {i}
      <4>1. CASE q = r /\ u = t
        BY <2>1, <3>1, <3>2, <4>1
      <4>2. CASE q # r \/ u # t
        BY <1>4, <3>2, <4>2 DEF Once, KeptFirst
      <4> QED
        BY <4>1, <4>2
    <3> QED
      BY <3>2 DEF KeptFirst, Publishes
  <2>5. Fresh'
    <3>1. ~Untouched(r)'
      BY <1>0, <1>1 DEF Untouched, WorkTyped
    <3> QED
      BY <1>4, <3>1, StaysUntouched DEF Once, Fresh, Publishes
  <2>6. Underway'
    <3>1. \A j \in DOMAIN r.topics : j < n + 1 => EventsOf(r, r.topics[j])' # {}
      <4>1. ASSUME NEW j \in DOMAIN r.topics, j < n + 1 PROVE EventsOf(r, r.topics[j])' # {}
        <5>1. CASE r.topics[j] = t
          BY <2>1, <5>1
        <5>2. CASE r.topics[j] # t
          <6>1. r.topics[j] \in Topics /\ j < n
            BY <1>1, <4>1, <5>2, <1>p
          <6> QED
            BY <1>4, <2>3, <5>2, <6>1, <1>0
        <5> QED
          BY <5>1, <5>2
      <4> QED
        BY <4>1
    <3>2. ASSUME NEW u \in Topics, NEW i \in EventsOf(r, u)'
          PROVE  events'[u][i].value < n + 1
      <4>1. CASE u = t
        BY <1>1, <2>1, <3>2, <4>1
      <4>2. CASE u # t
        <5>1. i \in EventsOf(r, u) /\ events'[u][i].value = events[u][i].value
          BY <1>0, <1>4, <3>2, <4>2
        <5>2. events[u][i].value \in Nat
          BY <1>0, <5>1 DEF LogTyped, EventsOf
        <5> QED
          BY <1>1, <2>3, <5>1, <5>2
      <4> QED
        BY <4>1, <4>2
    <3> QED
      BY <2>2, <3>1, <3>2 DEF Underway
  <2>7. Done'
    <3>1. reqStatus[r] = "Processing"
      BY <1>0 DEF WorkTyped
    <3> QED
      BY <1>0, <1>1, <1>4, <3>1 DEF Once, Done, Publishes
  <2> QED
    BY <2>4, <2>5, <2>6, <2>7 DEF Once
<1> QED
  BY <1>5, <1>6

\* Of the events a request publishes to a topic the log keeps the first and only
\* that one, in whatever order requests are handled and wherever a crash falls.
THEOREM FirstKept == Spec => []FirstEventKept
<1>1. Typed /\ Once /\ [Next]_vars => Once'
  <2>1. Typed /\ Once /\ UNCHANGED vars => Once'
    BY DEF Once, KeptFirst, Fresh, Underway, Done, Untouched, EventsOf, Publishes, vars, broker, stored
  <2> QED
    BY <2>1, OnceQuiet, OncePublish
<1> QED
  BY <1>1, AlwaysTyped, OnceInit, OnceSuffices, PTL DEF Spec
-----------------------------------------------------------------------------
\* Why event triggers keep to the order of the log. What a trigger has committed
\* is either behind the last row it invoked for, or that row is still the first
\* unread one: then a crash has come between the two calls, once for every
\* repetition, or the commit is the worker's next call.
Last(x) == invoked[x][Len(invoked[x])]

Committing(x) == worker.at = "commit" /\ worker.consumer = x

Owing(x) == invoked[x] # <<>> /\ nextEventId[x] <= Last(x) /\ ~Committing(x)

AtRow(x) ==
  \E k \in DOMAIN events[Follows[x]] :
    /\ events[Follows[x]][k].id = Last(x)
    /\ \/ nextEventId[x] = Last(x) + 1
       \/ /\ nextEventId[x] <= Last(x)
          /\ \A j \in 1..(k - 1) : events[Follows[x]][j].id < nextEventId[x]

InStep(x) ==
  /\ \A i \in DOMAIN invoked[x] : NextInLog(x, i)
  /\ invoked[x] = <<>> => nextEventId[x] = 0
  /\ invoked[x] # <<>> => AtRow(x)
  /\ Committing(x) => invoked[x] # <<>> /\ worker.id = Last(x)

Counted(x) == Cardinality(Repeats(x)) + (IF Owing(x) THEN 1 ELSE 0) <= crashes

Orderly == \A x \in EventTriggers : InStep(x) /\ Counted(x)

\* What the rest of the system does: the log grows, and the trigger's offset and
\* the worker's commit are left alone.
Aside ==
  /\ invoked' = invoked /\ crashes' = crashes
  /\ \A x \in EventTriggers : nextEventId'[x] = nextEventId[x]
  /\ \A t \in Topics : \A k \in DOMAIN events[t] :
       k \in DOMAIN events'[t] /\ events'[t][k] = events[t][k]
  /\ worker' = worker \/ (worker.at # "commit" /\ worker'.at # "commit")

LEMMA RepeatsFinite ==
  ASSUME Typed, NEW x \in EventTriggers
  PROVE  /\ Len(invoked[x]) \in Nat /\ DOMAIN invoked[x] = 1..Len(invoked[x])
         /\ IsFiniteSet(Repeats(x)) /\ Cardinality(Repeats(x)) \in Nat
<1>1. Len(invoked[x]) \in Nat /\ DOMAIN invoked[x] = 1..Len(invoked[x])
  BY TypedParts DEF TasksTyped
<1>2. IsFiniteSet(1..Len(invoked[x]))
  BY <1>1, FS_Interval
<1>3. Repeats(x) \subseteq 1..Len(invoked[x])
  BY <1>1 DEF Repeats
<1> QED
  BY <1>1, <1>2, <1>3, FS_Subset, FS_CardinalityType

LEMMA OrderlySuffices == Typed /\ Orderly => InvokedInOrder
<1> SUFFICES ASSUME Typed, Orderly, NEW x \in EventTriggers
             PROVE  /\ \A i \in DOMAIN invoked[x] : NextInLog(x, i)
                    /\ Cardinality(Repeats(x)) <= crashes
  BY DEF InvokedInOrder
<1>1. Cardinality(Repeats(x)) \in Nat /\ crashes \in Nat
  BY RepeatsFinite, TypedParts, BoundsAssumption DEF TasksTyped
<1>2. InStep(x) /\ Counted(x)
  BY DEF Orderly
<1> QED
  BY <1>1, <1>2 DEF InStep, Counted

LEMMA OrderlyInit == Init => Orderly
<1> SUFFICES ASSUME Init, NEW x \in EventTriggers PROVE InStep(x) /\ Counted(x)
  BY DEF Orderly
<1>1. invoked[x] = <<>> /\ nextEventId[x] = 0 /\ worker.at = "idle" /\ crashes = 0
  BY TopicsAssumption DEF Init, InitBroker, Idle
<1>2. Repeats(x) = {}
  BY <1>1 DEF Repeats
<1>3. Cardinality(Repeats(x)) = 0
  BY <1>2, FS_EmptySet
<1> QED
  BY <1>1, <1>3 DEF InStep, Counted, Owing, Committing

LEMMA OrderlyAside == Typed /\ Orderly /\ Aside => Orderly'
<1> SUFFICES ASSUME Typed, Orderly, Aside, NEW x \in EventTriggers
             PROVE  InStep(x)' /\ Counted(x)'
  BY DEF Orderly
<1>1. /\ invoked'[x] = invoked[x] /\ nextEventId'[x] = nextEventId[x] /\ crashes' = crashes
      /\ Committing(x)' = Committing(x)
      /\ Follows[x] \in Topics
      /\ InStep(x) /\ Counted(x)
      /\ \A k \in DOMAIN events[Follows[x]] :
           k \in DOMAIN events'[Follows[x]] /\ events'[Follows[x]][k] = events[Follows[x]][k]
  BY TopicsAreLogTopics DEF Aside, Committing, Orderly
<1>2. /\ Last(x)' = Last(x) /\ Owing(x)' = Owing(x) /\ Repeats(x)' = Repeats(x)
  BY <1>1 DEF Last, Owing, Repeats
<1>3. \A k \in DOMAIN events[Follows[x]] : \A j \in 1..(k - 1) : j \in DOMAIN events[Follows[x]]
  <2>1. events[Follows[x]] \in Seq(Row)
    BY <1>1, TypedParts, TopicsAssumption DEF LogTyped
  <2> QED
    BY <2>1
<1>4. \A i \in DOMAIN invoked[x] : NextInLog(x, i)'
  <2> SUFFICES ASSUME NEW i \in DOMAIN invoked[x] PROVE NextInLog(x, i)'
    OBVIOUS
  <2>1. PICK k \in DOMAIN events[Follows[x]] :
          /\ invoked[x][i] = events[Follows[x]][k].id
          /\ \/ i = 1 /\ k = 1
             \/ i > 1 /\ invoked[x][i - 1] = events[Follows[x]][k].id
             \/ i > 1 /\ k > 1 /\ invoked[x][i - 1] = events[Follows[x]][k - 1].id
    BY <1>1 DEF InStep, NextInLog
  <2>2. k > 1 => k - 1 \in DOMAIN events[Follows[x]]
    <3>1. events[Follows[x]] \in Seq(Row)
      BY <1>1, TypedParts, TopicsAssumption DEF LogTyped
    <3> QED
      BY <3>1
  <2> QED
    BY <1>1, <2>1, <2>2 DEF NextInLog
<1>5. AtRow(x) => AtRow(x)'
  BY <1>1, <1>2, <1>3 DEF AtRow
<1>6. Committing(x) => worker' = worker
  BY DEF Aside, Committing
<1> QED
  BY <1>1, <1>2, <1>4, <1>5, <1>6 DEF InStep, Counted

\* An invocation is for the next row, or for the last one again when its commit
\* was lost.
LEMMA OrderlyInvoke ==
  ASSUME Typed, Orderly, NEW y \in EventTriggers, Invoke(y)
  PROVE  Orderly'
<1>0. LogTyped /\ TasksTyped /\ crashes \in Nat
  BY TypedParts, BoundsAssumption DEF TasksTyped
<1>1. PICK k \in DOMAIN events[Follows[y]] :
        /\ FirstUnread(y, k)
        /\ invoked' = [invoked EXCEPT ![y] = Append(invoked[y], events[Follows[y]][k].id)]
        /\ worker' = [at |-> "commit", consumer |-> y, id |-> events[Follows[y]][k].id]
  BY DEF Invoke
<1> DEFINE rows == events[Follows[y]]
           id == rows[k].id
<1>2. /\ events' = events /\ nextEventId' = nextEventId /\ crashes' = crashes
      /\ worker.at = "idle"
  BY DEF Invoke, broker, WorkerFree, Idle
<1>3. ASSUME NEW x \in EventTriggers, x # y PROVE InStep(x)' /\ Counted(x)'
  <2>1. /\ invoked'[x] = invoked[x] /\ nextEventId'[x] = nextEventId[x]
        /\ ~Committing(x) /\ ~Committing(x)' /\ InStep(x) /\ Counted(x)
    BY <1>0, <1>1, <1>2, <1>3 DEF Committing, Orderly, TasksTyped
  <2>2. Last(x)' = Last(x) /\ Owing(x)' = Owing(x) /\ Repeats(x)' = Repeats(x) /\ AtRow(x)' = AtRow(x)
        /\ \A i : NextInLog(x, i)' = NextInLog(x, i)
    BY <1>2, <2>1 DEF Last, Owing, Repeats, AtRow, NextInLog
  <2> QED
    BY <1>2, <2>1, <2>2 DEF InStep, Counted
<1>4. /\ InStep(y) /\ Counted(y) /\ ~Committing(y)
      /\ rows \in Seq(Row) /\ DOMAIN rows = 1..Len(rows) /\ Len(rows) \in Nat
      /\ invoked[y] \in Seq(Nat) /\ id \in Nat /\ nextEventId[y] \in Nat
      /\ \A i \in DOMAIN rows : rows[i].id \in Nat
      /\ \A i \in DOMAIN rows : \A j \in 1..(i - 1) : rows[j].id < rows[i].id
  <2>1. Follows[y] \in LogTopics /\ y \in Consumers
    BY TopicsAreLogTopics
  <2> QED
    BY <1>0, <1>2, <2>1, RowTyped DEF Orderly, Committing, LogTyped, BrokerTypeOK, TasksTyped
<1>5. /\ k \in 1..Len(rows) /\ nextEventId[y] <= id
      /\ \A j \in 1..(k - 1) : rows[j].id < nextEventId[y]
  <2>1. k \in Unread(y) /\ \A j \in Unread(y) : k <= j
    BY <1>1 DEF FirstUnread
  <2>2. nextEventId[y] <= id
    BY <1>4, <2>1 DEF Unread
  <2>3. ASSUME NEW j \in 1..(k - 1) PROVE rows[j].id < nextEventId[y]
    <3>1. j \in DOMAIN rows /\ ~(k <= j)
      BY <1>4
    <3>2. j \notin Unread(y)
      BY <2>1, <3>1
    <3> QED
      BY <1>4, <3>1, <3>2 DEF Unread
  <2> QED
    BY <1>4, <2>2, <2>3
<1>6. /\ invoked'[y] = Append(invoked[y], id)
      /\ Len(invoked'[y]) = Len(invoked[y]) + 1 /\ Len(invoked[y]) \in Nat
      /\ DOMAIN invoked'[y] = 1..(Len(invoked[y]) + 1) /\ DOMAIN invoked[y] = 1..Len(invoked[y])
      /\ invoked'[y][Len(invoked[y]) + 1] = id
      /\ \A i \in 1..Len(invoked[y]) : invoked'[y][i] = invoked[y][i]
      /\ Last(y)' = id /\ invoked'[y] # <<>> /\ Committing(y)'
      /\ nextEventId'[y] = nextEventId[y]
  <2>1. invoked'[y] = Append(invoked[y], id)
    BY <1>0, <1>1 DEF TasksTyped
  <2>2. Committing(y)' /\ nextEventId'[y] = nextEventId[y]
    BY <1>1, <1>2 DEF Committing
  <2> HIDE DEF id, rows
  <2>3. /\ Len(invoked'[y]) = Len(invoked[y]) + 1 /\ Len(invoked[y]) \in Nat
        /\ DOMAIN invoked'[y] = 1..(Len(invoked[y]) + 1) /\ DOMAIN invoked[y] = 1..Len(invoked[y])
        /\ invoked'[y][Len(invoked[y]) + 1] = id
        /\ \A i \in 1..Len(invoked[y]) : invoked'[y][i] = invoked[y][i]
    BY <1>4, <2>1
  <2>4. Last(y)' = id
    BY <2>3 DEF Last
  <2>5. invoked'[y] # <<>>
    BY <2>3
  <2> QED
    BY <2>1, <2>2, <2>3, <2>4, <2>5
<1> HIDE DEF id
\* The row is the first, the last one again, or the one after it.
<1>7. \/ invoked[y] = <<>> /\ k = 1
      \/ invoked[y] # <<>> /\ Last(y) = id /\ Owing(y)
      \/ invoked[y] # <<>> /\ k > 1 /\ Last(y) = rows[k - 1].id /\ Last(y) # id
  <2>1. CASE invoked[y] = <<>>
    <3>1. nextEventId[y] = 0
      BY <1>4, <2>1 DEF InStep
    <3>2. CASE k # 1
      <4>1. 1 \in 1..(k - 1) /\ 1 \in DOMAIN rows
        BY <1>4, <1>5, <3>2
      <4> QED
        BY <1>4, <1>5, <3>1, <4>1
    <3> QED
      BY <2>1, <3>2
  <2>2. CASE invoked[y] # <<>>
    <3>1. PICK l \in DOMAIN rows :
            /\ rows[l].id = Last(y)
            /\ \/ nextEventId[y] = Last(y) + 1
               \/ /\ nextEventId[y] <= Last(y)
                  /\ \A j \in 1..(l - 1) : rows[j].id < nextEventId[y]
      BY <1>4, <2>2 DEF InStep, AtRow
    <3>2. l \in Nat /\ k \in Nat /\ Last(y) \in Nat /\ l >= 1 /\ k >= 1
      BY <1>4, <1>5, <3>1
    <3>3. CASE nextEventId[y] = Last(y) + 1
      <4>1. ~(k <= l)
        <5>1. CASE k = l
          BY <1>5, <3>1, <3>2, <3>3, <5>1 DEF id
        <5>2. CASE k < l
          <6>1. k \in 1..(l - 1)
            BY <3>2, <5>2
          <6>2. rows[k].id < rows[l].id
            BY <1>4, <6>1
          <6> QED
            BY <1>4, <1>5, <3>1, <3>2, <3>3, <6>2 DEF id
        <5> QED
          BY <3>2, <5>1, <5>2
      <4>2. ~(l + 1 < k)
        <5> SUFFICES ASSUME l + 1 < k PROVE FALSE
          OBVIOUS
        <5>1. l + 1 \in 1..(k - 1) /\ l + 1 \in DOMAIN rows /\ l \in 1..((l + 1) - 1)
          BY <1>4, <1>5, <3>2
        <5>2. rows[l].id < rows[l + 1].id /\ rows[l + 1].id < nextEventId[y]
          BY <1>4, <1>5, <5>1
        <5>3. rows[l + 1].id \in Nat
          BY <1>4, <5>1
        <5> QED
          BY <3>1, <3>2, <3>3, <5>2, <5>3
      <4>3. k = l + 1
        BY <3>2, <4>1, <4>2
      <4>4. Last(y) # id
        BY <1>4, <1>5, <3>2, <3>3
      <4> QED
        BY <2>2, <3>1, <3>2, <4>3, <4>4
    <3>4. CASE nextEventId[y] <= Last(y) /\ \A j \in 1..(l - 1) : rows[j].id < nextEventId[y]
      <4>1. k = l
        <5>1. ~(k < l)
          <6> SUFFICES ASSUME k < l PROVE FALSE
            OBVIOUS
          <6>1. k \in 1..(l - 1)
            BY <3>2
          <6>2. rows[k].id < nextEventId[y]
            BY <3>4, <6>1
          <6> QED
            BY <1>4, <1>5, <6>2 DEF id
        <5>2. ~(l < k)
          <6> SUFFICES ASSUME l < k PROVE FALSE
            OBVIOUS
          <6>1. l \in 1..(k - 1)
            BY <3>2
          <6>2. rows[l].id < nextEventId[y]
            BY <1>5, <6>1
          <6> QED
            BY <1>4, <3>1, <3>2, <3>4, <6>2
        <5> QED
          BY <3>2, <5>1, <5>2
      <4>2. Last(y) = id /\ Owing(y)
        BY <1>4, <2>2, <3>1, <3>4, <4>1 DEF Owing, id
      <4> QED
        BY <2>2, <4>2
    <3> QED
      BY <3>1, <3>3, <3>4
  <2> QED
    BY <2>1, <2>2
<1>8. \A i \in DOMAIN invoked'[y] : NextInLog(y, i)'
  <2> SUFFICES ASSUME NEW i \in DOMAIN invoked'[y] PROVE NextInLog(y, i)'
    OBVIOUS
  <2>1. CASE i \in 1..Len(invoked[y])
    <3>1. NextInLog(y, i)
      BY <1>4, <1>6, <2>1 DEF InStep
    <3>2. invoked'[y][i] = invoked[y][i] /\ (i > 1 => invoked'[y][i - 1] = invoked[y][i - 1])
      BY <1>6, <2>1
    <3> QED
      BY <1>2, <3>1, <3>2 DEF NextInLog
  <2>2. CASE i = Len(invoked[y]) + 1
    <3>1. invoked'[y][i] = rows[k].id /\ k \in DOMAIN rows
      BY <1>4, <1>5, <1>6, <2>2 DEF id
    <3>2. CASE invoked[y] = <<>> /\ k = 1
      <4>1. i = 1
        BY <2>2, <3>2
      <4> QED
        BY <1>2, <3>1, <3>2, <4>1 DEF NextInLog
    <3>3. CASE invoked[y] # <<>>
      <4>1. i > 1 /\ invoked'[y][i - 1] = Last(y)
        BY <1>4, <1>6, <2>2, <3>3 DEF Last
      <4> QED
        BY <1>2, <1>7, <3>1, <3>3, <4>1 DEF NextInLog, id
    <3> QED
      BY <1>7, <3>2, <3>3
  <2> QED
    BY <1>6, <2>1, <2>2
<1>9. AtRow(y)'
  BY <1>2, <1>4, <1>5, <1>6 DEF AtRow, id
<1>10. Counted(y)'
  <2>1. /\ IsFiniteSet(Repeats(y)) /\ Cardinality(Repeats(y)) \in Nat
        /\ Cardinality(Repeats(y)) + (IF Owing(y) THEN 1 ELSE 0) <= crashes
        /\ ~Owing(y)'
    BY <1>4, <1>6, RepeatsFinite DEF Counted, Owing
  <2>2. CASE invoked[y] # <<>> /\ Last(y) = id /\ Owing(y)
    <3>1. Repeats(y)' \subseteq Repeats(y) \cup {Len(invoked[y]) + 1}
      BY <1>6 DEF Repeats
    <3>2. /\ IsFiniteSet(Repeats(y) \cup {Len(invoked[y]) + 1})
          /\ Cardinality(Repeats(y) \cup {Len(invoked[y]) + 1}) <= Cardinality(Repeats(y)) + 1
          /\ Cardinality(Repeats(y) \cup {Len(invoked[y]) + 1}) \in Nat
      <4>1. /\ IsFiniteSet(Repeats(y) \cup {Len(invoked[y]) + 1})
            /\ Cardinality(Repeats(y) \cup {Len(invoked[y]) + 1}) =
                 IF Len(invoked[y]) + 1 \in Repeats(y) THEN Cardinality(Repeats(y))
                 ELSE Cardinality(Repeats(y)) + 1
        BY <2>1, FS_AddElement
      <4> QED
        BY <2>1, <4>1
    <3>3. /\ Cardinality(Repeats(y)') <= Cardinality(Repeats(y) \cup {Len(invoked[y]) + 1})
          /\ IsFiniteSet(Repeats(y)')
      BY <3>1, <3>2, FS_Subset
    <3>4. Cardinality(Repeats(y)') \in Nat
      BY <3>3, FS_CardinalityType
    <3> QED
      BY <1>0, <1>2, <2>1, <2>2, <3>2, <3>3, <3>4 DEF Counted
  <2>3. CASE invoked[y] = <<>> \/ Last(y) # id
    <3>1. Repeats(y)' = Repeats(y)
      BY <1>6, <2>3 DEF Repeats, Last
    <3> QED
      BY <1>0, <1>2, <2>1, <3>1 DEF Counted
  <2> QED
    BY <1>7, <2>2, <2>3
<1>11. InStep(y)'
  BY <1>1, <1>6, <1>8, <1>9 DEF InStep, id
<1> QED
  BY <1>3, <1>10, <1>11 DEF Orderly

\* The commit puts the trigger behind the row it has invoked for.
LEMMA OrderlyCommit ==
  ASSUME Typed, Orderly, CommitInvoked
  PROVE  Orderly'
<1>0. LogTyped /\ TasksTyped /\ WorkTyped
  BY TypedParts
<1> DEFINE y == worker.consumer
<1>1. /\ y \in EventTriggers /\ y \in Consumers /\ Committing(y) /\ worker.id \in Nat
      /\ worker'.at = "idle"
      /\ nextEventId' = [nextEventId EXCEPT ![y] = worker.id + 1]
      /\ events' = events /\ invoked' = invoked /\ crashes' = crashes
  BY <1>0, TopicsAreLogTopics DEF CommitInvoked, Commit, WorkTyped, Committing, Idle, made
<1>2. ASSUME NEW x \in EventTriggers PROVE InStep(x)' /\ Counted(x)'
  <2>1. InStep(x) /\ Counted(x) /\ x \in Consumers
    BY TopicsAreLogTopics DEF Orderly
  <2>2. /\ Last(x)' = Last(x) /\ Repeats(x)' = Repeats(x) /\ ~Committing(x)'
        /\ \A i : NextInLog(x, i)' = NextInLog(x, i)
    BY <1>1 DEF Last, Repeats, Committing, NextInLog
  <2>3. CASE x # worker.consumer
    <3>1. nextEventId'[x] = nextEventId[x] /\ ~Committing(x)
      BY <1>0, <1>1, <2>1, <2>3 DEF LogTyped, BrokerTypeOK, Committing
    <3>2. AtRow(x)' = AtRow(x) /\ Owing(x)' = Owing(x)
      BY <1>1, <2>2, <3>1 DEF AtRow, Owing
    <3> QED
      BY <1>1, <2>1, <2>2, <3>1, <3>2 DEF InStep, Counted
  <2>4. CASE x = worker.consumer
    <3>1. invoked[x] # <<>> /\ worker.id = Last(x) /\ AtRow(x)
      BY <1>1, <2>1, <2>4 DEF InStep
    <3>2. nextEventId'[x] = Last(x) + 1 /\ Last(x) \in Nat
      BY <1>0, <1>1, <2>1, <2>4, <3>1 DEF LogTyped, BrokerTypeOK
    <3>3. AtRow(x)' /\ ~Owing(x)'
      BY <1>1, <2>2, <3>1, <3>2 DEF AtRow, Owing
    <3>4. ~Owing(x)
      BY <1>1, <2>4 DEF Owing
    <3> QED
      BY <1>1, <2>1, <2>2, <3>1, <3>3, <3>4 DEF InStep, Counted
  <2> QED
    BY <2>3, <2>4
<1> QED
  BY <1>2 DEF Orderly

\* A crash may fall between the invocation and the commit of any trigger.
LEMMA OrderlyCrash ==
  ASSUME Typed, Orderly, Crash
  PROVE  Orderly'
<1> SUFFICES ASSUME NEW x \in EventTriggers PROVE InStep(x)' /\ Counted(x)'
  BY DEF Orderly
<1>1. /\ events' = events /\ nextEventId' = nextEventId /\ invoked' = invoked
      /\ crashes' = crashes + 1 /\ crashes \in Nat /\ worker'.at = "idle"
      /\ InStep(x) /\ Counted(x) /\ Cardinality(Repeats(x)) \in Nat
  BY TypedParts, BoundsAssumption, RepeatsFinite
  DEF Crash, broker, made, Idle, Orderly, TasksTyped
<1>2. /\ Last(x)' = Last(x) /\ Repeats(x)' = Repeats(x) /\ AtRow(x)' = AtRow(x)
      /\ ~Committing(x)' /\ \A i : NextInLog(x, i)' = NextInLog(x, i)
  BY <1>1 DEF Last, Repeats, AtRow, Committing, NextInLog
<1>3. Counted(x)'
  <2>1. Cardinality(Repeats(x)) <= crashes
    BY <1>1 DEF Counted
  <2> QED
    BY <1>1, <1>2, <2>1 DEF Counted
<1> QED
  BY <1>1, <1>2, <1>3 DEF InStep

\* Whatever is neither of the three steps leaves the triggers aside.
LEMMA RestIsAside ==
  ASSUME Typed, Next, \A x \in EventTriggers : ~Invoke(x), ~CommitInvoked, ~Crash
  PROVE  Aside
<1>0. WorkTyped /\ LogTyped /\ batch \subseteq Requests
  BY TypedParts DEF WorkTyped
<1>1. invoked' = invoked /\ crashes' = crashes
  BY DEF Next, Start, Setup, Ready, Submit, Invoker, TakeBatch, Begin, Handle, Handling, Refuse,
    CreateTopic, CreateTrigger, EmitCreated, SetStatus, Delete, MakeTopic, Publish, Ack,
    InternalEvents, HandOver, CommitHandedOver, TriggerCreated, Tick, made
<1>2. \A x \in EventTriggers : nextEventId'[x] = nextEventId[x]
  <2>1. CASE nextEventId' = nextEventId
    BY <2>1
  <2>2. CASE CommitHandedOver
    BY <1>0, <2>2, TopicsAreLogTopics DEF CommitHandedOver, Commit, LogTyped, BrokerTypeOK
  <2>3. nextEventId' = nextEventId \/ CommitHandedOver
    BY DEF Next, Start, Setup, Ready, Submit, Invoker, TakeBatch, Begin, Handle, Handling, Refuse,
      CreateTopic, CreateTrigger, EmitCreated, SetStatus, Delete, MakeTopic, Publish, Ack,
      AppendEvent, InternalEvents, HandOver, TriggerCreated, Tick, broker
  <2> QED
    BY <2>1, <2>2, <2>3
<1>3. ASSUME NEW t \in Topics, NEW k \in DOMAIN events[t]
      PROVE  k \in DOMAIN events'[t] /\ events'[t][k] = events[t][k]
  <2>1. CASE events'[t] = events[t]
    BY <2>1
  <2>2. ASSUME NEW r \in batch, Publish(r)
        PROVE  k \in DOMAIN events'[t] /\ events'[t][k] = events[t][k]
    <3>1. PICK n \in Nat, u \in Topics : AppendEvent(r, u, n)
      BY <2>2, PublishInHand, InHand DEF Publish
    <3>2. /\ u # t => events'[t] = events[t]
          /\ IF EventsOf(r, u) # {} THEN events' = events
             ELSE /\ Len(events'[u]) = Len(events[u]) + 1
                  /\ \A i \in DOMAIN events[u] : events'[u][i] = events[u][i]
          /\ events' \in [LogTopics -> Seq(Row)]
      <4>1. r \in Requests /\ u \in LogTopics /\ t \in LogTopics /\ n \in Nat \cup Triggers
        BY <1>0, TopicsAssumption
      <4> QED
        BY <1>0, <3>1, <4>1, AppendKeepsLog DEF LogTyped
    <3>3. /\ DOMAIN events[u] = 1..Len(events[u]) /\ Len(events[u]) \in Nat
          /\ DOMAIN events'[u] = 1..Len(events'[u])
      BY <1>0, <3>2, TopicsAssumption DEF LogTyped
    <3> QED
      BY <3>2, <3>3
  <2>3. events'[t] = events[t] \/ \E r \in batch : Publish(r)
    BY TopicsQuiet
  <2> QED
    BY <2>1, <2>2, <2>3
<1>4. worker' = worker \/ (worker.at # "commit" /\ worker'.at # "commit")
  <2>1. ASSUME NEW r \in batch,
               \/ CreateTopic(r) \/ CreateTrigger(r) \/ EmitCreated(r) \/ SetStatus(r)
               \/ Delete(r) \/ Publish(r)
        PROVE  worker.at # "commit" /\ worker'.at # "commit"
    <3>1. /\ Handling(r, "handle") \/ Handling(r, "emitCreated")
          /\ \/ worker' = [worker EXCEPT !.at = "ack"]
             \/ worker' = [worker EXCEPT !.at = "emitCreated"]
             \/ worker' = [worker EXCEPT !.n = worker.n + 1]
      BY <2>1 DEF CreateTopic, CreateTrigger, EmitCreated, SetStatus, Delete, Publish, Goto
    <3>2. worker \in [at : {"handle", "emitCreated"}, req : {r}, n : Nat \ {0}]
      BY <3>1, InHand
    <3> QED
      BY <3>1, <3>2
  <2> QED
    BY <2>1 DEF Next, Start, Setup, Ready, Submit, Invoker, TakeBatch, Begin, Handle, Handling,
      Refuse, MakeTopic, Ack, Answer, InternalEvents, HandOver, CommitHandedOver, TriggerCreated,
      Tick, Idle
<1> QED
  BY <1>1, <1>2, <1>3, <1>4 DEF Aside

\* An event trigger invokes for the rows of its topic one after the other, from
\* the first one, none left out; it repeats one at most once for every crash.
THEOREM InOrder == Spec => []InvokedInOrder
<1>1. Typed /\ Orderly /\ [Next]_vars => Orderly'
  <2>1. Typed /\ Orderly /\ UNCHANGED vars => Orderly'
    BY OrderlyAside DEF Aside, vars, made, broker
  <2> QED
    BY <2>1, OrderlyInvoke, OrderlyCommit, OrderlyCrash, RestIsAside, OrderlyAside
<1> QED
  BY <1>1, AlwaysTyped, OrderlyInit, OrderlySuffices, PTL DEF Spec
-----------------------------------------------------------------------------
\* Why fixed rate triggers are scheduled, and not too often. A trigger's
\* creation leaves one row in the log of the internal topic; the row is handed
\* over once in the life of a process, by way of the pool, so that in a life the
\* row schedules at most once, and the setup at its start at most once more. In
\* the first life what the setup finds has its row read already.
CreationsOnce ==
  \A k \in DOMAIN events[CreatedTopic] :
    LET row == events[CreatedTopic][k] IN
    /\ row.cmd.kind = "createTrigger" /\ row.cmd.trigger = row.value
    /\ \A j \in DOMAIN events[CreatedTopic] : events[CreatedTopic][j].value = row.value => j = k

\* A creation that has not emitted its event yet has no row.
Unemitted(r) == Untouched(r) \/ (worker.at \in {"handle", "emitCreated"} /\ worker.req = r)

CreationFresh ==
  \A r \in Requests :
    r.kind = "createTrigger" /\ Unemitted(r) => EventsOf(r, CreatedTopic) = {}

InPool(x) == \E i \in DOMAIN pool : pool[i] = x

\* What is handed over and not committed is the first unread row, and on its
\* way or done.
HandedOver ==
  /\ nextEventId[EventService] <= sequence[CreatedTopic] + 1
  /\ handing # None =>
       \E k \in DOMAIN events[CreatedTopic] :
         LET row == events[CreatedTopic][k] IN
         /\ handing = {row.id} /\ FirstUnread(EventService, k)
         /\ InPool(row.value) \/ row.value \in EventTriggers \/ schedules[row.value] > 0

\* The row of x is still to be handed over, or to be written.
Due(x) ==
  \A k \in DOMAIN events[CreatedTopic] :
    events[CreatedTopic][k].value = x =>
      k \in Unread(EventService) /\ events[CreatedTopic][k].id \notin handing

PoolOnce ==
  /\ \A i, j \in DOMAIN pool : pool[i] = pool[j] => i = j
  /\ \A x \in Triggers : ~(InPool(x) /\ Due(x))

FirstStart ==
  crashes = 0 /\ phase = "down" => \A x \in FixedRates : Due(x) => trigger[x] = "None"

Rounds(x) ==
  /\ schedules[x] <= IF crashes > 0 THEN 2 ELSE 1
  /\ Due(x) \/ InPool(x) => schedules[x] <= IF crashes > 0 THEN 1 ELSE 0

NotSwitched(x) ==
  \A r \in Requests :
    r.kind = "setStatus" /\ r.trigger = x => reqStatus[r] \in {"None", "Submitted"}

Scheduled(x) ==
  phase # "down" /\ trigger[x] = "Active" /\ NotSwitched(x)
    => schedules[x] > 0 \/ CreationPending(x)

Booked ==
  /\ CreationsOnce /\ CreationFresh /\ HandedOver /\ PoolOnce /\ FirstStart
  /\ \A x \in FixedRates : Rounds(x) /\ Scheduled(x)

LEMMA BookedSuffices == Booked => FixedRateScheduled
<1> SUFFICES ASSUME Booked, NEW x \in FixedRates
             PROVE  /\ phase = "ready" /\ trigger[x] = "Active"
                       /\ (\A r \in Requests : r.kind = "setStatus" /\ r.trigger = x
                                                 => reqStatus[r] \in {"None", "Submitted"})
                         => schedules[x] > 0 \/ CreationPending(x)
                    /\ schedules[x] <= IF crashes > 0 THEN 2 ELSE 1
  BY DEF FixedRateScheduled
<1> QED
  BY DEF Booked, Rounds, Scheduled, NotSwitched

\* The internal topic is written by creations only, and its consumer's place
\* moved by the commit of what was handed over.
LEMMA CreatedQuiet ==
  ASSUME Typed, Next, \A r \in batch : ~EmitCreated(r)
  PROVE  /\ events'[CreatedTopic] = events[CreatedTopic]
         /\ sequence'[CreatedTopic] = sequence[CreatedTopic]
         /\ nextEventId'[EventService] = nextEventId[EventService] \/ CommitHandedOver
<1>0. LogTyped /\ WorkTyped /\ TasksTyped
  BY TypedParts
<1>1. CASE UNCHANGED broker
  BY <1>1 DEF broker
<1>2. ASSUME NEW r \in batch, Publish(r)
      PROVE  /\ events'[CreatedTopic] = events[CreatedTopic]
             /\ sequence'[CreatedTopic] = sequence[CreatedTopic]
             /\ nextEventId'[EventService] = nextEventId[EventService]
  <2>1. PICK t, n : t \in Topics /\ AppendEvent(r, t, n)
    BY <1>2, PublishInHand DEF Publish
  <2> QED
    BY <1>0, <2>1, TopicsAssumption DEF AppendEvent, LogTyped, BrokerTypeOK
<1>3. CASE CommitHandedOver
  BY <1>3 DEF CommitHandedOver, Commit
<1>4. CASE CommitInvoked
  <2>1. worker.consumer \in EventTriggers
    BY <1>0, <1>4 DEF CommitInvoked, WorkTyped, Idle
  <2> QED
    BY <1>0, <1>4, <2>1, TopicsAreLogTopics DEF CommitInvoked, Commit, LogTyped, BrokerTypeOK
<1>5. \/ UNCHANGED broker \/ CommitHandedOver \/ CommitInvoked
      \/ \E r \in batch : Publish(r)
  BY DEF Next, Start, Setup, Ready, Crash, Submit, Invoker, TakeBatch, Begin, Handle, Refuse,
    CreateTopic, CreateTrigger, SetStatus, Delete, MakeTopic, Ack, InternalEvents, HandOver,
    TriggerCreated, Tick, Invoke
<1> QED
  BY <1>1, <1>2, <1>3, <1>4, <1>5

\* The row a creation leaves: its id is unread by the consumer of the topic.
LEMMA CreationEmitted ==
  ASSUME Typed, Booked, NEW r \in batch, EmitCreated(r)
  PROVE  LET n == Len(events[CreatedTopic]) + 1
             rows == events'[CreatedTopic]
         IN /\ r \in Requests /\ r.kind = "createTrigger" /\ r.trigger \in Triggers
            /\ worker.at = "emitCreated" /\ worker.req = r /\ phase # "down"
            /\ n \in Nat /\ DOMAIN rows = DOMAIN events[CreatedTopic] \cup {n}
            /\ DOMAIN events[CreatedTopic] = 1..(n - 1)
            /\ \A k \in DOMAIN events[CreatedTopic] : rows[k] = events[CreatedTopic][k]
            /\ rows[n].cmd = r /\ rows[n].value = r.trigger
            /\ rows[n].id = sequence[CreatedTopic] + 1
            /\ sequence'[CreatedTopic] = sequence[CreatedTopic] + 1
            /\ sequence[CreatedTopic] \in Nat /\ nextEventId' = nextEventId
<1>0. LogTyped /\ WorkTyped
  BY TypedParts
<1>1. /\ worker.at = "emitCreated" /\ worker.req = r /\ AppendEvent(r, CreatedTopic, r.trigger)
      /\ r \in Requests /\ phase # "down"
  BY <1>0, InHand DEF EmitCreated, Handling
<1>2. r.kind = "createTrigger"
  BY <1>0, <1>1 DEF WorkTyped
<1>3. r.trigger \in Triggers
  BY <1>1, <1>2, RequestsAssumption
<1>4. EventsOf(r, CreatedTopic) = {}
  BY <1>1, <1>2 DEF Booked, CreationFresh, Unemitted
<1>5. CreatedTopic \in LogTopics
  BY TopicsAreLogTopics
<1>6. sequence[CreatedTopic] \in Nat /\ sequence'[CreatedTopic] = sequence[CreatedTopic] + 1
      /\ nextEventId' = nextEventId
  BY <1>0, <1>1, <1>5 DEF AppendEvent, LogTyped, BrokerTypeOK
<1> DEFINE row == [id |-> sequence[CreatedTopic] + 1, cmd |-> r, value |-> r.trigger]
<1>7. events[CreatedTopic] \in Seq(Row) /\ row \in Row
  <2>1. r.trigger \in Nat \cup Triggers /\ sequence[CreatedTopic] + 1 \in Nat
    BY <1>3, <1>6
  <2>2. row \in Row
    BY <1>1, <2>1 DEF Row
  <2> QED
    BY <1>0, <1>5, <2>2 DEF LogTyped
<1>8. events'[CreatedTopic] = Append(events[CreatedTopic], row)
  BY <1>0, <1>1, <1>4, <1>5 DEF AppendEvent, LogTyped
<1>9. row.id = sequence[CreatedTopic] + 1 /\ row.cmd = r /\ row.value = r.trigger
  OBVIOUS
<1> HIDE DEF row
<1> QED
  BY <1>1, <1>2, <1>3, <1>6, <1>7, <1>8, <1>9
\* An emission leaves every other creation's rows, and none before it has one.
LEMMA FreshStep ==
  ASSUME Typed, Booked, Next
  PROVE  CreationFresh'
<1> SUFFICES ASSUME NEW q \in Requests, q.kind = "createTrigger", Unemitted(q)'
             PROVE  EventsOf(q, CreatedTopic)' = {}
  BY DEF CreationFresh
<1>0. LogTyped /\ WorkTyped /\ StoreTyped /\ batch \subseteq Requests
  BY TypedParts DEF WorkTyped
<1>1. CASE \A r \in batch : ~EmitCreated(r)
  <2>1. EventsOf(q, CreatedTopic)' = EventsOf(q, CreatedTopic)
    BY <1>1, CreatedQuiet DEF EventsOf
  <2>2. Unemitted(q)
    <3>1. CASE Untouched(q)'
      BY <3>1, StaysUntouched DEF Unemitted
    <3>2. CASE worker'.at \in {"handle", "emitCreated"} /\ worker'.req = q
      <4>1. CASE worker.at \in {"handle", "emitCreated"} /\ worker.req = q
        BY <4>1 DEF Unemitted
      <4>2. ASSUME NEW r \in batch, Begin(r)  PROVE Untouched(q)
        BY <3>2, <4>2 DEF Begin, Untouched, Idle
      <4>3. ASSUME NEW r \in batch, Handle(r), ~EmitCreated(r)
            PROVE  worker.at \in {"handle", "emitCreated"} /\ worker.req = q
        <5>1. CASE Refuse(r) \/ Ack(r)
          BY <3>2, <5>1 DEF Refuse, Ack, Answer, Idle
        <5>2. CASE CreateTopic(r) \/ CreateTrigger(r) \/ SetStatus(r) \/ Delete(r)
                   \/ MakeTopic(r) \/ Publish(r)
          <6>1. /\ Handling(r, "handle")
                /\ \/ \E next \in {"ack", "emitCreated"} : worker' = [worker EXCEPT !.at = next]
                   \/ worker' = worker
                   \/ worker' = [worker EXCEPT !.n = worker.n + 1]
            BY <5>2 DEF CreateTopic, CreateTrigger, SetStatus, Delete, MakeTopic, Publish, Goto
          <6>2. worker \in [at : {"handle"}, req : {r}, n : Nat \ {0}]
            BY <6>1, InHand
          <6> QED
            BY <3>2, <6>1, <6>2
        <5> QED
          BY <4>3, <5>1, <5>2 DEF Handle
      <4>4. \/ worker' = worker
            \/ worker'.at \notin {"handle", "emitCreated"}
            \/ \E r \in batch : Begin(r)
            \/ \E r \in batch : Handle(r)
        BY DEF Next, Start, Setup, Ready, Crash, Submit, Invoker, TakeBatch, InternalEvents,
          HandOver, CommitHandedOver, TriggerCreated, Tick, Invoke, CommitInvoked, Idle
      <4> QED
        BY <1>1, <3>2, <4>1, <4>2, <4>3, <4>4 DEF Unemitted
    <3> QED
      BY <3>1, <3>2 DEF Unemitted
  <2> QED
    BY <2>1, <2>2 DEF Booked, CreationFresh
<1>2. ASSUME NEW r \in batch, EmitCreated(r)
      PROVE  EventsOf(q, CreatedTopic)' = {}
  <2>0. PICK n : n = Len(events[CreatedTopic]) + 1
    OBVIOUS
  <2>1. /\ worker.at = "emitCreated" /\ worker.req = r
        /\ DOMAIN events'[CreatedTopic] = DOMAIN events[CreatedTopic] \cup {n}
        /\ \A k \in DOMAIN events[CreatedTopic] :
             events'[CreatedTopic][k] = events[CreatedTopic][k]
        /\ events'[CreatedTopic][n].cmd = r
    BY <1>2, <2>0, CreationEmitted
  <2>2. worker \in [at : {"emitCreated"}, req : {r}, n : Nat \ {0}]
        /\ worker' = [worker EXCEPT !.at = "ack"] /\ reqStatus' = reqStatus
        /\ reqStatus[r] = "Processing"
    BY <1>2, InHand DEF EmitCreated, Goto, stored
  <2>3. worker'.at = "ack" /\ worker'.req = r /\ reqStatus'[r] = "Processing"
    BY <2>2
  <2>4. q # r /\ Untouched(q)'
    BY <2>3 DEF Unemitted, Untouched
  <2>5. EventsOf(q, CreatedTopic) = {}
    BY <2>4, StaysUntouched DEF Booked, CreationFresh, Unemitted
  <2> QED
    BY <2>1, <2>4, <2>5 DEF EventsOf
<1> QED
  BY <1>1, <1>2

LEMMA BookedInit == Init => Booked
<1> SUFFICES ASSUME Init PROVE Booked
  OBVIOUS
<1> DEFINE before == [i \in DOMAIN TriggersBefore |->
                        <<TriggersBefore[i], TriggersBefore[i].trigger>>]
           rows == events[CreatedTopic]
           size == Len(TriggersBefore)
<1>1. /\ TriggersBefore \in Seq(Requests) /\ size \in Nat /\ DOMAIN TriggersBefore = 1..size
      /\ \A i \in 1..size : /\ TriggersBefore[i] \in Requests
                            /\ TriggersBefore[i].kind = "createTrigger"
      /\ \A i, j \in 1..size : TriggersBefore[i] = TriggersBefore[j] => i = j
  BY BeforeAssumption
<1>2. before \in Seq(Requests \X {TriggersBefore[i].trigger : i \in 1..size})
      /\ Len(before) = size /\ DOMAIN before = 1..size
      /\ \A i \in 1..size : before[i][1] = TriggersBefore[i]
                            /\ before[i][2] = TriggersBefore[i].trigger
  BY <1>1
<1> HIDE DEF before
<1>3. rows = Rows(before) /\ sequence[CreatedTopic] = Len(before)
      /\ nextEventId[EventService] = IF before = <<>> THEN 0 ELSE Len(before) + 1
  BY TopicsAreLogTopics DEF Init, InitBroker, before
<1>4. DOMAIN rows = 1..size
      /\ \A i \in 1..size : /\ rows[i].id = i /\ rows[i].cmd = TriggersBefore[i]
                            /\ rows[i].value = TriggersBefore[i].trigger
  BY <1>2, <1>3 DEF Rows
<1>5. nextEventId[EventService] \in {0, size + 1} /\ (size # 0 => nextEventId[EventService] = size + 1)
      /\ sequence[CreatedTopic] = size
  BY <1>2, <1>3
<1>6. CreationsOnce
  BY <1>1, <1>4, CreationsAssumption DEF CreationsOnce
<1>7. CreationFresh
  <2> SUFFICES ASSUME NEW r \in Requests, r.kind = "createTrigger", Unemitted(r),
                      NEW k \in DOMAIN rows, rows[k].cmd = r
               PROVE  FALSE
    BY DEF CreationFresh, EventsOf
  <2>1. reqStatus[r] = "Completed" /\ batch = {} /\ worker.at = "idle"
    BY <1>1, <1>4 DEF Init, HandledBefore, Idle
  <2> QED
    BY <2>1 DEF Unemitted, Untouched
<1>8. HandedOver /\ PoolOnce
  BY <1>1, <1>5 DEF Init, HandedOver, PoolOnce, InPool
<1>9. ASSUME NEW x \in FixedRates  PROVE Rounds(x) /\ Scheduled(x)
  BY DEF Init, Rounds, Scheduled, InPool
<1>10. FirstStart
  <2> SUFFICES ASSUME NEW x \in FixedRates, Due(x), trigger[x] # "None"
               PROVE  FALSE
    BY DEF FirstStart
  <2>1. PICK i \in 1..size : TriggersBefore[i].trigger = x
    BY <1>1 DEF Init, Triggers
  <2>2. i \in Unread(EventService)
    BY <1>4, <2>1 DEF Due
  <2>3. i >= size + 1
    BY <1>4, <1>5, <2>1, <2>2, TopicsAreLogTopics DEF Unread
  <2> QED
    BY <1>1, <2>3
<1> QED
  BY <1>6, <1>7, <1>8, <1>9, <1>10 DEF Booked
\* A request that was taken stays so.
LEMMA NotSwitchedBefore ==
  ASSUME Typed, Next, NEW x, NotSwitched(x)'
  PROVE  NotSwitched(x)
<1> SUFFICES ASSUME NEW r \in Requests, reqStatus'[r] \in {"None", "Submitted"}
             PROVE  reqStatus[r] \in {"None", "Submitted"}
  BY DEF NotSwitched
<1>0. StoreTyped /\ WorkTyped /\ batch \subseteq Requests
  BY TypedParts DEF WorkTyped
<1>1. CASE reqStatus' = reqStatus
  BY <1>1
<1>2. ASSUME NEW q \in Requests, Submit(q)  PROVE reqStatus[r] \in {"None", "Submitted"}
  BY <1>0, <1>2 DEF Submit, StoreTyped
<1>3. CASE TakeBatch
  BY <1>0, <1>3 DEF TakeBatch, Submitted
<1>4. ASSUME NEW q \in batch, Refuse(q) \/ Ack(q)
      PROVE  reqStatus[r] \in {"None", "Submitted"}
  BY <1>0, <1>4 DEF Refuse, Ack, Answer, StoreTyped
<1> QED
  BY <1>1, <1>2, <1>3, <1>4 DEF Next, Start, Setup, Ready, Crash, Invoker, Begin, Handle,
    CreateTopic, CreateTrigger, EmitCreated, SetStatus, Delete, MakeTopic, Publish,
    InternalEvents, HandOver, CommitHandedOver, TriggerCreated, Tick, Invoke, CommitInvoked, stored

\* A trigger becomes active in the hands of its creation, or is switched on.
LEMMA ActiveBefore ==
  ASSUME Typed, Next, NEW x \in FixedRates, trigger'[x] = "Active", NotSwitched(x)'
  PROVE  trigger[x] = "Active" \/ (worker'.at = "emitCreated" /\ worker'.req.trigger = x)
<1>0. StoreTyped /\ WorkTyped /\ batch \subseteq Requests /\ x \in Triggers
  BY TypedParts DEF WorkTyped, Triggers
<1>1. CASE trigger' = trigger
  BY <1>1
<1>2. ASSUME NEW r \in batch, CreateTrigger(r)
      PROVE  trigger[x] = "Active" \/ (worker'.at = "emitCreated" /\ worker'.req.trigger = x)
  <2>1. worker \in [at : {"handle"}, req : {r}, n : Nat \ {0}]
        /\ worker' = [worker EXCEPT !.at = "emitCreated"]
        /\ trigger' = [trigger EXCEPT ![r.trigger] = "Active"]
    BY <1>2, InHand DEF CreateTrigger, Goto
  <2> QED
    BY <1>0, <2>1 DEF StoreTyped
<1>3. ASSUME NEW r \in batch, SetStatus(r)  PROVE trigger[x] = "Active"
  <2>1. reqStatus'[r] = "Processing" /\ r.kind = "setStatus" /\ r \in Requests
        /\ trigger' = [trigger EXCEPT ![r.trigger] = r.to]
    BY <1>3, InHand DEF SetStatus
  <2>2. r.trigger # x
    BY <2>1 DEF NotSwitched
  <2> QED
    BY <1>0, <2>1, <2>2 DEF StoreTyped
<1>4. ASSUME NEW r \in batch, Delete(r)  PROVE trigger[x] = "Active"
  BY <1>0, <1>4 DEF Delete, StoreTyped
<1> QED
  BY <1>1, <1>2, <1>3, <1>4 DEF Next, Start, Setup, Ready, Crash, Submit, TakeBatch, Invoker, Begin,
    Handle, Refuse, Ack, CreateTopic, EmitCreated, MakeTopic, Publish,
    InternalEvents, HandOver, CommitHandedOver, TriggerCreated, Tick, Invoke, CommitInvoked, stored

\* Who is about to emit stays so until the emission, or a crash.
LEMMA StillEmitting ==
  ASSUME Typed, Next, ~Crash, \A r \in batch : ~EmitCreated(r), worker.at = "emitCreated"
  PROVE  worker' = worker
<1>0. WorkTyped
  BY TypedParts
<1>1. worker # Idle
  BY DEF Idle
<1> QED
  BY <1>1 DEF Next, Start, Setup, Ready, Submit, TakeBatch, WorkerFree, Invoker, Begin,
    Handle, Handling, Refuse, Ack, CreateTopic, CreateTrigger, SetStatus, Delete, MakeTopic, Publish,
    InternalEvents, HandOver, CommitHandedOver, TriggerCreated, Tick, Invoke, CommitInvoked

\* Steps that neither write the internal topic nor hand over, commit or schedule.
Calm ==
  /\ events'[CreatedTopic] = events[CreatedTopic]
  /\ sequence'[CreatedTopic] = sequence[CreatedTopic]
  /\ nextEventId'[EventService] = nextEventId[EventService]
  /\ UNCHANGED <<pool, handing, schedules, crashes>>
  /\ phase' = "down" <=> phase = "down"
  /\ phase = "down" => trigger' = trigger

LEMMA CalmSame ==
  ASSUME Calm
  PROVE  /\ Unread(EventService)' = Unread(EventService)
         /\ \A k : FirstUnread(EventService, k)' <=> FirstUnread(EventService, k)
         /\ \A x : (InPool(x)' <=> InPool(x)) /\ (Due(x)' <=> Due(x))
<1>1. Unread(EventService)' = Unread(EventService)
  BY TopicsAreLogTopics DEF Calm, Unread
<1>2. \A k : FirstUnread(EventService, k)' <=> FirstUnread(EventService, k)
  BY <1>1 DEF FirstUnread
<1>3. \A x : InPool(x)' <=> InPool(x)
  BY DEF Calm, InPool
<1>4. \A x : Due(x)' <=> Due(x)
  BY <1>1 DEF Calm, Due
<1> QED
  BY <1>1, <1>2, <1>3, <1>4

LEMMA BookedCalm ==
  ASSUME Typed, Booked, Next, Calm, \A r \in batch : ~EmitCreated(r), ~Crash
  PROVE  Booked'
<1>1. /\ Unread(EventService)' = Unread(EventService)
      /\ \A k : FirstUnread(EventService, k)' <=> FirstUnread(EventService, k)
      /\ \A x : (InPool(x)' <=> InPool(x)) /\ (Due(x)' <=> Due(x))
  BY CalmSame
<1>2. CreationsOnce' /\ CreationFresh'
  BY FreshStep DEF Booked, CreationsOnce, Calm
<1>3. HandedOver'
  BY <1>1 DEF Booked, HandedOver, Calm
<1>4. PoolOnce'
  BY <1>1 DEF Booked, PoolOnce, Calm
<1>5. FirstStart'
  BY <1>1 DEF Booked, FirstStart, Calm
<1>6. ASSUME NEW x \in FixedRates  PROVE Rounds(x)'
  BY <1>1 DEF Booked, Rounds, Calm
<1>7. ASSUME NEW x \in FixedRates  PROVE Scheduled(x)'
  <2> SUFFICES ASSUME phase' # "down", trigger'[x] = "Active", NotSwitched(x)'
               PROVE  schedules'[x] > 0 \/ CreationPending(x)'
    BY DEF Scheduled
  <2>1. CASE worker'.at = "emitCreated" /\ worker'.req.trigger = x
    BY <2>1 DEF CreationPending
  <2>2. CASE trigger[x] = "Active"
    <3>1. schedules[x] > 0 \/ CreationPending(x)
      BY <2>2, NotSwitchedBefore DEF Booked, Scheduled, Calm
    <3>2. CreationPending(x) => CreationPending(x)'
      BY <1>1, StillEmitting DEF CreationPending, Calm
    <3> QED
      BY <3>1, <3>2 DEF Calm
  <2> QED
    BY <2>1, <2>2, ActiveBefore
<1> QED
  BY <1>2, <1>3, <1>4, <1>5, <1>6, <1>7 DEF Booked
\* The setup finds an empty pool, and in the first life rows that were read.
LEMMA BookedSetup ==
  ASSUME Typed, Booked, Next, Setup
  PROVE  Booked'
<1>1. /\ phase = "down" /\ phase' = "refreshed" /\ pool = <<>> /\ handing = None
      /\ UNCHANGED <<events, sequence, nextEventId, trigger, pool, handing, crashes, reqStatus>>
      /\ schedules' = [x \in FixedRates |-> IF trigger[x] = "Active" THEN 1 ELSE 0]
  BY TypedParts DEF Setup, DownIsEmpty, broker, stored
<1>2. CreationsOnce' /\ CreationFresh'
  BY <1>1, FreshStep DEF Booked, CreationsOnce
<1>3. HandedOver' /\ PoolOnce' /\ FirstStart'
  BY <1>1 DEF Booked, HandedOver, PoolOnce, InPool, FirstStart
<1>4. ASSUME NEW x \in FixedRates  PROVE Rounds(x)'
  <2>1. ~InPool(x)' /\ (Due(x)' <=> Due(x))
    BY <1>1 DEF InPool, Due, Unread
  <2>2. schedules'[x] = IF trigger[x] = "Active" THEN 1 ELSE 0
    BY <1>1
  <2>3. crashes = 0 /\ Due(x) => trigger[x] = "None"
    BY <1>1 DEF Booked, FirstStart
  <2>4. crashes \in Nat
    BY TypedParts, BoundsAssumption DEF TasksTyped
  <2> QED
    BY <1>1, <2>1, <2>2, <2>3, <2>4 DEF Rounds
<1>5. ASSUME NEW x \in FixedRates  PROVE Scheduled(x)'
  BY <1>1 DEF Scheduled
<1> QED
  BY <1>2, <1>3, <1>4, <1>5 DEF Booked

LEMMA BookedCrash ==
  ASSUME Typed, Booked, Next, Crash
  PROVE  Booked'
<1>1. /\ phase' = "down" /\ pool' = <<>> /\ handing' = None /\ crashes' = crashes + 1
      /\ UNCHANGED <<events, sequence, nextEventId>>
      /\ schedules' = [x \in FixedRates |-> 0] /\ crashes \in Nat
  BY TypedParts, BoundsAssumption DEF Crash, broker, stored, TasksTyped
<1>2. CreationsOnce' /\ CreationFresh'
  BY <1>1, FreshStep DEF Booked, CreationsOnce
<1>3. HandedOver' /\ PoolOnce' /\ FirstStart'
  BY <1>1 DEF Booked, HandedOver, PoolOnce, InPool, FirstStart
<1>4. ASSUME NEW x \in FixedRates  PROVE Rounds(x)' /\ Scheduled(x)'
  BY <1>1 DEF Rounds, Scheduled
<1> QED
  BY <1>2, <1>3, <1>4 DEF Booked

\* The row of a creation comes last in the log and is unread.
LEMMA BookedEmit ==
  ASSUME Typed, Booked, Next, NEW r \in batch, EmitCreated(r)
  PROVE  Booked'
<1>n. PICK n, seq : n = Len(events[CreatedTopic]) + 1 /\ seq = sequence[CreatedTopic]
  OBVIOUS
<1>1. /\ r \in Requests /\ r.kind = "createTrigger" /\ r.trigger \in Triggers
      /\ worker.at = "emitCreated" /\ worker.req = r /\ phase # "down"
      /\ n \in Nat /\ DOMAIN events'[CreatedTopic] = DOMAIN events[CreatedTopic] \cup {n}
      /\ DOMAIN events[CreatedTopic] = 1..(n - 1)
      /\ \A k \in DOMAIN events[CreatedTopic] : events'[CreatedTopic][k] = events[CreatedTopic][k]
      /\ events'[CreatedTopic][n].cmd = r /\ events'[CreatedTopic][n].value = r.trigger
      /\ events'[CreatedTopic][n].id = seq + 1
      /\ sequence'[CreatedTopic] = seq + 1 /\ seq \in Nat /\ nextEventId' = nextEventId
  BY <1>n, CreationEmitted
<1>2. /\ UNCHANGED <<phase, trigger, pool, handing, schedules, crashes, batch, reqStatus>>
  BY DEF EmitCreated, Handling, stored, tasks
<1>3. /\ nextEventId[EventService] \in Nat /\ nextEventId[EventService] <= seq + 1
      /\ \A k \in DOMAIN events[CreatedTopic] : events[CreatedTopic][k].id \in 1..seq
  BY <1>n, TopicsAreLogTopics, TypedParts DEF LogTyped, BrokerTypeOK, Booked, HandedOver
<1>4. Unread(EventService)' = Unread(EventService) \cup {n}
  <2>1. \A k \in DOMAIN events[CreatedTopic] : k # n
    BY <1>1
  <2>2. Unread(EventService) =
          {k \in DOMAIN events[CreatedTopic] :
             events[CreatedTopic][k].id >= nextEventId[EventService]}
        /\ Unread(EventService)' =
             {k \in DOMAIN events'[CreatedTopic] :
                events'[CreatedTopic][k].id >= nextEventId[EventService]}
    BY <1>1, TopicsAreLogTopics DEF Unread
  <2>3. seq + 1 >= nextEventId[EventService]
    BY <1>1, <1>3
  <2> QED
    BY <1>1, <2>1, <2>2, <2>3
<1>5. CreationsOnce'
  <2>1. EventsOf(r, CreatedTopic) = {}
    BY <1>1 DEF Booked, CreationFresh, Unemitted
  <2>2. ASSUME NEW k \in DOMAIN events[CreatedTopic]
        PROVE  /\ events[CreatedTopic][k].value # r.trigger
               /\ events[CreatedTopic][k].cmd.kind = "createTrigger"
               /\ events[CreatedTopic][k].cmd.trigger = events[CreatedTopic][k].value
               /\ \A j \in DOMAIN events[CreatedTopic] :
                    events[CreatedTopic][j].value = events[CreatedTopic][k].value => j = k
    <3>1. events[CreatedTopic][k].cmd \in Requests /\ events[CreatedTopic][k].cmd # r
      BY <2>1, TypedParts, RowTyped, TopicsAreLogTopics DEF EventsOf
    <3>2. /\ events[CreatedTopic][k].cmd.kind = "createTrigger"
          /\ events[CreatedTopic][k].cmd.trigger = events[CreatedTopic][k].value
          /\ \A j \in DOMAIN events[CreatedTopic] :
               events[CreatedTopic][j].value = events[CreatedTopic][k].value => j = k
      BY DEF Booked, CreationsOnce
    <3> QED
      BY <1>1, <3>1, <3>2, CreationsAssumption
  <2> QED
    BY <1>1, <2>2 DEF CreationsOnce
<1>6. \A x : Due(x)' => Due(x)
  <2> SUFFICES ASSUME NEW x, Due(x)', NEW k \in DOMAIN events[CreatedTopic],
                      events[CreatedTopic][k].value = x
               PROVE  k \in Unread(EventService) /\ events[CreatedTopic][k].id \notin handing
    BY DEF Due
  <2>1. k \in Unread(EventService)' /\ events'[CreatedTopic][k].id \notin handing'
    BY <1>1 DEF Due
  <2> QED
    BY <1>1, <1>2, <1>4, <2>1
<1>7. HandedOver'
  <2>1. ASSUME NEW k \in DOMAIN events[CreatedTopic], FirstUnread(EventService, k)
        PROVE  FirstUnread(EventService, k)'
    BY <1>1, <1>4, <2>1 DEF FirstUnread
  <2>2. nextEventId'[EventService] <= sequence'[CreatedTopic] + 1
    BY <1>1, <1>3
  <2>3. ASSUME handing' # None
        PROVE  \E k \in DOMAIN events'[CreatedTopic] :
                 /\ handing' = {events'[CreatedTopic][k].id} /\ FirstUnread(EventService, k)'
                 /\ \/ \E i \in DOMAIN pool' : pool'[i] = events'[CreatedTopic][k].value
                    \/ events'[CreatedTopic][k].value \in EventTriggers
                    \/ schedules'[events'[CreatedTopic][k].value] > 0
    <3>1. PICK k \in DOMAIN events[CreatedTopic] :
             /\ handing = {events[CreatedTopic][k].id} /\ FirstUnread(EventService, k)
             /\ \/ \E i \in DOMAIN pool : pool[i] = events[CreatedTopic][k].value
                \/ events[CreatedTopic][k].value \in EventTriggers
                \/ schedules[events[CreatedTopic][k].value] > 0
      BY <1>2, <2>3 DEF Booked, HandedOver, InPool
    <3>2. k \in DOMAIN events'[CreatedTopic]
          /\ events'[CreatedTopic][k] = events[CreatedTopic][k]
      BY <1>1
    <3>3. FirstUnread(EventService, k)'
      BY <2>1, <3>1
    <3> QED
      BY <1>2, <3>1, <3>2, <3>3
  <2> QED
    BY <2>2, <2>3 DEF HandedOver, InPool
<1>8. PoolOnce'
  BY <1>2, <1>6 DEF Booked, PoolOnce, InPool
<1>9. FirstStart'
  BY <1>1, <1>2 DEF FirstStart
<1>10. ASSUME NEW x \in FixedRates  PROVE Rounds(x)'
  BY <1>2, <1>6 DEF Booked, Rounds, InPool
<1>11. ASSUME NEW x \in FixedRates  PROVE Scheduled(x)'
  <2> SUFFICES ASSUME trigger[x] = "Active", NotSwitched(x), ~(schedules[x] > 0)
               PROVE  CreationPending(x)'
    BY <1>2 DEF Scheduled, NotSwitched
  <2>1. CreationPending(x)
    BY <1>1 DEF Booked, Scheduled
  <2>2. CASE \E i \in DOMAIN pool : pool[i] = x
    BY <1>2, <2>2 DEF CreationPending
  <2>3. ASSUME NEW k \in Unread(EventService), events[CreatedTopic][k].value = x
        PROVE  CreationPending(x)'
    <3>1. k \in DOMAIN events[CreatedTopic] /\ k \in Unread(EventService)'
      BY <1>4, TopicsAreLogTopics DEF Unread
    <3> QED
      BY <1>1, <2>3, <3>1 DEF CreationPending
  <2>4. CASE x = r.trigger
    BY <1>1, <1>4, <2>4 DEF CreationPending
  <2> QED
    BY <1>1, <2>1, <2>2, <2>3, <2>4 DEF CreationPending
<1> QED
  BY <1>5, <1>7, <1>8, <1>9, <1>10, <1>11, FreshStep DEF Booked
\* The row handed over is the trigger's only one, and its first time in the pool.
LEMMA BookedHandOver ==
  ASSUME Typed, Booked, Next, HandOver
  PROVE  Booked'
<1>0. TasksTyped /\ LogTyped
  BY TypedParts
<1>1. PICK k \in DOMAIN events[CreatedTopic] :
         /\ FirstUnread(EventService, k)
         /\ handing' = {events[CreatedTopic][k].id}
         /\ pool' = Append(pool, events[CreatedTopic][k].value)
  BY DEF HandOver
<1>2. /\ handing = None /\ phase = "ready"
      /\ UNCHANGED <<events, sequence, nextEventId, phase, worker, trigger, reqStatus,
                     schedules, crashes>>
  BY DEF HandOver, broker, stored, tasks
<1>v. PICK v \in Triggers : v = events[CreatedTopic][k].value
  BY <1>0 DEF LogTyped
<1>3. Due(v)
  <2>1. \A j \in DOMAIN events[CreatedTopic] : events[CreatedTopic][j].value = v => j = k
    BY <1>v DEF Booked, CreationsOnce
  <2> QED
    BY <1>1, <1>2, <2>1 DEF Due, FirstUnread, None
<1>4. \A x : Due(x)' => Due(x)
  BY <1>2 DEF Due, Unread, None
<1>5. ~Due(v)'
  BY <1>1, <1>2, <1>v DEF Due
<1>6. /\ pool \in Seq(Triggers) /\ pool' \in Seq(Triggers) /\ Len(pool) \in Nat
      /\ DOMAIN pool = 1..Len(pool) /\ DOMAIN pool' = 1..(Len(pool) + 1)
      /\ \A i \in 1..Len(pool) : pool'[i] = pool[i]
      /\ pool'[Len(pool) + 1] = v
  BY <1>0, <1>1, <1>v DEF TasksTyped
<1>7. ~InPool(v)
  BY <1>3 DEF Booked, PoolOnce
<1>8. \A x : InPool(x)' <=> InPool(x) \/ x = v
  BY <1>6 DEF InPool
<1>9. CreationsOnce' /\ CreationFresh' /\ FirstStart'
  BY <1>2, FreshStep DEF Booked, CreationsOnce, FirstStart
<1>10. HandedOver'
  <2>1. FirstUnread(EventService, k)' /\ k \in DOMAIN events'[CreatedTopic]
    BY <1>1, <1>2 DEF FirstUnread, Unread
  <2>2. \E i \in DOMAIN pool' : pool'[i] = events'[CreatedTopic][k].value
    BY <1>2, <1>6, <1>v
  <2>3. handing' = {events'[CreatedTopic][k].id}
    BY <1>1, <1>2
  <2> QED
    BY <1>2, <2>1, <2>2, <2>3 DEF Booked, HandedOver, InPool
<1>11. PoolOnce'
  <2>1. \A i, j \in DOMAIN pool' : pool'[i] = pool'[j] => i = j
    BY <1>6, <1>7 DEF Booked, PoolOnce, InPool
  <2> QED
    BY <1>4, <1>5, <1>8, <2>1 DEF Booked, PoolOnce
<1>12. ASSUME NEW x \in FixedRates  PROVE Rounds(x)' /\ Scheduled(x)'
  <2>1. Rounds(x)'
    BY <1>2, <1>3, <1>4, <1>8 DEF Booked, Rounds
  <2>2. CreationPending(x) => CreationPending(x)'
    BY <1>2, <1>6 DEF CreationPending, Unread
  <2> QED
    BY <1>2, <2>1, <2>2 DEF Booked, Scheduled, NotSwitched
<1> QED
  BY <1>9, <1>10, <1>11, <1>12 DEF Booked

\* Its commit passes that row and no other.
LEMMA BookedCommit ==
  ASSUME Typed, Booked, Next, CommitHandedOver
  PROVE  Booked'
<1>0. TasksTyped /\ LogTyped /\ DownIsEmpty
  BY TypedParts
<1>1. PICK k \in DOMAIN events[CreatedTopic] :
         /\ handing = {events[CreatedTopic][k].id} /\ FirstUnread(EventService, k)
         /\ \/ InPool(events[CreatedTopic][k].value)
            \/ events[CreatedTopic][k].value \in EventTriggers
            \/ schedules[events[CreatedTopic][k].value] > 0
  BY DEF CommitHandedOver, Booked, HandedOver, None
<1>i. PICK id, from : id = events[CreatedTopic][k].id /\ from = nextEventId[EventService]
  OBVIOUS
<1>2. /\ nextEventId'[EventService] = id + 1 /\ handing' = None
      /\ UNCHANGED <<events, sequence, phase, worker, trigger, reqStatus, pool, schedules, crashes>>
  BY <1>0, <1>1, <1>i, TopicsAreLogTopics
     DEF CommitHandedOver, Commit, stored, tasks, LogTyped, BrokerTypeOK
<1>3. /\ \A j \in DOMAIN events[CreatedTopic] :
           /\ events[CreatedTopic][j].id \in 1..sequence[CreatedTopic]
           /\ \A l \in 1..(j - 1) : events[CreatedTopic][l].id < events[CreatedTopic][j].id
      /\ from \in Nat /\ sequence[CreatedTopic] \in Nat /\ id \in 1..sequence[CreatedTopic]
      /\ \E n \in Nat : DOMAIN events[CreatedTopic] = 1..n
  BY <1>0, <1>i, TopicsAreLogTopics DEF LogTyped, BrokerTypeOK
<1>4. /\ Unread(EventService) = {j \in DOMAIN events[CreatedTopic] :
                                   events[CreatedTopic][j].id >= from}
      /\ Unread(EventService)' = {j \in DOMAIN events[CreatedTopic] :
                                    events[CreatedTopic][j].id >= id + 1}
  BY <1>2, <1>i, TopicsAreLogTopics DEF Unread
<1>5. k \in Unread(EventService) /\ \A j \in Unread(EventService) : k <= j
  BY <1>1 DEF FirstUnread
<1>6. ASSUME NEW j \in Unread(EventService), j # k
      PROVE  j \in Unread(EventService)' /\ events[CreatedTopic][j].id # id
  <2>1. k \in 1..(j - 1) /\ j \in DOMAIN events[CreatedTopic]
    BY <1>3, <1>4, <1>5, <1>6
  <2>2. id < events[CreatedTopic][j].id /\ events[CreatedTopic][j].id \in 1..sequence[CreatedTopic]
    BY <1>3, <1>i, <2>1
  <2> QED
    BY <1>3, <1>4, <2>1, <2>2
<1>7. \A j \in Unread(EventService)' : j \in Unread(EventService) /\ j # k
  BY <1>3, <1>4, <1>5, <1>i
<1>8. \A x : Due(x)' => Due(x)
  <2> SUFFICES ASSUME NEW x, Due(x)', NEW j \in DOMAIN events[CreatedTopic],
                      events[CreatedTopic][j].value = x
               PROVE  j \in Unread(EventService) /\ events[CreatedTopic][j].id \notin handing
    BY DEF Due
  <2>1. j \in Unread(EventService)'
    BY <1>2 DEF Due
  <2> QED
    BY <1>1, <1>6, <1>7, <1>i, <2>1
<1>9. \A x : InPool(x)' <=> InPool(x)
  BY <1>2 DEF InPool
<1>10. CreationsOnce' /\ CreationFresh' /\ PoolOnce'
  BY <1>2, <1>8, <1>9, FreshStep DEF Booked, CreationsOnce, PoolOnce
<1>11. FirstStart'
  BY <1>0, <1>1, <1>2 DEF FirstStart, DownIsEmpty, None
<1>12. HandedOver'
  BY <1>2, <1>3 DEF HandedOver
<1>13. ASSUME NEW x \in FixedRates  PROVE Rounds(x)' /\ Scheduled(x)'
  <2>1. Rounds(x)'
    BY <1>2, <1>8, <1>9 DEF Booked, Rounds
  <2>2. ASSUME CreationPending(x)  PROVE schedules[x] > 0 \/ CreationPending(x)'
    <3>1. CASE InPool(x) \/ (worker.at = "emitCreated" /\ worker.req.trigger = x)
      BY <1>2, <3>1 DEF CreationPending, InPool
    <3>2. ASSUME NEW j \in Unread(EventService), events[CreatedTopic][j].value = x
          PROVE  schedules[x] > 0 \/ CreationPending(x)'
      <4>1. CASE j # k
        BY <1>2, <1>6, <3>2, <4>1 DEF CreationPending
      <4>2. CASE j = k
        <5>1. InPool(x) \/ schedules[x] > 0
          BY <1>1, <3>2, <4>2, TriggersAssumption
        <5> QED
          BY <1>2, <5>1 DEF CreationPending, InPool
      <4> QED
        BY <4>1, <4>2
    <3> QED
      BY <2>2, <3>1, <3>2 DEF CreationPending, InPool
  <2> QED
    BY <1>2, <2>1, <2>2 DEF Booked, Scheduled, NotSwitched
<1> QED
  BY <1>10, <1>11, <1>12, <1>13 DEF Booked

\* The handler schedules the trigger, which leaves the pool with its row.
LEMMA BookedCreated ==
  ASSUME Typed, Booked, Next, TriggerCreated
  PROVE  Booked'
<1>0. TasksTyped
  BY TypedParts
<1>v. PICK v : v = Head(pool)
  OBVIOUS
<1>1. /\ phase # "down" /\ pool # <<>> /\ pool' = Tail(pool)
      /\ schedules' = [x \in FixedRates |-> IF x = v THEN schedules[x] + 1 ELSE schedules[x]]
      /\ UNCHANGED <<events, sequence, nextEventId, phase, worker, trigger, reqStatus,
                     handing, crashes>>
  BY <1>v DEF TriggerCreated, WorkerFree, broker, stored
<1>2. /\ pool \in Seq(Triggers) /\ Len(pool) \in Nat \ {0} /\ DOMAIN pool = 1..Len(pool)
      /\ DOMAIN pool' = 1..(Len(pool) - 1) /\ pool[1] = v /\ v \in Triggers
      /\ \A i \in 1..(Len(pool) - 1) : pool'[i] = pool[i + 1]
  BY <1>0, <1>1, <1>v DEF TasksTyped
<1>3. \A i, j \in DOMAIN pool : pool[i] = pool[j] => i = j
  BY DEF Booked, PoolOnce
<1>4. ASSUME NEW x  PROVE InPool(x)' <=> InPool(x) /\ x # v
  <2>1. ASSUME NEW i \in DOMAIN pool', pool'[i] = x  PROVE InPool(x) /\ x # v
    <3>1. i + 1 \in DOMAIN pool /\ pool[i + 1] = x /\ i + 1 # 1 /\ 1 \in DOMAIN pool
      BY <1>2, <2>1
    <3> QED
      BY <1>2, <1>3, <3>1 DEF InPool
  <2>2. ASSUME NEW i \in DOMAIN pool, pool[i] = x, x # v  PROVE InPool(x)'
    <3>1. i - 1 \in DOMAIN pool' /\ pool'[i - 1] = pool[i]
      BY <1>2, <2>2
    <3> QED
      BY <2>2, <3>1 DEF InPool
  <2> QED
    BY <2>1, <2>2 DEF InPool
<1>5. \A x : Due(x)' <=> Due(x)
  BY <1>1 DEF Due, Unread
<1>6. InPool(v) /\ ~Due(v)
  <2>1. InPool(v)
    BY <1>2 DEF InPool
  <2> QED
    BY <1>2, <2>1 DEF Booked, PoolOnce
<1>7. CreationsOnce' /\ CreationFresh' /\ FirstStart'
  BY <1>1, FreshStep DEF Booked, CreationsOnce, FirstStart
<1>8. PoolOnce'
  <2>1. \A i, j \in DOMAIN pool' : pool'[i] = pool'[j] => i = j
    BY <1>2, <1>3
  <2> QED
    BY <1>4, <1>5, <2>1 DEF Booked, PoolOnce
<1>9. \A x \in FixedRates : /\ schedules[x] \in Nat
                            /\ schedules'[x] = IF x = v THEN schedules[x] + 1 ELSE schedules[x]
  BY <1>0, <1>1 DEF TasksTyped
<1>10. ASSUME NEW x \in FixedRates  PROVE Rounds(x)' /\ Scheduled(x)'
  <2>1. CASE x = v
    BY <1>1, <1>4, <1>5, <1>6, <1>9, <2>1 DEF Booked, Rounds, Scheduled
  <2>2. CASE x # v
    <3>1. Rounds(x)'
      BY <1>1, <1>4, <1>5, <1>9, <2>2 DEF Booked, Rounds
    <3>2. CreationPending(x) => CreationPending(x)'
      BY <1>1, <1>4, <2>2 DEF CreationPending, InPool, Unread
    <3> QED
      BY <1>1, <1>9, <2>2, <3>1, <3>2 DEF Booked, Scheduled, NotSwitched
  <2> QED
    BY <2>1, <2>2
<1>11. HandedOver'
  <2> SUFFICES ASSUME handing # None
               PROVE  \E k \in DOMAIN events[CreatedTopic] :
                        /\ handing = {events[CreatedTopic][k].id} /\ FirstUnread(EventService, k)
                        /\ \/ \E i \in DOMAIN pool' : pool'[i] = events[CreatedTopic][k].value
                           \/ events[CreatedTopic][k].value \in EventTriggers
                           \/ schedules'[events[CreatedTopic][k].value] > 0
    BY <1>1 DEF Booked, HandedOver, InPool, FirstUnread, Unread
  <2>1. PICK k \in DOMAIN events[CreatedTopic] :
           /\ handing = {events[CreatedTopic][k].id} /\ FirstUnread(EventService, k)
           /\ \/ InPool(events[CreatedTopic][k].value)
              \/ events[CreatedTopic][k].value \in EventTriggers
              \/ schedules[events[CreatedTopic][k].value] > 0
    BY DEF Booked, HandedOver
  <2>2. PICK w : w = events[CreatedTopic][k].value
    OBVIOUS
  <2>3. w \in EventTriggers \/ w \in FixedRates
    BY <2>2, TypedParts DEF LogTyped, Triggers
  <2>4. InPool(w)' \/ w \in EventTriggers \/ schedules'[w] > 0
    <3>1. InPool(w) \/ w \in EventTriggers \/ schedules[w] > 0
      BY <2>1, <2>2
    <3> QED
      BY <1>4, <1>9, <2>3, <3>1
  <2> QED
    BY <2>1, <2>2, <2>4 DEF InPool
<1> QED
  BY <1>7, <1>8, <1>10, <1>11 DEF Booked

\* Whatever is none of these steps is calm.
LEMMA RestIsCalm ==
  ASSUME Typed, Next, ~Setup, ~Crash, \A r \in batch : ~EmitCreated(r), ~HandOver,
         ~CommitHandedOver, ~TriggerCreated
  PROVE  Calm
<1>1. /\ events'[CreatedTopic] = events[CreatedTopic]
      /\ sequence'[CreatedTopic] = sequence[CreatedTopic]
      /\ nextEventId'[EventService] = nextEventId[EventService]
  BY CreatedQuiet
<1>2. UNCHANGED <<pool, handing, schedules, crashes>>
  BY DEF Next, Start, Ready, Submit, TakeBatch, Invoker, Begin, Handle, Handling, Refuse, Ack,
    CreateTopic, CreateTrigger, SetStatus, Delete, MakeTopic, Publish,
    InternalEvents, Tick, Invoke, CommitInvoked, tasks, made
<1>3. /\ phase' = "down" <=> phase = "down"
  BY DEF Next, Start, Ready, Submit, TakeBatch, Invoker, Begin, Handle, Handling, Refuse, Ack,
    CreateTopic, CreateTrigger, SetStatus, Delete, MakeTopic, Publish,
    InternalEvents, Tick, Invoke, CommitInvoked
<1>4. ASSUME phase = "down"  PROVE trigger' = trigger
  <2>1. batch = {}
    BY <1>4, TypedParts DEF DownIsEmpty
  <2> QED
    BY <2>1 DEF Next, Start, Ready, Submit, TakeBatch, Invoker, InternalEvents, Tick, Invoke,
      CommitInvoked, stored
<1> QED
  BY <1>1, <1>2, <1>3, <1>4 DEF Calm

\* A fixed rate trigger that nobody has switched is scheduled once it is there,
\* or its creation is on the way; it is scheduled by its creation and by one
\* setup at most, and by both only after a restart.
THEOREM FixedRatesRun == Spec => []FixedRateScheduled
<1>1. Typed /\ Booked /\ [Next]_vars => Booked'
  <2>1. Typed /\ Booked /\ UNCHANGED vars => Booked'
    BY DEF Booked, CreationsOnce, CreationFresh, Unemitted, Untouched, EventsOf, HandedOver,
      FirstUnread, Unread, InPool, Due, PoolOnce, FirstStart, Rounds, Scheduled, NotSwitched,
      CreationPending, vars, broker, stored, tasks
  <2> QED
    BY <2>1, BookedSetup, BookedCrash, BookedEmit, BookedHandOver, BookedCommit, BookedCreated,
      RestIsCalm, BookedCalm
<1> QED
  BY <1>1, AlwaysTyped, BookedInit, BookedSuffices, PTL DEF Spec
=============================================================================
