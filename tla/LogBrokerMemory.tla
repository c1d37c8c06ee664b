--------------------------- MODULE LogBrokerMemory ---------------------------
(***************************************************************************)
(* The memory log broker, between its locks: threads append to one topic   *)
(* while consumers poll it. The topic's repository is made by whoever      *)
(* comes first, through a KeyedOnce: a double-checked semaphore of its own *)
(* beside the broker's reentrant lock. (Another topic shares the lock and  *)
(* has a semaphore of its own; the topic itself has been created.)         *)
(*                                                                         *)
(* `done` and `result` of a Once are plain fields that are read outside    *)
(* the semaphore: a thread that has not been through the semaphore since   *)
(* they were written may see neither, both, or only the first. (The locks  *)
(* of broker and segment are not counted as synchronising it.)             *)
(***************************************************************************)
EXTENDS Integers, Sequences, FiniteSets, SequencesExt

CONSTANTS
  Appenders, Consumers,  \* threads; a consumer has an id and offset of its own
  NoThread,
  MaxAppends,            \* bound: how many events one appender appends
  FetchLimit             \* Limit of a consumer's poll

ASSUME FetchLimitAssumption == FetchLimit \in Nat \ {0} /\ MaxAppends \in Nat
ASSUME ThreadsAssumption ==
  /\ IsFiniteSet(Appenders)
  /\ Appenders \cap Consumers = {} /\ NoThread \notin Appenders \cup Consumers

VARIABLES
  lock,      \* holder of the broker's lock
  mutex,     \* holder of the Once's semaphore
  done, result,          \* the Once
  synced,    \* the threads that must see what was written to it
  stores,    \* the events of every topic repository ever made
  pc,
  repo,      \* the repository a thread resolved, 0 before
  acked,     \* the events whose append has returned
  offset,    \* the committed offset of a consumer: 0, or the next event id
  fetched,   \* the ids of the events a consumer polled and has to deliver yet
  seen       \* the events a consumer's callback was called with

vars == <<lock, mutex, done, result, synced, stores, pc, repo, acked, offset,
          fetched, seen>>
once == <<mutex, done, result, synced>>
books == <<acked, offset, fetched, seen>>

Threads == Appenders \cup Consumers

Events == Appenders \X (1..MaxAppends)

Init ==
  /\ lock = NoThread /\ mutex = NoThread
  /\ done = FALSE /\ result = 0 /\ synced = {}
  /\ stores = <<>>
  /\ pc = [x \in Threads |-> "idle"]
  /\ repo = [x \in Threads |-> 0]
  /\ acked = {}
  /\ offset = [c \in Consumers |-> 0]
  /\ fetched = [c \in Consumers |-> <<>>]
  /\ seen = [c \in Consumers |-> <<>>]

Goto(x, next) == pc' = [pc EXCEPT ![x] = next]
-----------------------------------------------------------------------------
\* resolveTopicRepository, for an appender outside and for a consumer inside
\* the broker's lock.

Resolved(x, r) ==
  /\ repo' = [repo EXCEPT ![x] = r]
  /\ Goto(x, "use")

\* if (done) return result!!, unsynchronised.
FastPath(x) ==
  /\ pc[x] = "resolve"
  /\ done
  /\ Resolved(x, result)
  /\ UNCHANGED <<lock, once, stores, books>>

SlowPath(x) ==
  /\ pc[x] = "resolve"
  /\ x \notin synced
  /\ Goto(x, "acquire")
  /\ UNCHANGED <<lock, once, stores, repo, books>>

\* result!! is still null: the call throws, and withLock lets go of the lock.
StaleResult(x) ==
  /\ pc[x] = "resolve"
  /\ done /\ x \notin synced
  /\ Goto(x, "idle")
  /\ lock' = IF lock = x THEN NoThread ELSE lock
  /\ UNCHANGED <<once, stores, repo, books>>

Acquire(x) ==
  /\ pc[x] = "acquire"
  /\ mutex = NoThread
  /\ mutex' = x
  /\ Goto(x, "recheck")
  /\ UNCHANGED <<lock, done, result, synced, stores, repo, books>>

\* Mutant: done is not read again under the semaphore.
RecheckNothing(x) ==
  /\ pc[x] = "recheck"
  /\ Goto(x, "getTopic")
  /\ UNCHANGED <<lock, once, stores, repo, books>>

Recheck(x) ==
  /\ pc[x] = "recheck"
  /\ IF done THEN mutex' = NoThread /\ synced' = synced \cup {x} /\ Resolved(x, result)
     ELSE Goto(x, "getTopic") /\ UNCHANGED <<mutex, synced, repo>>
  /\ UNCHANGED <<lock, done, result, stores, books>>

\* fn: getTopic takes and releases the broker's lock; the repository is made.
GetTopic(x) ==
  /\ pc[x] = "getTopic"
  /\ lock \in {NoThread, x}
  /\ stores' = Append(stores, <<>>)
  /\ result' = Len(stores) + 1
  /\ done' = TRUE
  /\ synced' = {x}
  /\ mutex' = NoThread
  /\ Resolved(x, Len(stores) + 1)
  /\ UNCHANGED <<lock, books>>
-----------------------------------------------------------------------------
Pending(x) == ({x} \X (1..MaxAppends)) \ acked

StartAppend(x) ==
  /\ pc[x] = "idle"
  /\ Pending(x) # {}
  /\ Goto(x, "resolve")
  /\ UNCHANGED <<lock, once, stores, repo, books>>

\* LogSegmentMemoryRepository.append, under the segment's own lock.
AppendEvent(x) ==
  LET ev == CHOOSE e \in Pending(x) : \A f \in Pending(x) : e[2] <= f[2]
  IN  /\ x \in Appenders
      /\ pc[x] = "use"
      /\ stores' = [stores EXCEPT ![repo[x]] = Append(@, ev)]
      /\ acked' = acked \cup {ev}
      /\ Goto(x, "idle")
      /\ UNCHANGED <<lock, once, repo, offset, fetched, seen>>

\* LogConsumerImpl.consume: the poll, under the broker's lock throughout ...
StartConsume(c) ==
  /\ pc[c] = "idle"
  /\ lock = NoThread
  /\ lock' = c
  /\ Goto(c, "resolve")
  /\ UNCHANGED <<once, stores, repo, books>>

\* store.take(limit), or store.drop(firstId - 1).take(limit): ids count from 1.
FirstId(c) == IF offset[c] = 0 THEN 1 ELSE offset[c]

Read(c) ==
  LET n    == Len(stores[repo[c]])
      last == IF FirstId(c) + FetchLimit - 1 < n THEN FirstId(c) + FetchLimit - 1 ELSE n
  IN  /\ c \in Consumers
      /\ pc[c] = "use"
      /\ fetched' = [fetched EXCEPT ![c] = [i \in 1..(last - FirstId(c) + 1) |->
                                              FirstId(c) + i - 1]]
      /\ lock' = NoThread
      /\ Goto(c, IF last < FirstId(c) THEN "idle" ELSE "deliver")
      /\ UNCHANGED <<once, stores, repo, acked, offset, seen>>

\* ... then, event by event, the callback and the commit of its offset.
Deliver(c) ==
  /\ pc[c] = "deliver"
  /\ seen' = [seen EXCEPT ![c] = Append(@, stores[repo[c]][Head(fetched[c])])]
  /\ Goto(c, "commit")
  /\ UNCHANGED <<lock, once, stores, repo, acked, offset, fetched>>

\* Mutant: the id of the event itself is committed.
CommitSame(c) ==
  /\ pc[c] = "commit"
  /\ lock = NoThread
  /\ offset' = [offset EXCEPT ![c] = Head(fetched[c])]
  /\ fetched' = [fetched EXCEPT ![c] = Tail(@)]
  /\ Goto(c, IF Len(fetched[c]) = 1 THEN "idle" ELSE "deliver")
  /\ UNCHANGED <<lock, once, stores, repo, acked, seen>>

\* Mutant: what was polled is committed on top of the event's id.
CommitBeyond(c) ==
  /\ pc[c] = "commit"
  /\ lock = NoThread
  /\ offset' = [offset EXCEPT ![c] = Head(fetched[c]) + Len(fetched[c]) + 1]
  /\ fetched' = [fetched EXCEPT ![c] = Tail(@)]
  /\ Goto(c, IF Len(fetched[c]) = 1 THEN "idle" ELSE "deliver")
  /\ UNCHANGED <<lock, once, stores, repo, acked, seen>>

Commit(c) ==
  /\ pc[c] = "commit"
  /\ lock = NoThread
  /\ offset' = [offset EXCEPT ![c] = Head(fetched[c]) + 1]
  /\ fetched' = [fetched EXCEPT ![c] = Tail(@)]
  /\ Goto(c, IF Len(fetched[c]) = 1 THEN "idle" ELSE "deliver")
  /\ UNCHANGED <<lock, once, stores, repo, acked, seen>>

Next ==
  \/ \E x \in Threads : \/ FastPath(x) \/ SlowPath(x) \/ StaleResult(x)
                        \/ Acquire(x) \/ Recheck(x) \/ GetTopic(x)
  \/ \E x \in Appenders : StartAppend(x) \/ AppendEvent(x)
  \/ \E c \in Consumers : StartConsume(c) \/ Read(c) \/ Deliver(c) \/ Commit(c)

Spec == Init /\ [][Next]_vars
-----------------------------------------------------------------------------
\* Every variable has its type; no commit ever moves an offset past the id that
\* follows the last event there can be.
TypeOK ==
  /\ lock \in Threads \cup {NoThread} /\ mutex \in Threads \cup {NoThread}
  /\ done \in BOOLEAN /\ result \in 0..Len(stores) /\ synced \subseteq Threads
  /\ stores \in Seq(Seq(Events))
  /\ pc \in [Threads -> {"idle", "resolve", "acquire", "recheck", "getTopic", "use",
                         "deliver", "commit"}]
  /\ repo \in [Threads -> 0..Len(stores)]
  /\ acked \subseteq Events
  /\ \A c \in Consumers :
       /\ offset[c] \in 0..(1 + MaxAppends * Cardinality(Appenders))
       /\ fetched[c] \in Seq(Nat)
       /\ seen[c] \in Seq(Events)

\* No append is lost: what append has returned for is in the one repository
\* that every later poll reads, once, whoever won the race to make it.
NothingLost ==
  \A ev \in acked :
    result # 0 /\ \E i \in DOMAIN stores[result] :
      /\ stores[result][i] = ev
      /\ \A j \in DOMAIN stores[result] : stores[result][j] = ev => j = i

\* A consumer's callback sees the events in the order of the log, each once and
\* none left out, however its polls and commits fall between the appends.
SeenInOrder ==
  \A c \in Consumers : seen[c] # <<>> => IsPrefix(seen[c], stores[result])

\* ConsumerTest, `Can run concurrent to appender`: no thread waits for one that
\* waits for it.
NoCircularWait ==
  ~ \E x, c \in Threads :
      /\ mutex = x /\ pc[x] = "getTopic"
      /\ lock = c /\ pc[c] = "acquire"
      /\ x # c
=============================================================================
