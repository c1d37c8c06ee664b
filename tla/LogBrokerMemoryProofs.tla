----------------------- MODULE LogBrokerMemoryProofs -----------------------
(***************************************************************************)
(* For any threads, appends and fetch limit: the topic has one repository, *)
(* whoever made it and whoever read a stale `done`; it keeps every append  *)
(* once; and every consumer sees a prefix of it.                           *)
(***************************************************************************)
EXTENDS LogBrokerMemory, FiniteSetTheorems, WellFoundedInduction, TLAPS

\* Nothing is made before the Once is done, and one repository by then.
OnceOK ==
  \/ done = TRUE /\ result = 1 /\ Len(stores) = 1
  \/ done = FALSE /\ result = 0 /\ stores = << >> /\ synced = {}

\* Who is inside the semaphore holds it, so that one thread makes the repository.
MutexOK ==
  \A x \in Threads :
    /\ pc[x] \in {"recheck", "getTopic"} => mutex = x
    /\ pc[x] = "getTopic" => done = FALSE

\* A repository that was resolved is the one there is.
ResolvedOK ==
  \A x \in Threads :
    /\ repo[x] # 0 => done = TRUE /\ repo[x] = 1
    /\ pc[x] \in {"use", "deliver", "commit"} => repo[x] = 1

Base ==
  /\ lock \in Threads \cup {NoThread} /\ mutex \in Threads \cup {NoThread}
  /\ synced \subseteq Threads
  /\ stores \in Seq(Seq(Events))
  /\ pc \in [Threads -> {"idle", "resolve", "acquire", "recheck", "getTopic", "use",
                         "deliver", "commit"}]
  /\ \A x \in Appenders : pc[x] \notin {"deliver", "commit"}
  /\ repo \in [Threads -> Nat]
  /\ OnceOK /\ MutexOK /\ ResolvedOK

Log == IF done THEN stores[1] ELSE << >>

\* The log holds what was acknowledged, each event once; an appender under way
\* has something left to append.
AppendedOK ==
  /\ acked \subseteq Events
  /\ Log \in Seq(Events)
  /\ \A i \in 1..Len(Log) : Log[i] \in acked
  /\ \A ev \in acked : \E i \in 1..Len(Log) : Log[i] = ev
  /\ \A i, j \in 1..Len(Log) : Log[i] = Log[j] => i = j
  /\ \A x \in Appenders : pc[x] # "idle" => Pending(x) # {}

\* A consumer has seen a prefix of the log, and has fetched what follows it.
Position(c) ==
  LET n == Len(seen[c])
      m == IF pc[c] = "commit" THEN n - 1 ELSE n
  IN  /\ \A k \in 1..Len(fetched[c]) : fetched[c][k] = m + k
      /\ m + Len(fetched[c]) <= Len(Log)
      /\ pc[c] \in {"deliver", "commit"} <=> Len(fetched[c]) > 0
      /\ FirstId(c) = m + 1

ConsumedOK ==
  /\ offset \in [Consumers -> Nat]
  /\ fetched \in [Consumers -> Seq(Nat)]
  /\ seen \in [Consumers -> Seq(Events)]
  /\ \A c \in Consumers :
       /\ Len(seen[c]) <= Len(Log)
       /\ \A i \in 1..Len(seen[c]) : seen[c][i] = Log[i]
       /\ Position(c)

IInv == Base /\ AppendedOK /\ ConsumedOK
-----------------------------------------------------------------------------
LEMMA BaseInit == Init => Base
BY DEF Init, Base, OnceOK, MutexOK, ResolvedOK, Threads

\* The steps of resolveTopicRepository, for any thread.
Resolving(x) ==
  FastPath(x) \/ SlowPath(x) \/ StaleResult(x) \/ Acquire(x) \/ Recheck(x) \/ GetTopic(x)

LEMMA BaseResolving ==
  ASSUME Base, NEW x \in Threads, Resolving(x)
  PROVE  Base' /\ Log' = Log
<1>0. /\ lock \in Threads \cup {NoThread} /\ mutex \in Threads \cup {NoThread}
      /\ synced \subseteq Threads /\ stores \in Seq(Seq(Events))
      /\ pc \in [Threads -> {"idle", "resolve", "acquire", "recheck", "getTopic", "use",
                             "deliver", "commit"}]
      /\ \A y \in Appenders : pc[y] \notin {"deliver", "commit"}
      /\ repo \in [Threads -> Nat]
      /\ OnceOK /\ MutexOK /\ ResolvedOK
      /\ Appenders \subseteq Threads
      /\ NoThread \notin Threads
  BY ThreadsAssumption DEF Base, Threads
<1>1. CASE FastPath(x)
  <2>1. /\ UNCHANGED <<lock, mutex, done, result, synced, stores>> /\ done = TRUE
        /\ repo' = [repo EXCEPT ![x] = 1] /\ pc' = [pc EXCEPT ![x] = "use"] /\ pc[x] = "resolve"
    BY <1>0, <1>1 DEF FastPath, Resolved, Goto, once, OnceOK
  <2>2. OnceOK' /\ MutexOK' /\ ResolvedOK'
    BY <1>0, <2>1 DEF OnceOK, MutexOK, ResolvedOK
  <2> QED
    BY <1>0, <2>1, <2>2 DEF Base, Log
<1>2. CASE SlowPath(x)
  <2>1. /\ UNCHANGED <<lock, mutex, done, result, synced, stores, repo>>
        /\ pc' = [pc EXCEPT ![x] = "acquire"]
    BY <1>2 DEF SlowPath, Goto, once
  <2>2. OnceOK' /\ MutexOK' /\ ResolvedOK'
    BY <1>0, <2>1 DEF OnceOK, MutexOK, ResolvedOK
  <2> QED
    BY <1>0, <2>1, <2>2 DEF Base, Log
<1>3. CASE StaleResult(x)
  <2>1. /\ UNCHANGED <<mutex, done, result, synced, stores, repo>>
        /\ pc' = [pc EXCEPT ![x] = "idle"] /\ lock' \in Threads \cup {NoThread}
    BY <1>0, <1>3 DEF StaleResult, Goto, once
  <2>2. OnceOK' /\ MutexOK' /\ ResolvedOK'
    BY <1>0, <2>1 DEF OnceOK, MutexOK, ResolvedOK
  <2> QED
    BY <1>0, <2>1, <2>2 DEF Base, Log
<1>4. CASE Acquire(x)
  <2>1. /\ UNCHANGED <<lock, done, result, synced, stores, repo>>
        /\ mutex = NoThread /\ mutex' = x /\ pc' = [pc EXCEPT ![x] = "recheck"]
    BY <1>4 DEF Acquire, Goto
  <2>2. OnceOK' /\ MutexOK' /\ ResolvedOK'
    BY <1>0, <2>1 DEF OnceOK, MutexOK, ResolvedOK
  <2> QED
    BY <1>0, <2>1, <2>2 DEF Base, Log
<1>5. CASE Recheck(x)
  <2>0. UNCHANGED <<lock, done, result, stores>> /\ pc[x] = "recheck" /\ mutex = x
    BY <1>0, <1>5 DEF Recheck, MutexOK
  <2>1. CASE done
    <3>1. /\ mutex' = NoThread /\ synced' = synced \cup {x}
          /\ repo' = [repo EXCEPT ![x] = 1] /\ pc' = [pc EXCEPT ![x] = "use"]
      BY <1>0, <1>5, <2>1 DEF Recheck, Resolved, Goto, OnceOK
    <3>2. OnceOK' /\ MutexOK' /\ ResolvedOK'
      BY <1>0, <2>0, <2>1, <3>1 DEF OnceOK, MutexOK, ResolvedOK
    <3> QED
      BY <1>0, <2>0, <3>1, <3>2 DEF Base, Log
  <2>2. CASE ~done
    <3>1. UNCHANGED <<mutex, synced, repo>> /\ pc' = [pc EXCEPT ![x] = "getTopic"]
      BY <1>5, <2>2 DEF Recheck, Goto
    <3>2. OnceOK' /\ MutexOK' /\ ResolvedOK'
      BY <1>0, <2>0, <2>2, <3>1 DEF OnceOK, MutexOK, ResolvedOK
    <3> QED
      BY <1>0, <2>0, <3>1, <3>2 DEF Base, Log
  <2> QED
    BY <2>1, <2>2
<1>6. CASE GetTopic(x)
  <2>1. done = FALSE /\ stores = << >> /\ pc[x] = "getTopic" /\ mutex = x
    BY <1>0, <1>6 DEF GetTopic, MutexOK, OnceOK
  <2>2. /\ stores' = <<<<>>>> /\ result' = 1 /\ done' = TRUE /\ synced' = {x}
        /\ mutex' = NoThread /\ lock' = lock
        /\ repo' = [repo EXCEPT ![x] = 1] /\ pc' = [pc EXCEPT ![x] = "use"]
    BY <1>6, <2>1 DEF GetTopic, Resolved, Goto
  <2>3. /\ stores' \in Seq(Seq(Events)) /\ Len(stores') = 1 /\ stores'[1] = << >>
    BY <2>2
  <2>4. OnceOK' /\ MutexOK' /\ ResolvedOK'
    BY <1>0, <2>1, <2>2, <2>3 DEF OnceOK, MutexOK, ResolvedOK
  <2>5. Log' = Log
    BY <2>1, <2>2, <2>3 DEF Log
  <2> QED
    BY <1>0, <2>2, <2>3, <2>4, <2>5 DEF Base
<1> QED
  BY <1>1, <1>2, <1>3, <1>4, <1>5, <1>6 DEF Resolving

\* The steps that touch neither the Once nor the repositories.
LEMMA BaseOther ==
  ASSUME Base, NEW x \in Threads,
         UNCHANGED <<mutex, done, result, synced, stores, repo>>,
         lock' \in Threads \cup {NoThread},
         NEW next \in {"idle", "resolve", "deliver", "commit"}, pc' = [pc EXCEPT ![x] = next],
         next \in {"deliver", "commit"} => x \notin Appenders /\ repo[x] = 1
  PROVE  Base' /\ Log' = Log
<1>1. OnceOK' /\ MutexOK' /\ ResolvedOK'
  BY DEF Base, OnceOK, MutexOK, ResolvedOK
<1>2. \A y \in Appenders : y \in Threads
  BY DEF Threads
<1> QED
  BY <1>1, <1>2 DEF Base, Log

LEMMA LeastPending ==
  ASSUME NEW x, MaxAppends \in Nat, Pending(x) # {}
  PROVE  \E e \in Pending(x) : \A f \in Pending(x) : e[2] <= f[2]
<1> DEFINE T == {e[2] : e \in Pending(x)}
           R == {p \in Nat \X Nat : p[1] < p[2]}
<1>1. \A e \in Pending(x) : e[2] \in Nat
  BY DEF Pending
<1>2. T \subseteq Nat /\ T # {}
  BY <1>1
<1>3. R = OpToRel(<, Nat)
  BY DEF OpToRel
<1>4. IsWellFoundedOn(R, Nat)
  BY <1>3, NatLessThanWellFounded, Zenon
<1>5. PICK n \in T : \A m \in T : ~ (<<m, n>> \in R)
  <2> HIDE DEF T, R
  <2> QED
    BY <1>2, <1>4, WFMin
<1>6. ASSUME NEW m \in T  PROVE n <= m
  <2>1. m \in Nat /\ n \in Nat /\ ~ (<<m, n>> \in R)
    BY <1>2, <1>5
  <2> HIDE DEF T
  <2> QED
    BY <2>1
<1>7. PICK e \in Pending(x) : n = e[2]
  BY <1>5
<1> QED
  BY <1>6, <1>7

\* An append adds one event that was not in the log.
LEMMA AppendAppends ==
  ASSUME IInv, NEW x \in Appenders, AppendEvent(x)
  PROVE  \E ev \in Pending(x) :
           /\ Base' /\ Log' = Append(Log, ev) /\ acked' = acked \cup {ev}
           /\ pc' = [pc EXCEPT ![x] = "idle"] /\ UNCHANGED <<offset, fetched, seen>>
<1> DEFINE ev == CHOOSE e \in Pending(x) : \A f \in Pending(x) : e[2] <= f[2]
<1>1. /\ pc[x] = "use"
      /\ stores' = [stores EXCEPT ![repo[x]] = Append(@, ev)]
      /\ acked' = acked \cup {ev}
      /\ pc' = [pc EXCEPT ![x] = "idle"]
      /\ UNCHANGED <<lock, once, repo, offset, fetched, seen>>
  BY DEF AppendEvent, Goto
<1>2. ev \in Pending(x)
  <2>1. Pending(x) # {}
    BY <1>1 DEF IInv, AppendedOK
  <2> QED
    BY <2>1, LeastPending, FetchLimitAssumption
<1>3. ev \in Events
  BY <1>2 DEF Pending, Events
<1> HIDE DEF ev
<1>4. /\ x \in Threads /\ repo[x] = 1 /\ done = TRUE /\ result = 1 /\ Len(stores) = 1
      /\ stores \in Seq(Seq(Events)) /\ stores[1] = Log
  BY <1>1 DEF IInv, Base, ResolvedOK, OnceOK, Threads, Log
<1>5. stores' = [stores EXCEPT ![1] = Append(Log, ev)]
  BY <1>1, <1>4
<1>6. /\ Append(Log, ev) \in Seq(Events)
      /\ Len(stores') = 1 /\ stores'[1] = Append(Log, ev)
  BY <1>3, <1>4, <1>5 DEF IInv, AppendedOK
<1>7. stores' \in Seq(Seq(Events))
  <2>1. ASSUME NEW S, NEW q \in Seq(S), NEW e \in S, Len(q) = 1
        PROVE  [q EXCEPT ![1] = e] \in Seq(S)
    <3>1. [q EXCEPT ![1] = e] = [i \in 1..1 |-> e]
      <4>1. DOMAIN q = 1..1 /\ q = [i \in 1..1 |-> q[i]]
        BY <2>1
      <4>2. [q EXCEPT ![1] = e] = [i \in 1..1 |-> IF i = 1 THEN e ELSE q[i]]
        BY <4>1
      <4>3. \A i \in 1..1 : i = 1
        OBVIOUS
      <4> QED
        BY <4>2, <4>3
    <3>2. [i \in 1..1 |-> e] \in Seq(S)
      OBVIOUS
    <3> QED
      BY <3>1, <3>2
  <2> QED
    BY <1>4, <1>5, <1>6, <2>1
<1>8. UNCHANGED <<lock, mutex, done, result, synced, repo>>
  BY <1>1 DEF once
<1>9. OnceOK' /\ MutexOK' /\ ResolvedOK'
  BY <1>1, <1>4, <1>6, <1>8 DEF IInv, Base, OnceOK, MutexOK, ResolvedOK
<1>10. Base'
  BY <1>1, <1>4, <1>7, <1>8, <1>9 DEF IInv, Base
<1>11. Log' = Append(Log, ev)
  BY <1>4, <1>6, <1>8 DEF Log
<1> QED
  BY <1>1, <1>2, <1>10, <1>11

\* The log and the acknowledged events agree after any step that appends nothing.
LEMMA AppendedStays ==
  ASSUME AppendedOK, Log' = Log, acked' = acked,
         \A y \in Appenders : pc'[y] # "idle" => pc[y] # "idle" \/ Pending(y) # {}
  PROVE  AppendedOK'
<1>1. \A y : Pending(y)' = Pending(y)
  BY DEF Pending
<1> QED
  BY <1>1 DEF AppendedOK

LEMMA AppendedAppend ==
  ASSUME IInv, NEW x \in Appenders, AppendEvent(x)
  PROVE  AppendedOK'
<1>1. PICK ev \in Pending(x) :
        /\ Base' /\ Log' = Append(Log, ev) /\ acked' = acked \cup {ev}
        /\ pc' = [pc EXCEPT ![x] = "idle"] /\ UNCHANGED <<offset, fetched, seen>>
  BY AppendAppends
<1>2. /\ ev \in Events /\ ev \notin acked /\ Log \in Seq(Events)
      /\ \A y \in Appenders : y # x => Pending(y) \cap {ev} = {}
  BY DEF Pending, Events, IInv, AppendedOK
<1>3. /\ Len(Log') = Len(Log) + 1 /\ Len(Log) \in Nat /\ Log'[Len(Log) + 1] = ev
      /\ \A i \in 1..Len(Log) : Log'[i] = Log[i]
      /\ Log' \in Seq(Events)
  BY <1>1, <1>2
<1>4. acked' \subseteq Events
  BY <1>1, <1>2 DEF IInv, AppendedOK
<1>5. \A i \in 1..Len(Log') : Log'[i] \in acked'
  BY <1>1, <1>3 DEF IInv, AppendedOK
<1>6. ASSUME NEW e \in acked'  PROVE \E i \in 1..Len(Log') : Log'[i] = e
  <2>1. CASE e = ev
    BY <1>3, <2>1
  <2>2. CASE e \in acked
    <3>1. PICK i \in 1..Len(Log) : Log[i] = e
      BY <2>2 DEF IInv, AppendedOK
    <3>2. i \in 1..Len(Log') /\ Log'[i] = e
      BY <1>3, <3>1
    <3> QED
      BY <3>2
  <2> QED
    BY <1>1, <2>1, <2>2
<1>7. \A i, j \in 1..Len(Log') : Log'[i] = Log'[j] => i = j
  <2>1. \A i \in 1..Len(Log) : Log[i] # ev
    BY <1>2 DEF IInv, AppendedOK
  <2>2. \A i, j \in 1..Len(Log) : Log[i] = Log[j] => i = j
    BY DEF IInv, AppendedOK
  <2>3. \A i \in 1..Len(Log') : i \in 1..Len(Log) \/ i = Len(Log) + 1
    BY <1>3
  <2> QED
    BY <1>3, <2>1, <2>2, <2>3
<1>8. \A y \in Appenders : pc'[y] # "idle" => Pending(y)' # {}
  <2>1. \A y \in Appenders : y # x => Pending(y)' = Pending(y)
    BY <1>1, <1>2 DEF Pending
  <2>2. pc \in [Threads -> {"idle", "resolve", "acquire", "recheck", "getTopic", "use",
                            "deliver", "commit"}] /\ x \in Threads
    BY DEF IInv, Base, Threads
  <2>3. pc'[x] = "idle" /\ \A y \in Appenders : y # x => pc'[y] = pc[y]
    BY <1>1, <2>2 DEF Threads
  <2> QED
    BY <2>1, <2>3 DEF IInv, AppendedOK
<1> QED
  BY <1>3, <1>4, <1>5, <1>6, <1>7, <1>8 DEF AppendedOK

\* The seen prefix of a consumer that takes no step is still one when the log grows.
LEMMA ConsumedStays ==
  ASSUME IInv, UNCHANGED <<offset, fetched, seen>>,
         Len(Log') \in Nat, Len(Log) <= Len(Log'), Len(Log) \in Nat,
         \A i \in 1..Len(Log) : Log'[i] = Log[i],
         \A c \in Consumers : \/ pc'[c] = pc[c]
                              \/ pc[c] \notin {"deliver", "commit"}
                                 /\ pc'[c] \notin {"deliver", "commit"}
  PROVE  ConsumedOK'
<1>1. ASSUME NEW c \in Consumers
      PROVE  /\ Len(seen[c]) <= Len(Log')
             /\ \A i \in 1..Len(seen[c]) : seen[c][i] = Log'[i]
             /\ Position(c)'
  <2>1. /\ seen[c] \in Seq(Events) /\ fetched[c] \in Seq(Nat)
        /\ Len(seen[c]) \in Nat /\ Len(fetched[c]) \in Nat
        /\ Len(seen[c]) <= Len(Log)
        /\ \A i \in 1..Len(seen[c]) : seen[c][i] = Log[i]
        /\ Position(c)
    BY DEF IInv, ConsumedOK
  <2>2. /\ pc'[c] = "commit" <=> pc[c] = "commit"
        /\ pc'[c] \in {"deliver", "commit"} <=> pc[c] \in {"deliver", "commit"}
    OBVIOUS
  <2>3. FirstId(c)' = FirstId(c)
    BY DEF FirstId
  <2>4. Position(c)'
    <3> DEFINE m == IF pc[c] = "commit" THEN Len(seen[c]) - 1 ELSE Len(seen[c])
    <3>1. /\ \A k \in 1..Len(fetched[c]) : fetched[c][k] = m + k
          /\ m + Len(fetched[c]) <= Len(Log)
          /\ pc[c] \in {"deliver", "commit"} <=> Len(fetched[c]) > 0
          /\ FirstId(c) = m + 1
      BY <2>1, Zenon DEF Position
    <3>2. m' = m /\ fetched' = fetched /\ m \in Int
      BY <2>1, <2>2
    <3> HIDE DEF m
    <3>3. /\ \A k \in 1..Len(fetched'[c]) : fetched'[c][k] = m' + k
          /\ m' + Len(fetched'[c]) <= Len(Log')
          /\ pc'[c] \in {"deliver", "commit"} <=> Len(fetched'[c]) > 0
          /\ FirstId(c)' = m' + 1
      BY <2>1, <2>2, <2>3, <3>1, <3>2
    <3> QED
      BY <3>3 DEF Position, m
  <2> QED
    BY <2>1, <2>4
<1> QED
  BY <1>1 DEF IInv, ConsumedOK

LEMMA LogTyped ==
  ASSUME IInv
  PROVE  Log \in Seq(Events) /\ Len(Log) \in Nat
BY DEF IInv, AppendedOK

\* A poll takes the events after those seen, as far as the log goes.
LEMMA ReadStep ==
  ASSUME IInv, NEW c \in Consumers, Read(c)
  PROVE  IInv'
<1> DEFINE n == Len(stores[repo[c]])
           last == IF FirstId(c) + FetchLimit - 1 < n THEN FirstId(c) + FetchLimit - 1 ELSE n
           got == [i \in 1..(last - FirstId(c) + 1) |-> FirstId(c) + i - 1]
           next == IF last < FirstId(c) THEN "idle" ELSE "deliver"
<1>1. /\ pc[c] = "use" /\ fetched' = [fetched EXCEPT ![c] = got]
      /\ lock' = NoThread /\ pc' = [pc EXCEPT ![c] = next]
      /\ UNCHANGED <<once, stores, repo, acked, offset, seen>>
  BY DEF Read, Goto
<1>2. /\ c \in Threads /\ c \notin Appenders
      /\ pc \in [Threads -> {"idle", "resolve", "acquire", "recheck", "getTopic", "use",
                             "deliver", "commit"}]
  BY ThreadsAssumption DEF IInv, Base, Threads
<1>3. repo[c] = 1 /\ stores[repo[c]] = Log /\ Log \in Seq(Events) /\ Len(Log) \in Nat
  <2>1. repo[c] = 1 /\ done = TRUE
    BY <1>1, <1>2 DEF IInv, Base, ResolvedOK
  <2>2. stores[1] = Log
    BY <2>1 DEF Log
  <2> QED
    BY <2>1, <2>2, LogTyped
<1>4. n = Len(Log)
  BY <1>3
<1>5. /\ FirstId(c) = Len(seen[c]) + 1 /\ Len(seen[c]) \in Nat /\ Len(seen[c]) <= Len(Log)
      /\ FetchLimit \in Nat \ {0}
  BY <1>1, FetchLimitAssumption DEF IInv, ConsumedOK, Position
<1> HIDE DEF n
<1>6. /\ last \in Nat /\ last <= Len(Log) /\ last - FirstId(c) + 1 \in Nat
      /\ last < FirstId(c) <=> last - FirstId(c) + 1 = 0
  BY <1>3, <1>4, <1>5
<1> HIDE DEF last
<1>7. /\ got \in Seq(Nat) /\ Len(got) = last - FirstId(c) + 1
      /\ \A k \in 1..Len(got) : got[k] = Len(seen[c]) + k
  BY <1>5, <1>6
<1>8. /\ next \in {"idle", "deliver"}
      /\ next = "deliver" <=> Len(got) > 0
      /\ Len(seen[c]) + Len(got) <= Len(Log)
  BY <1>5, <1>6, <1>7
<1> HIDE DEF got, next
<1>9. Base' /\ Log' = Log
  <2>1. UNCHANGED <<mutex, done, result, synced, stores, repo>>
    BY <1>1 DEF once
  <2> QED
    BY <1>1, <1>2, <1>3, <1>8, <2>1, BaseOther DEF IInv
<1>10. AppendedOK'
  <2>1. \A y \in Appenders : pc'[y] = pc[y]
    BY <1>1, <1>2 DEF Threads
  <2> QED
    BY <1>1, <1>9, <2>1, AppendedStays DEF IInv
<1>11. ConsumedOK'
  <2>1. fetched' \in [Consumers -> Seq(Nat)]
    BY <1>1, <1>7 DEF IInv, ConsumedOK
  <2>2. ASSUME NEW d \in Consumers
        PROVE  /\ Len(seen'[d]) <= Len(Log')
               /\ \A i \in 1..Len(seen'[d]) : seen'[d][i] = Log'[i]
               /\ Position(d)'
    <3>1. /\ Len(seen[d]) <= Len(Log) /\ \A i \in 1..Len(seen[d]) : seen[d][i] = Log[i]
          /\ Position(d) /\ FirstId(d)' = FirstId(d) /\ seen' = seen
      BY <1>1 DEF IInv, ConsumedOK, FirstId
    <3>2. CASE d = c
      <4>1. pc'[c] = next /\ fetched'[c] = got
        BY <1>1, <1>2 DEF IInv, ConsumedOK
      <4>2. Position(c)'
        BY <1>5, <1>7, <1>8, <1>9, <3>1, <3>2, <4>1 DEF Position
      <4> QED
        BY <1>9, <3>1, <3>2, <4>2
    <3>3. CASE d # c
      <4>1. pc'[d] = pc[d] /\ fetched'[d] = fetched[d]
        BY <1>1, <1>2, <3>3 DEF IInv, ConsumedOK, Threads
      <4>2. Position(d)'
        BY <1>9, <3>1, <4>1 DEF Position
      <4> QED
        BY <1>9, <3>1, <4>2
    <3> QED
      BY <3>2, <3>3
  <2> QED
    BY <1>1, <2>1, <2>2 DEF IInv, ConsumedOK
<1> QED
  BY <1>9, <1>10, <1>11 DEF IInv

\* Position by its conjuncts, for a consumer in a known state.
LEMMA PositionIs ==
  ASSUME NEW c, Position(c), Len(seen[c]) \in Nat
  PROVE  \E m \in Int :
           /\ m = IF pc[c] = "commit" THEN Len(seen[c]) - 1 ELSE Len(seen[c])
           /\ \A k \in 1..Len(fetched[c]) : fetched[c][k] = m + k
           /\ m + Len(fetched[c]) <= Len(Log)
           /\ pc[c] \in {"deliver", "commit"} <=> Len(fetched[c]) > 0
           /\ FirstId(c) = m + 1
<1> DEFINE m == IF pc[c] = "commit" THEN Len(seen[c]) - 1 ELSE Len(seen[c])
<1>1. m \in Int
  OBVIOUS
<1>2. /\ \A k \in 1..Len(fetched[c]) : fetched[c][k] = m + k
      /\ m + Len(fetched[c]) <= Len(Log)
      /\ pc[c] \in {"deliver", "commit"} <=> Len(fetched[c]) > 0
      /\ FirstId(c) = m + 1
  BY Zenon DEF Position
<1> QED
  BY <1>1, <1>2

\* A consumer's step that leaves the other consumers and the log alone.
LEMMA ConsumerStep ==
  ASSUME IInv, NEW c \in Consumers, Log' = Log,
         offset' \in [Consumers -> Nat], fetched' \in [Consumers -> Seq(Nat)],
         seen' \in [Consumers -> Seq(Events)],
         \A d \in Consumers \ {c} : /\ pc'[d] = pc[d] /\ offset'[d] = offset[d]
                                    /\ fetched'[d] = fetched[d] /\ seen'[d] = seen[d],
         Len(seen'[c]) <= Len(Log), \A i \in 1..Len(seen'[c]) : seen'[c][i] = Log[i],
         Position(c)'
  PROVE  ConsumedOK'
<1>1. ASSUME NEW d \in Consumers \ {c}
      PROVE  /\ Len(seen'[d]) <= Len(Log') /\ \A i \in 1..Len(seen'[d]) : seen'[d][i] = Log'[i]
             /\ Position(d)'
  <2>1. /\ Len(seen[d]) <= Len(Log) /\ \A i \in 1..Len(seen[d]) : seen[d][i] = Log[i]
        /\ Position(d) /\ Len(seen[d]) \in Nat
    BY DEF IInv, ConsumedOK
  <2>2. FirstId(d)' = FirstId(d)
    BY DEF FirstId
  <2>3. Position(d)'
    <3>1. PICK m \in Int :
            /\ m = IF pc[d] = "commit" THEN Len(seen[d]) - 1 ELSE Len(seen[d])
            /\ \A k \in 1..Len(fetched[d]) : fetched[d][k] = m + k
            /\ m + Len(fetched[d]) <= Len(Log)
            /\ pc[d] \in {"deliver", "commit"} <=> Len(fetched[d]) > 0
            /\ FirstId(d) = m + 1
      BY <2>1, PositionIs
    <3>2. /\ m = IF pc'[d] = "commit" THEN Len(seen'[d]) - 1 ELSE Len(seen'[d])
          /\ \A k \in 1..Len(fetched'[d]) : fetched'[d][k] = m + k
          /\ m + Len(fetched'[d]) <= Len(Log')
          /\ pc'[d] \in {"deliver", "commit"} <=> Len(fetched'[d]) > 0
          /\ FirstId(d)' = m + 1
      BY <2>2, <3>1
    <3> QED
      BY <3>2 DEF Position
  <2> QED
    BY <2>1, <2>3
<1> QED
  BY <1>1 DEF ConsumedOK

\* The callback gets the event that follows those seen.
LEMMA DeliverStep ==
  ASSUME IInv, NEW c \in Consumers, Deliver(c)
  PROVE  IInv'
<1> DEFINE ev == stores[repo[c]][Head(fetched[c])]
<1>1. /\ pc[c] = "deliver" /\ seen' = [seen EXCEPT ![c] = Append(@, ev)]
      /\ pc' = [pc EXCEPT ![c] = "commit"]
      /\ UNCHANGED <<lock, once, stores, repo, acked, offset, fetched>>
  BY DEF Deliver, Goto
<1>2. /\ c \in Threads /\ c \notin Appenders
      /\ pc \in [Threads -> {"idle", "resolve", "acquire", "recheck", "getTopic", "use",
                             "deliver", "commit"}]
  BY ThreadsAssumption DEF IInv, Base, Threads
<1>3. repo[c] = 1 /\ stores[repo[c]] = Log /\ Log \in Seq(Events) /\ Len(Log) \in Nat
  <2>1. repo[c] = 1 /\ done = TRUE
    BY <1>1, <1>2 DEF IInv, Base, ResolvedOK
  <2>2. stores[1] = Log
    BY <2>1 DEF Log
  <2> QED
    BY <2>1, <2>2, LogTyped
<1>4. /\ seen[c] \in Seq(Events) /\ fetched[c] \in Seq(Nat) /\ Len(seen[c]) \in Nat
      /\ Len(fetched[c]) \in Nat
      /\ Len(seen[c]) <= Len(Log) /\ \A i \in 1..Len(seen[c]) : seen[c][i] = Log[i]
      /\ Position(c)
  BY DEF IInv, ConsumedOK
<1>5. /\ \A k \in 1..Len(fetched[c]) : fetched[c][k] = Len(seen[c]) + k
      /\ Len(seen[c]) + Len(fetched[c]) <= Len(Log) /\ Len(fetched[c]) > 0
      /\ FirstId(c) = Len(seen[c]) + 1
  BY <1>1, <1>4, PositionIs
<1>6. Head(fetched[c]) = Len(seen[c]) + 1 /\ Len(seen[c]) + 1 <= Len(Log)
  <2>1. Head(fetched[c]) = fetched[c][1] /\ 1 \in 1..Len(fetched[c])
    BY <1>4, <1>5
  <2>2. fetched[c][1] = Len(seen[c]) + 1
    BY <1>5, <2>1
  <2>3. Len(seen[c]) \in Nat /\ Len(fetched[c]) \in Nat /\ Len(Log) \in Nat
    BY <1>3, <1>4
  <2>4. Len(seen[c]) + Len(fetched[c]) <= Len(Log) /\ Len(fetched[c]) > 0
    BY <1>5
  <2>5. Len(seen[c]) + 1 <= Len(Log)
    <3> DEFINE a == Len(seen[c])  b == Len(fetched[c])  l == Len(Log)
    <3>1. a \in Nat /\ b \in Nat /\ l \in Nat /\ a + b <= l /\ b > 0
      BY <2>3, <2>4, Zenon
    <3> HIDE DEF a, b, l
    <3>2. a + 1 <= l
      BY <3>1
    <3> QED
      BY <3>2 DEF a, l
  <2> QED
    BY <2>1, <2>2, <2>5
<1>7. ev = Log[Len(seen[c]) + 1] /\ ev \in Events
  BY <1>3, <1>4, <1>6
<1> HIDE DEF ev
<1>8. /\ seen'[c] = Append(seen[c], ev) /\ seen' \in [Consumers -> Seq(Events)]
      /\ Len(seen'[c]) = Len(seen[c]) + 1
      /\ \A i \in 1..Len(seen'[c]) : seen'[c][i] = Log[i]
  <2>1. seen \in [Consumers -> Seq(Events)]
    BY DEF IInv, ConsumedOK
  <2>2. seen'[c] = Append(seen[c], ev) /\ Append(seen[c], ev) \in Seq(Events)
    BY <1>1, <1>4, <1>7, <2>1
  <2>3. /\ Len(seen'[c]) = Len(seen[c]) + 1
        /\ \A i \in 1..Len(seen[c]) : seen'[c][i] = seen[c][i]
        /\ seen'[c][Len(seen[c]) + 1] = ev
    BY <1>4, <1>7, <2>2
  <2>4. \A i \in 1..Len(seen'[c]) : i \in 1..Len(seen[c]) \/ i = Len(seen[c]) + 1
    BY <1>4, <2>3
  <2>5. seen' \in [Consumers -> Seq(Events)]
    BY <1>1, <2>1, <2>2
  <2> QED
    BY <1>4, <1>7, <2>2, <2>3, <2>4, <2>5
<1>9. Base' /\ Log' = Log
  <2>1. UNCHANGED <<lock, mutex, done, result, synced, stores, repo>>
    BY <1>1 DEF once
  <2>2. lock' \in Threads \cup {NoThread}
    BY <2>1 DEF IInv, Base
  <2> QED
    BY <1>1, <1>2, <1>3, <2>1, <2>2, BaseOther DEF IInv
<1>10. AppendedOK'
  <2>1. \A y \in Appenders : pc'[y] = pc[y]
    BY <1>1, <1>2 DEF Threads
  <2> QED
    BY <1>1, <1>9, <2>1, AppendedStays DEF IInv
<1>11. Position(c)'
  <2>1. pc'[c] = "commit" /\ fetched' = fetched /\ FirstId(c)' = FirstId(c)
    BY <1>1, <1>2 DEF FirstId
  <2>2. (Len(seen[c]) + 1) - 1 = Len(seen[c])
    BY <1>4
  <2> QED
    BY <1>4, <1>5, <1>8, <1>9, <2>1, <2>2 DEF Position
<1>12. \A d \in Consumers \ {c} : pc'[d] = pc[d] /\ seen'[d] = seen[d]
  BY <1>1, <1>2 DEF Threads, IInv, ConsumedOK
<1>13. ConsumedOK'
  BY <1>1, <1>6, <1>8, <1>9, <1>11, <1>12, ConsumerStep DEF IInv, ConsumedOK
<1> QED
  BY <1>9, <1>10, <1>13 DEF IInv

\* The commit moves the offset past the event the callback got.
LEMMA CommitStep ==
  ASSUME IInv, NEW c \in Consumers, Commit(c)
  PROVE  IInv'
<1> DEFINE next == IF Len(fetched[c]) = 1 THEN "idle" ELSE "deliver"
<1>1. /\ pc[c] = "commit" /\ offset' = [offset EXCEPT ![c] = Head(fetched[c]) + 1]
      /\ fetched' = [fetched EXCEPT ![c] = Tail(@)]
      /\ pc' = [pc EXCEPT ![c] = next]
      /\ UNCHANGED <<lock, once, stores, repo, acked, seen>>
  BY DEF Commit, Goto
<1>2. /\ c \in Threads /\ c \notin Appenders
      /\ pc \in [Threads -> {"idle", "resolve", "acquire", "recheck", "getTopic", "use",
                             "deliver", "commit"}]
  BY ThreadsAssumption DEF IInv, Base, Threads
<1>3. repo[c] = 1
  BY <1>1, <1>2 DEF IInv, Base, ResolvedOK
<1>4. /\ seen[c] \in Seq(Events) /\ fetched[c] \in Seq(Nat) /\ Len(seen[c]) \in Nat
      /\ Len(fetched[c]) \in Nat
      /\ Len(seen[c]) <= Len(Log) /\ \A i \in 1..Len(seen[c]) : seen[c][i] = Log[i]
      /\ Position(c) /\ fetched \in [Consumers -> Seq(Nat)] /\ offset \in [Consumers -> Nat]
      /\ seen \in [Consumers -> Seq(Events)]
  BY DEF IInv, ConsumedOK
<1>5. /\ \A k \in 1..Len(fetched[c]) : fetched[c][k] = Len(seen[c]) - 1 + k
      /\ Len(seen[c]) - 1 + Len(fetched[c]) <= Len(Log) /\ Len(fetched[c]) > 0
  BY <1>1, <1>4, PositionIs
<1>6. Head(fetched[c]) + 1 = Len(seen[c]) + 1
  BY <1>4, <1>5
<1>7. /\ Tail(fetched[c]) \in Seq(Nat) /\ Len(Tail(fetched[c])) = Len(fetched[c]) - 1
      /\ \A k \in 1..Len(Tail(fetched[c])) : Tail(fetched[c])[k] = Len(seen[c]) + k
  <2>1. /\ Tail(fetched[c]) \in Seq(Nat) /\ Len(Tail(fetched[c])) = Len(fetched[c]) - 1
        /\ \A k \in 1..(Len(fetched[c]) - 1) : Tail(fetched[c])[k] = fetched[c][k + 1]
    BY <1>4, <1>5
  <2>2. \A k \in 1..(Len(fetched[c]) - 1) : k + 1 \in 1..Len(fetched[c])
                                            /\ Len(seen[c]) - 1 + (k + 1) = Len(seen[c]) + k
    BY <1>4
  <2> QED
    BY <1>5, <2>1, <2>2
<1>8. /\ next \in {"idle", "deliver"}
      /\ next \in {"deliver", "commit"} <=> Len(Tail(fetched[c])) > 0
  <2>1. CASE Len(fetched[c]) = 1
    <3>1. next = "idle"
      BY <2>1
    <3>2. ~ (Len(Tail(fetched[c])) > 0)
      <4> DEFINE rest == Len(Tail(fetched[c]))
      <4>1. rest = 1 - 1
        BY <1>7, <2>1
      <4> HIDE DEF rest
      <4>2. ~ (rest > 0)
        BY <4>1
      <4> QED
        BY <4>2 DEF rest
    <3> HIDE DEF next
    <3> QED
      BY <3>1, <3>2
  <2>2. CASE Len(fetched[c]) # 1
    <3>1. next = "deliver"
      BY <2>2
    <3>2. Len(Tail(fetched[c])) > 0
      BY <1>4, <1>5, <1>7, <2>2
    <3> HIDE DEF next
    <3> QED
      BY <3>1, <3>2
  <2> QED
    BY <2>1, <2>2
<1>9. /\ offset'[c] = Len(seen[c]) + 1 /\ fetched'[c] = Tail(fetched[c])
      /\ offset' \in [Consumers -> Nat] /\ fetched' \in [Consumers -> Seq(Nat)]
  BY <1>1, <1>4, <1>6, <1>7
<1> HIDE DEF next
<1>10. Base' /\ Log' = Log
  <2>1. UNCHANGED <<lock, mutex, done, result, synced, stores, repo>>
    BY <1>1 DEF once
  <2>2. lock' \in Threads \cup {NoThread}
    BY <2>1 DEF IInv, Base
  <2> QED
    BY <1>1, <1>2, <1>3, <1>8, <2>1, <2>2, BaseOther DEF IInv
<1>11. AppendedOK'
  <2>1. \A y \in Appenders : pc'[y] = pc[y]
    BY <1>1, <1>2 DEF Threads
  <2> QED
    BY <1>1, <1>10, <2>1, AppendedStays DEF IInv
<1>12. Position(c)'
  <2>1. pc'[c] = next /\ seen' = seen /\ pc'[c] # "commit"
    BY <1>1, <1>2, <1>8
  <2>2. FirstId(c)' = Len(seen[c]) + 1
    BY <1>4, <1>9 DEF FirstId
  <2>3. Len(seen[c]) + Len(Tail(fetched[c])) <= Len(Log)
    BY <1>4, <1>5, <1>7, LogTyped
  <2> QED
    BY <1>7, <1>8, <1>9, <1>10, <2>1, <2>2, <2>3 DEF Position
<1>13. \A d \in Consumers \ {c} : /\ pc'[d] = pc[d] /\ offset'[d] = offset[d]
                                  /\ fetched'[d] = fetched[d]
  BY <1>1, <1>2, <1>4 DEF Threads
<1>14. ConsumedOK'
  BY <1>1, <1>4, <1>9, <1>10, <1>12, <1>13, ConsumerStep
<1> QED
  BY <1>10, <1>11, <1>14 DEF IInv
\* Whoever looks for the repository moves neither the log nor a consumer's place.
LEMMA ResolvingStep ==
  ASSUME IInv, NEW x \in Threads, Resolving(x)
  PROVE  IInv'
<1>1. Base' /\ Log' = Log
  BY BaseResolving DEF IInv
<1>2. /\ acked' = acked /\ UNCHANGED <<offset, fetched, seen>>
      /\ pc[x] \in {"resolve", "acquire", "recheck", "getTopic"}
      /\ \E next \in {"idle", "acquire", "recheck", "getTopic", "use"} :
           pc' = [pc EXCEPT ![x] = next]
  BY DEF Resolving, FastPath, SlowPath, StaleResult, Acquire, Recheck, GetTopic, Resolved,
         Goto, books
<1>3. PICK next \in {"idle", "acquire", "recheck", "getTopic", "use"} :
        pc' = [pc EXCEPT ![x] = next]
  BY <1>2
<1>4. pc'[x] = next /\ \A y \in Threads : y # x => pc'[y] = pc[y]
  BY <1>3 DEF IInv, Base
<1>5. AppendedOK'
  <2>1. \A y \in Appenders : pc'[y] # "idle" => pc[y] # "idle"
    BY <1>2, <1>4 DEF Threads
  <2> QED
    BY <1>1, <1>2, <2>1, AppendedStays DEF IInv
<1>6. ConsumedOK'
  <2>1. \A d \in Consumers : \/ pc'[d] = pc[d]
                             \/ /\ pc[d] \notin {"deliver", "commit"}
                                /\ pc'[d] \notin {"deliver", "commit"}
    BY <1>2, <1>4 DEF Threads
  <2> QED
    BY <1>1, <1>2, <2>1, LogTyped, ConsumedStays
<1> QED
  BY <1>1, <1>5, <1>6 DEF IInv

\* An idle thread that starts has nothing yet; an appender has something to append.
LEMMA StartStep ==
  ASSUME IInv, NEW x \in Threads, pc[x] = "idle", pc' = [pc EXCEPT ![x] = "resolve"],
         lock' \in Threads \cup {NoThread}, UNCHANGED <<once, stores, repo, books>>,
         x \in Appenders => Pending(x) # {}
  PROVE  IInv'
<1>1. /\ UNCHANGED <<mutex, done, result, synced, stores, repo>>
      /\ acked' = acked /\ UNCHANGED <<offset, fetched, seen>>
  BY DEF once, books
<1>2. Base' /\ Log' = Log
  BY <1>1, BaseOther DEF IInv
<1>3. pc'[x] = "resolve" /\ \A y \in Threads : y # x => pc'[y] = pc[y]
  BY DEF IInv, Base
<1>4. AppendedOK'
  <2>1. \A y \in Appenders : pc'[y] # "idle" => pc[y] # "idle" \/ Pending(y) # {}
    BY <1>3 DEF Threads
  <2> QED
    BY <1>1, <1>2, <2>1, AppendedStays DEF IInv
<1>5. ConsumedOK'
  <2>1. \A d \in Consumers : \/ pc'[d] = pc[d]
                             \/ /\ pc[d] \notin {"deliver", "commit"}
                                /\ pc'[d] \notin {"deliver", "commit"}
    BY <1>3 DEF Threads
  <2> QED
    BY <1>1, <1>2, <2>1, LogTyped, ConsumedStays
<1> QED
  BY <1>2, <1>4, <1>5 DEF IInv

LEMMA AppendStep ==
  ASSUME IInv, NEW x \in Appenders, AppendEvent(x)
  PROVE  IInv'
<1>1. PICK ev \in Pending(x) :
        /\ Base' /\ Log' = Append(Log, ev) /\ acked' = acked \cup {ev}
        /\ pc' = [pc EXCEPT ![x] = "idle"] /\ UNCHANGED <<offset, fetched, seen>>
  BY AppendAppends
<1>2. AppendedOK'
  BY AppendedAppend
<1>3. /\ Len(Log') \in Nat /\ Len(Log) <= Len(Log') /\ Len(Log) \in Nat
      /\ \A i \in 1..Len(Log) : Log'[i] = Log[i]
  <2>1. Log \in Seq(Events) /\ Len(Log) \in Nat
    BY LogTyped
  <2>2. ev \in Events
    BY DEF Pending, Events
  <2> QED
    BY <1>1, <2>1, <2>2
<1>4. \A d \in Consumers : pc'[d] = pc[d]
  BY <1>1, ThreadsAssumption DEF IInv, Base, Threads
<1>5. ConsumedOK'
  BY <1>1, <1>3, <1>4, ConsumedStays
<1> QED
  BY <1>1, <1>2, <1>5 DEF IInv

LEMMA StutterStep ==
  ASSUME IInv, UNCHANGED vars
  PROVE  IInv'
<1>1. /\ UNCHANGED <<lock, mutex, done, result, synced, stores, pc, repo>>
      /\ UNCHANGED <<acked, offset, fetched, seen>>
  BY DEF vars
<1>2. Base' /\ Log' = Log
  BY <1>1 DEF IInv, Base, OnceOK, MutexOK, ResolvedOK, Log
<1>3. AppendedOK'
  BY <1>1, <1>2, AppendedStays DEF IInv
<1>4. ConsumedOK'
  BY <1>1, <1>2, LogTyped, ConsumedStays
<1> QED
  BY <1>2, <1>3, <1>4 DEF IInv

LEMMA InitHolds == Init => IInv
<1> SUFFICES ASSUME Init  PROVE IInv
  OBVIOUS
<1>1. Base
  BY BaseInit
<1>2. Log = << >>
  BY DEF Init, Log
<1>3. AppendedOK
  BY <1>2 DEF Init, AppendedOK, Threads
<1>4. ConsumedOK
  <2>1. /\ offset = [c \in Consumers |-> 0] /\ fetched = [c \in Consumers |-> << >>]
        /\ seen = [c \in Consumers |-> << >>]
    BY DEF Init
  <2>2. ASSUME NEW c \in Consumers
        PROVE  offset[c] = 0 /\ fetched[c] = << >> /\ seen[c] = << >> /\ pc[c] = "idle"
    BY <2>1 DEF Init, Threads
  <2>3. ASSUME NEW c \in Consumers
        PROVE  /\ Len(seen[c]) <= Len(Log)
               /\ \A i \in 1..Len(seen[c]) : seen[c][i] = Log[i]
               /\ Position(c)
    <3>1. /\ Len(seen[c]) = 0 /\ Len(fetched[c]) = 0 /\ FirstId(c) = 1 /\ Len(Log) = 0
          /\ pc[c] = "idle"
      BY <1>2, <2>2 DEF FirstId
    <3> QED
      BY <3>1 DEF Position
  <2>4. << >> \in Seq(Nat) /\ << >> \in Seq(Events)
    OBVIOUS
  <2> QED
    BY <2>1, <2>3, <2>4 DEF ConsumedOK
<1> QED
  BY <1>1, <1>3, <1>4 DEF IInv

LEMMA StepHolds == IInv /\ [Next]_vars => IInv'
<1> SUFFICES ASSUME IInv, [Next]_vars  PROVE IInv'
  OBVIOUS
<1>1. CASE \E x \in Threads : Resolving(x)
  BY <1>1, ResolvingStep
<1>2. CASE \E x \in Appenders : StartAppend(x)
  <2>1. PICK x \in Appenders : StartAppend(x)
    BY <1>2
  <2>2. /\ x \in Threads /\ pc[x] = "idle" /\ pc' = [pc EXCEPT ![x] = "resolve"]
        /\ lock' \in Threads \cup {NoThread} /\ UNCHANGED <<once, stores, repo, books>>
        /\ Pending(x) # {}
    BY <2>1 DEF StartAppend, Goto, Threads, IInv, Base
  <2> QED
    BY <2>2, StartStep
<1>3. CASE \E x \in Appenders : AppendEvent(x)
  BY <1>3, AppendStep
<1>4. CASE \E c \in Consumers : StartConsume(c)
  <2>1. PICK c \in Consumers : StartConsume(c)
    BY <1>4
  <2>2. /\ c \in Threads /\ c \notin Appenders
        /\ pc[c] = "idle" /\ pc' = [pc EXCEPT ![c] = "resolve"]
        /\ lock' \in Threads \cup {NoThread} /\ UNCHANGED <<once, stores, repo, books>>
    BY <2>1, ThreadsAssumption DEF StartConsume, Goto, Threads
  <2> QED
    BY <2>2, StartStep
<1>5. CASE \E c \in Consumers : Read(c)
  BY <1>5, ReadStep
<1>6. CASE \E c \in Consumers : Deliver(c)
  BY <1>6, DeliverStep
<1>7. CASE \E c \in Consumers : Commit(c)
  BY <1>7, CommitStep
<1>8. CASE UNCHANGED vars
  BY <1>8, StutterStep
<1> QED
  BY <1>1, <1>2, <1>3, <1>4, <1>5, <1>6, <1>7, <1>8 DEF Next, Resolving

LEMMA Invariant == Spec => []IInv
<1> QED
  BY InitHolds, StepHolds, PTL DEF Spec
-----------------------------------------------------------------------------
\* What LogSegment and Broker promise an appender: every append that returned is
\* in the log once, though many threads race to make the topic's repository.
THEOREM NothingLostEver == Spec => []NothingLost
<1>1. IInv => NothingLost
  <2> SUFFICES ASSUME IInv, NEW ev \in acked
               PROVE  result # 0 /\ \E i \in DOMAIN stores[result] :
                        /\ stores[result][i] = ev
                        /\ \A j \in DOMAIN stores[result] : stores[result][j] = ev => j = i
    BY DEF NothingLost
  <2>1. PICK i \in 1..Len(Log) : Log[i] = ev
    BY DEF IInv, AppendedOK
  <2>2. done = TRUE
    BY <2>1 DEF Log, IInv, Base, OnceOK
  <2>3. result = 1 /\ stores[1] = Log /\ Log \in Seq(Events)
    BY <2>2 DEF IInv, Base, OnceOK, AppendedOK, Log
  <2>4. DOMAIN stores[result] = 1..Len(Log)
    BY <2>3
  <2>5. \A j \in 1..Len(Log) : Log[j] = ev => j = i
    BY <2>1 DEF IInv, AppendedOK
  <2> QED
    BY <2>1, <2>3, <2>4, <2>5
<1> QED
  BY <1>1, Invariant, PTL

\* What LogConsumerImpl promises its callback: a prefix of the log, in order,
\* each event once, whatever the appends between its poll and its commits.
THEOREM SeenInOrderAlways == Spec => []SeenInOrder
<1>1. IInv => SeenInOrder
  <2> SUFFICES ASSUME IInv, NEW c \in Consumers, seen[c] # << >>
               PROVE  IsPrefix(seen[c], stores[result])
    BY DEF SeenInOrder
  <2>1. /\ seen[c] \in Seq(Events) /\ Len(seen[c]) <= Len(Log)
        /\ \A i \in 1..Len(seen[c]) : seen[c][i] = Log[i]
        /\ Log \in Seq(Events)
    BY DEF IInv, ConsumedOK, AppendedOK
  <2>2. Len(Log) > 0
    BY <2>1
  <2>3. result = 1 /\ stores[1] = Log
    BY <2>2 DEF IInv, Base, OnceOK, Log
  <2>4. seen[c] = SubSeq(Log, 1, Len(seen[c]))
    BY <2>1
  <2> QED
    BY <2>1, <2>3, <2>4 DEF IsPrefix
<1> QED
  BY <1>1, Invariant, PTL

\* The log holds no more events than the appenders can append.
LEMMA LogBound ==
  ASSUME IInv
  PROVE  Len(Log) <= MaxAppends * Cardinality(Appenders)
<1> DEFINE S == 1..Len(Log)
<1>1. /\ Log \in Seq(Events) /\ Len(Log) \in Nat
      /\ \A i, j \in S : Log[i] = Log[j] => i = j
  BY DEF IInv, AppendedOK
<1>2. Log \in Injection(S, Events)
  <2>1. Log \in [S -> Events] /\ DOMAIN Log = S
    BY <1>1
  <2> HIDE DEF S
  <2> QED
    BY <1>1, <2>1 DEF Injection, IsInjective
<1>3. IsFiniteSet(S) /\ Cardinality(S) = Len(Log)
  <2>1. ASSUME NEW n \in Nat  PROVE IsFiniteSet(1..n) /\ Cardinality(1..n) = n
    BY FS_Interval
  <2> QED
    BY <1>1, <2>1
<1>4. IsFiniteSet(1..MaxAppends) /\ Cardinality(1..MaxAppends) = MaxAppends
  BY FetchLimitAssumption, FS_Interval
<1>5. /\ IsFiniteSet(Events)
      /\ Cardinality(Events) = Cardinality(Appenders) * MaxAppends
  BY <1>4, ThreadsAssumption, FS_Product DEF Events
<1>6. Cardinality(S) <= Cardinality(Events)
  BY <1>2, <1>3, <1>5, FS_Injection
<1>7. Cardinality(Appenders) \in Nat
  BY ThreadsAssumption, FS_CardinalityType
<1> QED
  BY <1>3, <1>5, <1>6, <1>7, FetchLimitAssumption

\* No commit moves an offset beyond the id that follows the last event.
THEOREM TypeCorrect == Spec => []TypeOK
<1>1. IInv => TypeOK
  <2> SUFFICES ASSUME IInv  PROVE TypeOK
    OBVIOUS
  <2>1. /\ done \in BOOLEAN /\ result \in 0..Len(stores)
        /\ \A r : (r # 0 => done = TRUE /\ r = 1) => r \in 0..Len(stores)
    <3>1. CASE done = TRUE /\ result = 1 /\ Len(stores) = 1
      <4>1. 0 \in 0..1 /\ 1 \in 0..1
        OBVIOUS
      <4>2. 0..Len(stores) = 0..1
        BY <3>1
      <4> QED
        BY <3>1, <4>1, <4>2, Zenon
    <3>2. CASE done = FALSE /\ result = 0 /\ stores = << >>
      <4>1. 0 \in 0..0
        OBVIOUS
      <4>2. 0..Len(stores) = 0..0
        BY <3>2
      <4> QED
        BY <3>2, <4>1, <4>2, Zenon
    <3> QED
      BY <3>1, <3>2, Zenon DEF IInv, Base, OnceOK
  <2>2. repo \in [Threads -> 0..Len(stores)]
    <3>1. ASSUME NEW x \in Threads  PROVE repo[x] \in 0..Len(stores)
      BY <2>1, Zenon DEF IInv, Base, ResolvedOK
    <3>2. repo \in [Threads -> Nat]
      BY DEF IInv, Base
    <3> QED
      BY <3>1, <3>2
  <2>3. ASSUME NEW c \in Consumers
        PROVE  /\ offset[c] \in 0..(1 + MaxAppends * Cardinality(Appenders))
               /\ fetched[c] \in Seq(Nat) /\ seen[c] \in Seq(Events)
    <3>1. /\ offset[c] \in Nat /\ fetched[c] \in Seq(Nat) /\ seen[c] \in Seq(Events)
          /\ Position(c) /\ Len(seen[c]) \in Nat /\ Len(fetched[c]) \in Nat
      BY DEF IInv, ConsumedOK
    <3>2. FirstId(c) <= Len(Log) + 1
      BY <3>1, PositionIs, LogTyped
    <3>3. offset[c] <= Len(Log) + 1
      BY <3>1, <3>2, LogTyped DEF FirstId
    <3>4. MaxAppends * Cardinality(Appenders) \in Nat
      BY FetchLimitAssumption, ThreadsAssumption, FS_CardinalityType
    <3> QED
      BY <3>1, <3>3, <3>4, LogBound, LogTyped
  <2> QED
    BY <2>1, <2>2, <2>3 DEF IInv, Base, AppendedOK, TypeOK
<1> QED
  BY <1>1, Invariant, PTL
=============================================================================
