------------------------- MODULE OrchestrationProofs -------------------------
(***************************************************************************)
(* The safety properties of the orchestration, for any set of execs and    *)
(* correlations. None of them is inductive alone: whether the exec that    *)
(* leaves the backlog is the eldest left depends on where every exec the   *)
(* service knows of is (settled, in flight or waiting) and on the order of *)
(* the backlog. Inv says both.                                             *)
(***************************************************************************)
EXTENDS Orchestration, TLAPS

Waiting == {"Absent", "Planned"}

\* What the history says of an exec's status.
Handled ==
  \A e \in Execs :
    /\ e \in settled => status[e] \in {"Completed", "Failed"} /\ arrival[e] # 0
    /\ arrival[e] = 0 => status[e] \in Waiting
    /\ arrival[e] # 0 => status[e] # "Absent"
    /\ arrival[e] # 0 /\ status[e] = "Planned" => CorrelationOf[e] \in Correlations

\* Arrivals are numbered one by one.
Numbered ==
  /\ \A e \in Execs : arrival[e] <= arrivals
  /\ \A e, f \in Execs : arrival[e] = arrival[f] /\ arrival[e] # 0 => e = f

\* The backlog holds planned execs of its correlation, in order of arrival, and
\* only behind an exec in flight.
BacklogSorted ==
  \A c \in Correlations :
    /\ \A i \in DOMAIN backlog[c] :
         /\ CorrelationOf[backlog[c][i]] = c
         /\ status[backlog[c][i]] = "Planned"
         /\ arrival[backlog[c][i]] # 0
    /\ \A i, j \in DOMAIN backlog[c] :
         i < j => arrival[backlog[c][i]] < arrival[backlog[c][j]]
    /\ backlog[c] # <<>> => inflight[c] # NoExec

\* What is in flight has been scheduled and is not settled.
InflightUnderway ==
  \A c \in Correlations : inflight[c] # NoExec =>
    /\ CorrelationOf[inflight[c]] = c
    /\ status[inflight[c]] \notin Waiting
    /\ inflight[c] \notin settled

\* An exec whose planned event has been handled is settled, in flight or waits.
Placed ==
  \A e \in Execs : arrival[e] # 0 /\ CorrelationOf[e] \in Correlations =>
    e \in settled \/ inflight[CorrelationOf[e]] = e \/ InBacklog(e)

ExecsExact == execs = {e \in Execs : status[e] \notin Waiting}

Inv ==
  /\ TypeOK /\ Handled /\ Numbered /\ BacklogSorted /\ InflightUnderway
  /\ Placed /\ ExecsExact /\ SerialInOrder
-----------------------------------------------------------------------------
USE DEF Lifecycle!Statuses, Lifecycle!Terminal, Waiting

LEMMA InitInv == Init => Inv
  BY CorrelationOfAssumption, NoCorrelationAssumption, NoExecAssumption
     DEF Init, Lifecycle!Init, Inv, TypeOK, Handled, Numbered, BacklogSorted,
         InflightUnderway, Placed, ExecsExact, SerialInOrder, Correlated

\* The repository moves an exec on: away from Absent but never to or from
\* Planned without the service, and from in flight to finished.
LEMMA ProgressInv ==
  ASSUME Inv, NEW x \in Execs, Progress(x)
  PROVE  Inv'
<1> USE DEF Inv
<1>1. PICK from \in {"Absent", "Scheduled", "Queued", "Started"},
           to \in {"Planned", "Queued", "Started", "Completed", "Failed"} :
        /\ status[x] = from
        /\ status' = [status EXCEPT ![x] = to]
        /\ to = "Planned" <=> from = "Absent"
  BY DEF Progress, Lifecycle!Plan, Lifecycle!Queue, Lifecycle!Start,
         Lifecycle!Complete, Lifecycle!Fail, Lifecycle!Advance
<1>2. from \notin {"Completed", "Failed", "Planned"}
  OBVIOUS
<1>3. UNCHANGED <<inflight, backlog, execs, arrivals, arrival, settled>>
  BY DEF Progress, service, history
<1>4. TypeOK'
  BY <1>1, <1>3 DEF TypeOK
<1>5. Handled'
  BY <1>1, <1>2, <1>3 DEF Handled, TypeOK
<1>6. Numbered'
  BY <1>3 DEF Numbered
<1>7. BacklogSorted'
  <2>1. \A c \in Correlations : \A i \in DOMAIN backlog[c] :
          backlog[c][i] \in Execs /\ backlog[c][i] # x
    BY <1>1, <1>2 DEF BacklogSorted, TypeOK
  <2> QED
    BY <2>1, <1>1, <1>3 DEF BacklogSorted, TypeOK
<1>8. InflightUnderway'
  BY <1>1, <1>3 DEF InflightUnderway, TypeOK
<1>9. Placed'
  BY <1>3 DEF Placed, InBacklog
<1>10. ExecsExact'
  BY <1>1, <1>2, <1>3 DEF ExecsExact, TypeOK
<1>11. SerialInOrder'
  <2> SUFFICES ASSUME NEW e \in Execs, NEW f \in Execs, Correlated(e, f),
                      0 < arrival[e], arrival[e] < arrival[f], status'[f] # "Planned"
               PROVE  e \in settled
    BY <1>3 DEF SerialInOrder, Correlated
  <2>1. status[f] # "Planned"
    BY <1>1, <1>2 DEF TypeOK, Handled
  <2> QED
    BY <2>1 DEF SerialInOrder
<1> QED
  BY <1>4, <1>5, <1>6, <1>7, <1>8, <1>9, <1>10, <1>11

\* The planned event of x is handled for the first time: x is Planned still, so
\* it is scheduled at once or joins the backlog as its youngest.
LEMMA PlannedInv ==
  ASSUME Inv, NEW x \in Execs, status[x] # "Absent", arrival[x] = 0, PlannedHandled(x)
  PROVE  Inv'
<1> USE DEF Inv
<1> DEFINE k == CorrelationOf[x]
<1>1. /\ status[x] = "Planned"
      /\ x \notin settled
      /\ \A c \in Correlations : inflight[c] # x
      /\ \A c \in Correlations : \A i \in DOMAIN backlog[c] : backlog[c][i] # x
  BY NoExecAssumption DEF Handled, InflightUnderway, BacklogSorted, TypeOK
<1>2. /\ arrivals' = arrivals + 1
      /\ arrival' = [arrival EXCEPT ![x] = arrivals + 1]
      /\ settled' = settled
      /\ arrivals \in Nat /\ \A e \in Execs : arrival[e] \in Nat /\ arrival[e] <= arrivals
  BY DEF PlannedHandled, TypeOK, Numbered
<1>3. Numbered'
  BY <1>2 DEF Numbered, TypeOK
<1>4. CASE \* scheduled at once
           /\ status' = [status EXCEPT ![x] = "Scheduled"]
           /\ execs' = execs \cup {x}
           /\ backlog' = backlog
           /\ \/ k = NoCorrelation /\ inflight' = inflight
              \/ /\ k \in Correlations /\ inflight[k] = NoExec
                 /\ inflight' = [inflight EXCEPT ![k] = x]
  <2>1. TypeOK'
    <3>1. /\ status' \in [Execs -> Lifecycle!Statuses]
          /\ inflight' \in [Correlations -> Execs \cup {NoExec}]
          /\ execs' \subseteq Execs
      BY <1>4 DEF TypeOK
    <3>2. arrivals' \in Nat /\ arrival' \in [Execs -> Nat] /\ settled' \subseteq Execs
      BY <1>2 DEF TypeOK
    <3> QED
      BY <3>1, <3>2, <1>4 DEF TypeOK
  <2>2. Handled'
    BY <1>1, <1>2, <1>4 DEF Handled, TypeOK
  <2>3. BacklogSorted'
    <3>1. \A c \in Correlations : \A i \in DOMAIN backlog[c] :
            /\ backlog[c][i] \in Execs
            /\ status'[backlog[c][i]] = status[backlog[c][i]]
            /\ arrival'[backlog[c][i]] = arrival[backlog[c][i]]
      BY <1>1, <1>2, <1>4 DEF TypeOK
    <3>2. \A c \in Correlations : inflight[c] # NoExec => inflight'[c] # NoExec
      BY <1>4, NoExecAssumption DEF TypeOK
    <3> QED
      BY <3>1, <3>2, <1>4 DEF BacklogSorted
  <2>4. InflightUnderway'
    BY <1>1, <1>2, <1>4 DEF InflightUnderway, TypeOK
  <2>5. Placed'
    <3> SUFFICES ASSUME NEW e \in Execs, arrival'[e] # 0, CorrelationOf[e] \in Correlations
                 PROVE  e \in settled \/ inflight'[CorrelationOf[e]] = e \/ InBacklog(e)
      BY <1>2, <1>4 DEF Placed, InBacklog
    <3>1. CASE e = x
      BY <3>1, <1>4, NoCorrelationAssumption DEF TypeOK
    <3>2. CASE e # x
      BY <3>2, <1>2, <1>4, NoExecAssumption DEF Placed, TypeOK
    <3> QED
      BY <3>1, <3>2
  <2>6. ExecsExact'
    BY <1>1, <1>4 DEF ExecsExact, TypeOK
  <2>7. SerialInOrder'
    <3> SUFFICES ASSUME NEW e \in Execs, NEW f \in Execs, Correlated(e, f),
                        0 < arrival'[e], arrival'[e] < arrival'[f], status'[f] # "Planned"
                 PROVE  e \in settled
      BY <1>2 DEF SerialInOrder, Correlated
    <3>1. e # x /\ arrival'[e] = arrival[e]
      BY <1>2 DEF TypeOK
    <3>2. CASE f = x
      <4>1. inflight[k] = NoExec /\ CorrelationOf[e] = k /\ k \in Correlations
        BY <3>2, <1>4, NoCorrelationAssumption DEF Correlated
      <4>2. ~InBacklog(e)
        BY <4>1 DEF BacklogSorted, InBacklog, TypeOK
      <4> QED
        BY <3>1, <4>1, <4>2, NoExecAssumption DEF Placed
    <3>3. CASE f # x
      BY <3>1, <3>3, <1>2, <1>4 DEF SerialInOrder, TypeOK
    <3> QED
      BY <3>2, <3>3
  <2> QED
    BY <1>3, <2>1, <2>2, <2>3, <2>4, <2>5, <2>6, <2>7
<1>5. CASE \* to the backlog
           /\ k \in Correlations /\ inflight[k] # NoExec
           /\ backlog' = [backlog EXCEPT ![k] = Append(@, x)]
           /\ UNCHANGED <<status, inflight, execs>>
  <2>0. /\ backlog'[k] = Append(backlog[k], x)
        /\ \A c \in Correlations : c # k => backlog'[c] = backlog[c]
        /\ DOMAIN backlog'[k] = 1..(Len(backlog[k]) + 1)
        /\ DOMAIN backlog[k] = 1..Len(backlog[k])
        /\ Len(backlog[k]) \in Nat
        /\ backlog'[k][Len(backlog[k]) + 1] = x
        /\ \A i \in DOMAIN backlog[k] : backlog'[k][i] = backlog[k][i]
    BY <1>5 DEF TypeOK
  <2>1. TypeOK'
    BY <1>2, <1>5 DEF TypeOK
  <2>2. Handled'
    BY <1>1, <1>2, <1>5 DEF Handled, TypeOK
  <2>3. BacklogSorted'
    <3> SUFFICES ASSUME NEW c \in Correlations PROVE BacklogSorted!(c)'
      BY DEF BacklogSorted
    <3>0. \A i \in DOMAIN backlog[c] :
            /\ backlog[c][i] \in Execs
            /\ arrival'[backlog[c][i]] = arrival[backlog[c][i]]
      BY <1>1, <1>2 DEF TypeOK
    <3>1. CASE c # k
      BY <3>0, <3>1, <2>0, <1>5 DEF BacklogSorted
    <3>2. CASE c = k
      <4>1. arrival'[x] = arrivals + 1 /\ status'[x] = "Planned"
        BY <1>1, <1>2, <1>5 DEF TypeOK
      <4>2. \A i \in DOMAIN backlog'[k] :
              \/ i = Len(backlog[k]) + 1 /\ backlog'[k][i] = x
              \/ i \in DOMAIN backlog[k] /\ backlog'[k][i] = backlog[k][i]
        BY <2>0
      <4>3. \A i \in DOMAIN backlog'[k] :
              /\ CorrelationOf[backlog'[k][i]] = k
              /\ status'[backlog'[k][i]] = "Planned"
              /\ arrival'[backlog'[k][i]] # 0
        BY <3>0, <3>2, <4>1, <4>2, <1>2, <1>5 DEF BacklogSorted
      <4>4. \A i, j \in DOMAIN backlog'[k] :
              i < j => arrival'[backlog'[k][i]] < arrival'[backlog'[k][j]]
        <5> SUFFICES ASSUME NEW i \in DOMAIN backlog'[k], NEW j \in DOMAIN backlog'[k], i < j
                     PROVE  arrival'[backlog'[k][i]] < arrival'[backlog'[k][j]]
          OBVIOUS
        <5>1. i \in DOMAIN backlog[k] /\ backlog'[k][i] = backlog[k][i]
          BY <2>0
        <5>2. arrival'[backlog'[k][i]] = arrival[backlog[k][i]]
          BY <5>1, <3>0, <3>2
        <5>3. CASE j = Len(backlog[k]) + 1
          BY <5>1, <5>2, <5>3, <4>1, <2>0, <3>0, <3>2, <1>2
        <5>4. CASE j \in DOMAIN backlog[k]
          BY <5>1, <5>2, <5>4, <2>0, <3>0, <3>2 DEF BacklogSorted
        <5> QED
          BY <5>3, <5>4, <4>2
      <4> QED
        BY <4>3, <4>4, <3>2, <1>5
    <3> QED
      BY <3>1, <3>2
  <2>4. InflightUnderway'
    BY <1>2, <1>5 DEF InflightUnderway
  <2>5. Placed'
    <3> SUFFICES ASSUME NEW e \in Execs, arrival'[e] # 0, CorrelationOf[e] \in Correlations
                 PROVE  e \in settled \/ inflight[CorrelationOf[e]] = e \/ InBacklog(e)'
      BY <1>2, <1>5 DEF Placed
    <3>1. CASE e = x
      <4>1. Len(backlog[k]) + 1 \in DOMAIN backlog'[k]
        BY <2>0
      <4> QED
        BY <3>1, <4>1, <2>0 DEF InBacklog
    <3>2. CASE e # x
      <4>1. e \in settled \/ inflight[CorrelationOf[e]] = e \/ InBacklog(e)
        BY <3>2, <1>2 DEF Placed, TypeOK
      <4>2. InBacklog(e) => InBacklog(e)'
        BY <2>0 DEF InBacklog
      <4> QED
        BY <4>1, <4>2
    <3> QED
      BY <3>1, <3>2
  <2>6. ExecsExact'
    BY <1>5 DEF ExecsExact
  <2>7. SerialInOrder'
    BY <1>1, <1>2, <1>5 DEF SerialInOrder, Correlated, TypeOK
  <2> QED
    BY <1>3, <2>1, <2>2, <2>3, <2>4, <2>5, <2>6, <2>7
<1> QED
  BY <1>1, <1>4, <1>5 DEF PlannedHandled, Schedule, ScheduleExec,
     Lifecycle!Schedule, Lifecycle!Advance

\* The last event of x is handled. Of those the service knows only the exec in
\* flight can have finished unsettled: it is x, and the head of the backlog, the
\* eldest exec left, takes its place.
LEMMA FinishedInv ==
  ASSUME Inv, NEW x \in Execs, status[x] \in Lifecycle!Terminal, x \notin settled,
         FinishedHandled(x)
  PROVE  Inv'
<1> USE DEF Inv
<1> DEFINE k == CorrelationOf[x]
<1>1. /\ UNCHANGED <<arrivals, arrival>>
      /\ settled' = settled \cup {x}
      /\ arrival[x] # 0 /\ status[x] \notin Waiting
      /\ x \in execs
  BY DEF FinishedHandled, Handled, ExecsExact
<1>2. \A c \in Correlations : \A i \in DOMAIN backlog[c] :
        backlog[c][i] \in Execs /\ backlog[c][i] # x
  BY <1>1 DEF BacklogSorted, TypeOK
<1>3. k \in Correlations => inflight[k] = x
  BY <1>1, <1>2 DEF Placed, InBacklog
<1>4. \A c \in Correlations : inflight[c] = x => c = k
  BY NoExecAssumption DEF InflightUnderway
<1>5. Numbered'
  BY <1>1 DEF Numbered
<1>6. CASE \* nobody is next
           /\ execs' = execs \cup {x}
           /\ UNCHANGED <<status, backlog>>
           /\ \/ k = NoCorrelation /\ inflight' = inflight
              \/ /\ k \in Correlations /\ backlog[k] = <<>>
                 /\ inflight' = [inflight EXCEPT ![k] = NoExec]
  <2>1. TypeOK'
    BY <1>1, <1>6 DEF TypeOK
  <2>2. Handled'
    BY <1>1, <1>6 DEF Handled
  <2>3. BacklogSorted'
    <3>1. \A c \in Correlations : backlog[c] # <<>> => inflight'[c] = inflight[c]
      BY <1>6 DEF TypeOK
    <3> QED
      BY <3>1, <1>1, <1>6 DEF BacklogSorted
  <2>4. InflightUnderway'
    <3>1. \A c \in Correlations : inflight'[c] # NoExec =>
            inflight'[c] = inflight[c] /\ inflight[c] # x
      BY <1>3, <1>4, <1>6, NoCorrelationAssumption DEF TypeOK
    <3> QED
      BY <3>1, <1>1, <1>6 DEF InflightUnderway
  <2>5. Placed'
    BY <1>1, <1>3, <1>6 DEF Placed, InBacklog, TypeOK
  <2>6. ExecsExact'
    BY <1>1, <1>6 DEF ExecsExact
  <2>7. SerialInOrder'
    BY <1>1, <1>6 DEF SerialInOrder, Correlated
  <2> QED
    BY <1>5, <2>1, <2>2, <2>3, <2>4, <2>5, <2>6, <2>7
<1>7. CASE \* h is next
           /\ k \in Correlations /\ backlog[k] # <<>>
           /\ inflight' = [inflight EXCEPT ![k] = Head(backlog[k])]
           /\ backlog' = [backlog EXCEPT ![k] = Tail(@)]
           /\ ScheduleExec(Head(backlog[k]), {x})
  <2> DEFINE h == Head(backlog[k])
  <2>0. /\ backlog[k] \in Seq(Execs)
        /\ Len(backlog[k]) \in Nat /\ Len(backlog[k]) > 0
        /\ DOMAIN backlog[k] = 1..Len(backlog[k])
        /\ h = backlog[k][1] /\ 1 \in DOMAIN backlog[k]
        /\ Tail(backlog[k]) \in Seq(Execs)
        /\ DOMAIN Tail(backlog[k]) = 1..(Len(backlog[k]) - 1)
        /\ \A i \in 1..(Len(backlog[k]) - 1) : Tail(backlog[k])[i] = backlog[k][i + 1]
    BY <1>7 DEF TypeOK
  <2>1. /\ h \in Execs /\ h # x /\ CorrelationOf[h] = k /\ status[h] = "Planned"
        /\ arrival[h] # 0 /\ h \notin settled
    BY <2>0, <1>2, <1>7 DEF BacklogSorted, Handled
  <2>2. /\ status' = [status EXCEPT ![h] = "Scheduled"]
        /\ execs' = execs \cup {h, x}
    BY <2>1, <1>7 DEF ScheduleExec, Lifecycle!Schedule, Lifecycle!Advance
  <2>3. /\ backlog'[k] = Tail(backlog[k])
        /\ \A c \in Correlations : c # k => backlog'[c] = backlog[c]
        /\ inflight'[k] = h
        /\ \A c \in Correlations : c # k => inflight'[c] = inflight[c]
    BY <1>7 DEF TypeOK
  <2>4. \A i, j \in DOMAIN backlog[k] :
          i < j => arrival[backlog[k][i]] < arrival[backlog[k][j]]
    BY <1>7 DEF BacklogSorted
  <2>5. \A i \in DOMAIN backlog'[k] :
          /\ i + 1 \in DOMAIN backlog[k] /\ backlog'[k][i] = backlog[k][i + 1]
          /\ backlog'[k][i] # h
    <3> SUFFICES ASSUME NEW i \in DOMAIN backlog'[k]
                 PROVE  /\ i + 1 \in DOMAIN backlog[k]
                        /\ backlog'[k][i] = backlog[k][i + 1]
                        /\ backlog'[k][i] # h
      OBVIOUS
    <3>1. i \in Nat /\ 1 < i + 1 /\ i + 1 \in DOMAIN backlog[k]
      BY <2>0, <2>3
    <3>2. backlog'[k][i] = backlog[k][i + 1]
      BY <2>0, <2>3
    <3>3. arrival[backlog[k][1]] < arrival[backlog[k][i + 1]]
      BY <3>1, <2>0, <2>4
    <3>4. arrival[h] \in Nat
      BY <2>1 DEF TypeOK
    <3> QED
      BY <3>1, <3>2, <3>3, <3>4, <2>0
  <2>6. TypeOK'
    <3>1. backlog' \in [Correlations -> Seq(Execs)]
      BY <2>0, <1>7 DEF TypeOK
    <3>2. inflight' \in [Correlations -> Execs \cup {NoExec}]
      BY <2>1, <1>7 DEF TypeOK
    <3> QED
      BY <3>1, <3>2, <1>1, <2>1, <2>2 DEF TypeOK
  <2>7. Handled'
    BY <1>1, <2>1, <2>2 DEF Handled, TypeOK
  <2>8. BacklogSorted'
    <3> SUFFICES ASSUME NEW c \in Correlations PROVE BacklogSorted!(c)'
      BY DEF BacklogSorted
    <3>1. CASE c # k
      <4>1. \A i \in DOMAIN backlog[c] :
              backlog[c][i] \in Execs /\ status'[backlog[c][i]] = status[backlog[c][i]]
        BY <3>1, <1>2, <2>1, <2>2 DEF BacklogSorted, TypeOK
      <4> QED
        BY <3>1, <4>1, <2>3, <1>1 DEF BacklogSorted
    <3>2. CASE c = k
      <4>1. \A i \in DOMAIN backlog'[k] :
              /\ CorrelationOf[backlog'[k][i]] = k
              /\ status'[backlog'[k][i]] = "Planned"
              /\ arrival'[backlog'[k][i]] # 0
        <5> SUFFICES ASSUME NEW i \in DOMAIN backlog'[k]
                     PROVE  /\ CorrelationOf[backlog'[k][i]] = k
                            /\ status'[backlog'[k][i]] = "Planned"
                            /\ arrival'[backlog'[k][i]] # 0
          OBVIOUS
        <5>1. /\ CorrelationOf[backlog[k][i + 1]] = k
              /\ status[backlog[k][i + 1]] = "Planned"
              /\ arrival[backlog[k][i + 1]] # 0
              /\ backlog[k][i + 1] \in Execs
          BY <2>5, <1>2, <1>7 DEF BacklogSorted
        <5> QED
          BY <5>1, <2>5, <2>2, <1>1 DEF TypeOK
      <4>2. \A i, j \in DOMAIN backlog'[k] :
              i < j => arrival'[backlog'[k][i]] < arrival'[backlog'[k][j]]
        <5> SUFFICES ASSUME NEW i \in DOMAIN backlog'[k], NEW j \in DOMAIN backlog'[k], i < j
                     PROVE  arrival'[backlog'[k][i]] < arrival'[backlog'[k][j]]
          OBVIOUS
        <5>1. i \in Int /\ j \in Int
          BY <2>0, <2>3
        <5> QED
          BY <5>1, <2>4, <2>5, <1>1
      <4>3. inflight'[k] # NoExec
        BY <2>1, <2>3, NoExecAssumption
      <4> QED
        BY <4>1, <4>2, <4>3, <3>2
    <3> QED
      BY <3>1, <3>2
  <2>9. InflightUnderway'
    <3> SUFFICES ASSUME NEW c \in Correlations, inflight'[c] # NoExec
                 PROVE  InflightUnderway!(c)!2'
      BY DEF InflightUnderway
    <3>1. CASE c = k
      BY <3>1, <1>1, <2>1, <2>2, <2>3 DEF TypeOK
    <3>2. CASE c # k
      BY <3>2, <1>1, <1>4, <2>1, <2>2, <2>3 DEF InflightUnderway, TypeOK
    <3> QED
      BY <3>1, <3>2
  <2>10. Placed'
    <3> SUFFICES ASSUME NEW e \in Execs, arrival[e] # 0, CorrelationOf[e] \in Correlations
                 PROVE  e \in settled' \/ inflight'[CorrelationOf[e]] = e \/ InBacklog(e)'
      BY <1>1 DEF Placed
    <3>1. e \in settled \/ inflight[CorrelationOf[e]] = e \/ InBacklog(e)
      BY DEF Placed
    <3>2. CASE CorrelationOf[e] # k
      BY <3>1, <3>2, <1>1, <2>3 DEF InBacklog
    <3>3. CASE CorrelationOf[e] = k /\ InBacklog(e)
      <4>1. PICK i \in DOMAIN backlog[k] : backlog[k][i] = e
        BY <3>3 DEF InBacklog
      <4>2. CASE i = 1
        BY <4>1, <4>2, <3>3, <2>0, <2>3
      <4>3. CASE i # 1
        <5>1. i - 1 \in 1..(Len(backlog[k]) - 1) /\ (i - 1) + 1 = i
          BY <4>3, <2>0
        <5>2. i - 1 \in DOMAIN backlog'[k] /\ backlog'[k][i - 1] = e
          BY <5>1, <4>1, <2>0, <2>3
        <5> QED
          BY <5>2, <3>3 DEF InBacklog
      <4> QED
        BY <4>2, <4>3
    <3>4. CASE CorrelationOf[e] = k /\ ~InBacklog(e)
      BY <3>1, <3>4, <1>1, <1>3, <1>7
    <3> QED
      BY <3>2, <3>3, <3>4
  <2>11. ExecsExact'
    BY <1>1, <2>1, <2>2 DEF ExecsExact, TypeOK
  <2>12. SerialInOrder'
    <3> SUFFICES ASSUME NEW e \in Execs, NEW f \in Execs, Correlated(e, f),
                        0 < arrival[e], arrival[e] < arrival[f], status'[f] # "Planned"
                 PROVE  e \in settled'
      BY <1>1 DEF SerialInOrder, Correlated
    <3>1. CASE f # h
      BY <3>1, <1>1, <2>1, <2>2 DEF SerialInOrder, TypeOK
    <3>2. CASE f = h
      <4>1. CorrelationOf[e] = k
        BY <3>2, <2>1 DEF Correlated
      <4>2. arrival[e] \in Nat /\ arrival[h] \in Nat
        BY <2>1 DEF TypeOK
      <4>3. ~InBacklog(e)
        <5> SUFFICES ASSUME NEW i \in DOMAIN backlog[k], backlog[k][i] = e
                     PROVE  FALSE
          BY <4>1 DEF InBacklog
        <5>1. CASE i = 1
          BY <5>1, <2>0, <3>2, <4>2
        <5>2. CASE i # 1
          BY <5>2, <2>0, <2>4, <3>2, <4>2
        <5> QED
          BY <5>1, <5>2
      <4>4. e \in settled \/ inflight[k] = e
        BY <4>1, <4>2, <4>3, <1>7 DEF Placed
      <4> QED
        BY <4>4, <1>1, <1>3, <1>7
    <3> QED
      BY <3>1, <3>2
  <2> QED
    BY <1>5, <2>6, <2>7, <2>8, <2>9, <2>10, <2>11, <2>12
<1> QED
  BY <1>1, <1>6, <1>7, CorrelationOfAssumption DEF FinishedHandled, Finish
-----------------------------------------------------------------------------
\* Inv is an invariant: it holds at first, and every step keeps it.
THEOREM Invariant == Spec => []Inv
<1>1. ASSUME Inv, [Next]_vars PROVE Inv'
  <2>1. CASE UNCHANGED vars
    BY <1>1, <2>1 DEF vars, service, history, Inv, TypeOK, Handled, Numbered,
       BacklogSorted, InflightUnderway, Placed, InBacklog, ExecsExact, SerialInOrder,
       Correlated
  <2>2. CASE Next
    BY <1>1, <2>2, ProgressInv, PlannedInv, FinishedInv DEF Next
  <2> QED
    BY <1>1, <2>1, <2>2
<1> QED
  BY <1>1, InitInv, PTL DEF Spec

\* The variables keep their types.
THEOREM TypeCorrect == Spec => []TypeOK
<1>1. Inv => TypeOK
  BY DEF Inv
<1> QED
  BY <1>1, Invariant, PTL

\* Execs of a correlation run one after the other, in the order their planned
\* events were handled, for any number of execs and correlations.
THEOREM Serial == Spec => []SerialInOrder
<1>1. Inv => SerialInOrder
  BY DEF Inv
<1> QED
  BY <1>1, Invariant, PTL

\* A planned exec the service knows of waits in its correlation's backlog behind
\* an exec whose last event is still to come.
THEOREM NobodyStranded == Spec => []NoneStranded
<1>1. ASSUME Inv PROVE NoneStranded
  <2> SUFFICES ASSUME NEW e \in Execs, arrival[e] # 0, status[e] = "Planned"
               PROVE  /\ CorrelationOf[e] \in Correlations
                      /\ InBacklog(e)
                      /\ inflight[CorrelationOf[e]] \in Execs \ settled
    BY DEF NoneStranded
  <2>1. CorrelationOf[e] \in Correlations /\ e \notin settled
    BY <1>1 DEF Inv, Handled
  <2>2. InBacklog(e)
    BY <1>1, <2>1, NoExecAssumption DEF Inv, Placed, InflightUnderway
  <2>3. inflight[CorrelationOf[e]] \in Execs \ settled
    BY <1>1, <2>1, <2>2 DEF Inv, TypeOK, BacklogSorted, InBacklog, InflightUnderway
  <2> QED
    BY <2>1, <2>2, <2>3
<1> QED
  BY <1>1, Invariant, PTL

\* The service's books agree with the repository.
THEOREM Books == Spec => []BooksExact
<1>1. ASSUME Inv PROVE BooksExact
  <2>1. execs = {e \in Execs : status[e] \notin {"Absent", "Planned"}}
    BY <1>1 DEF Inv, ExecsExact
  <2>2. ASSUME NEW e \in Execs, CorrelationOf[e] \in Correlations
        PROVE  inflight[CorrelationOf[e]] = e <=> e \in execs \ settled
    <3>1. inflight[CorrelationOf[e]] = e => e \in execs \ settled
      BY <1>1, <2>1, <2>2, NoExecAssumption DEF Inv, InflightUnderway
    <3>2. e \in execs \ settled => inflight[CorrelationOf[e]] = e
      BY <1>1, <2>1, <2>2 DEF Inv, Handled, Placed, InBacklog, BacklogSorted
    <3> QED
      BY <3>1, <3>2
  <2> QED
    BY <2>1, <2>2 DEF BooksExact
<1> QED
  BY <1>1, Invariant, PTL
=============================================================================
