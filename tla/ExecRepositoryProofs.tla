------------------------ MODULE ExecRepositoryProofs ------------------------
(***************************************************************************)
(* The exec repository keeps its projections exact and implements the      *)
(* lifecycle, for any set of execs, any number of callers and retries, and *)
(* both backends. What makes it work is a fact about the histories that no *)
(* operation states: a history is a path through the lifecycle, on which   *)
(* no command occurs twice. Everything that is folded from it follows.     *)
(***************************************************************************)
EXTENDS ExecRepository, TLAPS

\* The i-th record of a history can be of these kinds.
KindsAt(i) == CASE i = 1 -> {"Planned"}
                [] i = 2 -> {"Scheduled"}
                [] i = 3 -> {"Queued"}
                [] i = 4 -> {"Started"}
                [] OTHER -> {"Completed", "Failed"}

IsPath(recs) ==
  /\ recs \in Seq(Record)
  /\ Len(recs) <= 5
  /\ \A i \in DOMAIN recs : recs[i].kind \in KindsAt(i) /\ recs[i].cmd[1] = recs[i].kind
  /\ recs # <<>> => recs[1].cmd = <<"Planned", 1>>

\* The version a path leads to.
Last(recs) == IF recs = <<>> THEN "Absent" ELSE recs[Len(recs)].kind

Histories == \A e \in Execs : IsPath(records[e])

\* The calls read the histories, find and the queue's readers the projection.
Projected == \A e \in Execs : current[e] = CurrentVersion(records[e])

-----------------------------------------------------------------------------
LEMMA PathFacts ==
  ASSUME NEW recs, IsPath(recs)
  PROVE  /\ Len(recs) \in 0..5 /\ DOMAIN recs = 1..Len(recs)
         /\ \A i \in DOMAIN recs : recs[i] \in Record
         /\ \A i, j \in DOMAIN recs : recs[i].cmd = recs[j].cmd => i = j
<1>0. recs \in Seq(Record) /\ Len(recs) <= 5
  BY DEF IsPath
<1>1. Len(recs) \in 0..5 /\ DOMAIN recs = 1..Len(recs)
      /\ \A i \in DOMAIN recs : recs[i] \in Record
  <2>1. Len(recs) \in Nat /\ DOMAIN recs = 1..Len(recs)
    BY <1>0
  <2>2. Len(recs) \in 0..5
    BY <1>0, <2>1
  <2>3. \A i \in DOMAIN recs : recs[i] \in Record
    BY <1>0
  <2> QED
    BY <2>1, <2>2, <2>3
<1>2. ASSUME NEW i \in DOMAIN recs, NEW j \in DOMAIN recs, recs[i].kind = recs[j].kind
      PROVE  i = j
  <2>1. i \in 1..5 /\ j \in 1..5
    BY <1>1
  <2>2. recs[i].kind \in KindsAt(i) /\ recs[j].kind \in KindsAt(j)
    BY DEF IsPath
  <2> QED
    BY <1>2, <2>1, <2>2 DEF KindsAt
<1> QED
  BY <1>1, <1>2 DEF IsPath

\* Cutting a path at one of its commands leaves the path up to it.
LEMMA UpToRecord ==
  ASSUME NEW recs, IsPath(recs), NEW i \in DOMAIN recs
  PROVE  UpTo(recs, recs[i].cmd) = SubSeq(recs, 1, i)
<1> DEFINE First(j) == /\ recs[j].cmd = recs[i].cmd
                       /\ \A k \in 1..(j - 1) : recs[k].cmd # recs[i].cmd
           n == CHOOSE j \in DOMAIN recs : First(j)
<1>1. DOMAIN recs = 1..Len(recs) /\ Len(recs) \in 0..5
  BY PathFacts
<1>2. \A j, k \in DOMAIN recs : recs[j].cmd = recs[k].cmd => j = k
  BY PathFacts
<1>3. First(i)
  <2>1. \A k \in 1..(i - 1) : k \in DOMAIN recs /\ k # i
    BY <1>1
  <2> QED
    BY <1>2, <2>1
<1>4. n \in DOMAIN recs /\ First(n)
  <2> HIDE DEF First
  <2>1. \E j \in DOMAIN recs : First(j)
    BY <1>3
  <2> QED
    BY <2>1
<1>5. n = i
  BY <1>2, <1>4
<1> QED
  BY <1>5 DEF UpTo

\* ... and every stretch of a path folds to the kind of its last record.
LEMMA FoldsToLast ==
  ASSUME NEW recs, IsPath(recs), NEW i \in DOMAIN recs
  PROVE  CreateDomainObject(SubSeq(recs, 1, i)) = recs[i].kind
<1> DEFINE cut == SubSeq(recs, 1, i)
<1>1. /\ DOMAIN recs = 1..Len(recs) /\ Len(recs) \in 0..5 /\ recs \in Seq(Record)
      /\ i \in 1..5
  BY PathFacts DEF IsPath
<1>2. /\ Len(cut) = i /\ DOMAIN cut = 1..i
      /\ \A j \in 1..i : cut[j] = recs[j]
  BY <1>1
<1> HIDE DEF cut
<1>3. \A j \in 1..i : recs[j].kind \in KindsAt(j)
  BY <1>1 DEF IsPath
<1>4. cut # <<>> /\ cut[1].kind = "Planned"
  <2>1. 1 \in 1..i
    BY <1>1
  <2>2. recs[1].kind = "Planned" /\ cut[1] = recs[1]
    <3>1. recs[1].kind \in KindsAt(1)
      BY <1>3, <2>1
    <3> QED
      BY <3>1, <1>2, <2>1 DEF KindsAt
  <2>3. cut # <<>>
    BY <1>2, <2>1
  <2> QED
    BY <2>2, <2>3
<1>5. \A kind \in Needs(recs[i].kind) : \E j \in 1..i : recs[j].kind = kind
  <2>0. /\ 1 <= i => recs[1].kind = "Planned"
        /\ 2 <= i => recs[2].kind = "Scheduled"
        /\ 3 <= i => recs[3].kind = "Queued"
        /\ 4 <= i => recs[4].kind = "Started"
    BY <1>1, <1>3 DEF KindsAt
  <2>1. CASE i = 1
    BY <2>0, <2>1 DEF Needs
  <2>2. CASE i = 2
    BY <2>0, <2>2 DEF Needs
  <2>3. CASE i = 3
    BY <2>0, <2>3 DEF Needs
  <2>4. CASE i = 4
    BY <2>0, <2>4 DEF Needs
  <2>5. CASE i = 5
    <3>1. recs[5].kind \in {"Completed", "Failed"}
      BY <1>3, <2>5 DEF KindsAt
    <3>2. Needs(recs[5].kind) = {"Planned", "Scheduled", "Queued", "Started", recs[5].kind}
      BY <3>1 DEF Needs
    <3> QED
      BY <2>0, <2>5, <3>2
  <2> QED
    BY <1>1, <2>1, <2>2, <2>3, <2>4, <2>5
<1>6. Needs(cut[Len(cut)].kind) \subseteq {cut[j].kind : j \in DOMAIN cut}
  <2>1. cut[Len(cut)].kind = recs[i].kind
    BY <1>1, <1>2
  <2>2. {cut[j].kind : j \in DOMAIN cut} = {recs[j].kind : j \in 1..i}
    BY <1>2
  <2> QED
    BY <1>5, <2>1, <2>2
<1>7. cut[Len(cut)].kind = recs[i].kind
  BY <1>1, <1>2
<1>8. CreateDomainObject(cut) = recs[i].kind
  BY <1>4, <1>6, <1>7 DEF CreateDomainObject
<1> QED
  BY <1>8 DEF cut

LEMMA VersionOfRecord ==
  ASSUME NEW recs, IsPath(recs), NEW i \in DOMAIN recs
  PROVE  VersionOf(recs, recs[i].cmd) = recs[i].kind
BY UpToRecord, FoldsToLast DEF VersionOf

LEMMA CurrentIsLast ==
  ASSUME NEW recs, IsPath(recs)
  PROVE  CurrentVersion(recs) = Last(recs)
<1>1. CASE recs = <<>>
  BY <1>1 DEF CurrentVersion, Last
<1>2. CASE recs # <<>>
  <2>1. Len(recs) \in DOMAIN recs
    BY <1>2, PathFacts DEF IsPath
  <2> QED
    BY <1>2, <2>1, VersionOfRecord DEF CurrentVersion, Last
<1> QED
  BY <1>1, <1>2

\* The last kind of a path tells its length.
LEMMA LastTellsLength ==
  ASSUME NEW recs, IsPath(recs)
  PROVE  /\ Last(recs) \in Kinds \cup {"Absent"}
         /\ Last(recs) = "Planned" => Len(recs) = 1
         /\ Last(recs) = "Scheduled" => Len(recs) = 2
         /\ Last(recs) = "Queued" => Len(recs) = 3
         /\ Last(recs) = "Started" => Len(recs) = 4
<1>1. CASE recs = <<>>
  BY <1>1 DEF Last
<1>2. CASE recs # <<>>
  <2>1. Len(recs) \in 1..5 /\ Len(recs) \in DOMAIN recs
    BY <1>2, PathFacts DEF IsPath
  <2>2. recs[Len(recs)].kind \in KindsAt(Len(recs))
    BY <2>1 DEF IsPath
  <2> QED
    BY <1>2, <2>1, <2>2 DEF Last, KindsAt, Kinds
<1> QED
  BY <1>1, <1>2

\* One record more of the right kind leaves a path, that leads to this kind.
LEMMA PathExtended ==
  ASSUME NEW recs, IsPath(recs), NEW kind \in Kinds, NEW a \in Attempts \cup {1},
         <<kind, a>> \in CmdIds, Len(recs) <= 4, kind \in KindsAt(Len(recs) + 1),
         kind = "Planned" => a = 1
  PROVE  LET ext == Append(recs, [kind |-> kind, cmd |-> <<kind, a>>])
         IN  IsPath(ext) /\ CurrentVersion(ext) = kind
<1> DEFINE rec == [kind |-> kind, cmd |-> <<kind, a>>]
           ext == Append(recs, rec)
<1>0. recs \in Seq(Record)
  BY DEF IsPath
<1>1. recs \in Seq(Record) /\ Len(recs) \in 0..4 /\ DOMAIN recs = 1..Len(recs)
  <2>1. Len(recs) \in 0..5 /\ DOMAIN recs = 1..Len(recs)
    BY PathFacts
  <2> QED
    BY <1>0, <2>1
<1>2. rec \in Record /\ rec.kind = kind /\ rec.cmd = <<kind, a>> /\ rec.cmd[1] = kind
  BY DEF Record
<1>3. /\ ext \in Seq(Record) /\ Len(ext) = Len(recs) + 1 /\ ext # <<>>
      /\ DOMAIN ext = 1..(Len(recs) + 1)
      /\ ext[Len(recs) + 1] = rec
      /\ \A i \in DOMAIN recs : ext[i] = recs[i]
  BY <1>1, <1>2
<1>4. \A i \in DOMAIN ext : ext[i].kind \in KindsAt(i) /\ ext[i].cmd[1] = ext[i].kind
  <2> SUFFICES ASSUME NEW i \in DOMAIN ext
               PROVE  ext[i].kind \in KindsAt(i) /\ ext[i].cmd[1] = ext[i].kind
    OBVIOUS
  <2>1. CASE i = Len(recs) + 1
    BY <2>1, <1>2, <1>3
  <2>2. CASE i \in DOMAIN recs
    BY <2>2, <1>3 DEF IsPath
  <2> QED
    BY <1>1, <1>3, <2>1, <2>2
<1>5. ext[1].cmd = <<"Planned", 1>>
  <2>1. CASE recs = <<>>
    BY <2>1, <1>1, <1>2, <1>3 DEF KindsAt
  <2>2. CASE recs # <<>>
    BY <2>2, <1>1, <1>3 DEF IsPath
  <2> QED
    BY <2>1, <2>2
<1>6. IsPath(ext)
  BY <1>1, <1>3, <1>4, <1>5 DEF IsPath
<1> HIDE DEF ext, rec
<1>7. CurrentVersion(ext) = kind
  BY <1>2, <1>3, <1>6, CurrentIsLast DEF Last
<1> QED
  BY <1>6, <1>7 DEF ext, rec
-----------------------------------------------------------------------------
\* The kinds a call may store, by the version it requires.
Follows(from, to) ==
  \/ from = "Absent" /\ to = "Planned"
  \/ from = "Planned" /\ to = "Scheduled"
  \/ from = "Scheduled" /\ to = "Queued"
  \/ from = "Queued" /\ to = "Started"
  \/ from = "Started" /\ to \in {"Completed", "Failed"}

Stored ==
  /\ backend \in Backends
  /\ records \in [Execs -> Seq(Record)]
  /\ current \in [Execs -> Kinds \cup {"Absent"}]
  /\ Histories
  /\ Projected

\* What every storing call does: one exec moves one step along the lifecycle.
Moves(e, from, to) ==
  /\ CurrentVersion(records[e]) = from
  /\ CurrentVersion(records'[e]) = to
  /\ \A f \in Execs : f # e => records'[f] = records[f]

LEMMA StoreMoves ==
  ASSUME Stored, NEW e \in Execs, NEW kind \in Kinds, NEW a \in Attempts,
         Store(e, kind, <<kind, a>>), Follows(CurrentVersion(records[e]), kind),
         kind = "Planned" => a = 1
  PROVE  Stored' /\ Moves(e, CurrentVersion(records[e]), kind)
<1> DEFINE rec == [kind |-> kind, cmd |-> <<kind, a>>]
           ext == Append(records[e], rec)
<1>1. IsPath(records[e]) /\ CurrentVersion(records[e]) = Last(records[e])
  BY CurrentIsLast DEF Stored, Histories
<1>2. /\ Len(records[e]) <= 4
      /\ kind \in KindsAt(Len(records[e]) + 1)
  <2>1. Len(records[e]) \in 0..5
    BY <1>1, PathFacts
  <2>2. Last(records[e]) = "Absent" => Len(records[e]) = 0
    <3>1. records[e] # <<>> => Last(records[e]) # "Absent"
      <4> SUFFICES ASSUME records[e] # <<>> PROVE Last(records[e]) \in Kinds
        BY DEF Kinds
      <4>1. Len(records[e]) \in DOMAIN records[e]
        BY <1>1, <2>1, PathFacts DEF IsPath
      <4>2. records[e][Len(records[e])] \in Record
        BY <1>1, <4>1, PathFacts
      <4> QED
        BY <4>2 DEF Last, Record
    <3> QED
      BY <3>1
  <2>3. /\ Last(records[e]) = "Planned" => Len(records[e]) = 1
        /\ Last(records[e]) = "Scheduled" => Len(records[e]) = 2
        /\ Last(records[e]) = "Queued" => Len(records[e]) = 3
        /\ Last(records[e]) = "Started" => Len(records[e]) = 4
    BY <1>1, LastTellsLength
  <2>4. Follows(Last(records[e]), kind)
    BY <1>1
  <2>5. /\ KindsAt(1) = {"Planned"} /\ KindsAt(2) = {"Scheduled"}
        /\ KindsAt(3) = {"Queued"} /\ KindsAt(4) = {"Started"}
        /\ KindsAt(5) = {"Completed", "Failed"}
    BY DEF KindsAt
  <2>6. \E n \in 0..4 : Len(records[e]) = n /\ kind \in KindsAt(n + 1)
    BY <2>2, <2>3, <2>4, <2>5 DEF Follows
  <2> QED
    BY <2>6
<1>3. <<kind, a>> \in CmdIds
  BY DEF CmdIds
<1>4. IsPath(ext) /\ CurrentVersion(ext) = kind
  <2>1. a \in Attempts \cup {1}
    OBVIOUS
  <2> QED
    BY <1>1, <1>2, <1>3, <2>1, PathExtended
<1> HIDE DEF ext
<1>5. /\ records' = [records EXCEPT ![e] = ext]
      /\ current' = [current EXCEPT ![e] = kind]
      /\ backend' = backend
  BY <1>4 DEF Store, ext
<1>6. ext \in Seq(Record)
  BY <1>4 DEF IsPath
<1>7. records' \in [Execs -> Seq(Record)]
  BY <1>5, <1>6 DEF Stored
<1>8. current' \in [Execs -> Kinds \cup {"Absent"}]
  BY <1>5 DEF Stored
<1>9. Histories'
  BY <1>4, <1>5 DEF Stored, Histories
<1>10. records'[e] = ext /\ \A f \in Execs : f # e => records'[f] = records[f]
  BY <1>5 DEF Stored
<1>11. Projected'
  BY <1>4, <1>5, <1>10 DEF Stored, Projected
<1> QED
  BY <1>4, <1>5, <1>7, <1>8, <1>9, <1>10, <1>11 DEF Stored, Moves

\* plan checks no version: that its command is new says that its exec is.
LEMMA PlanIsFirst ==
  ASSUME Stored, NEW e \in Execs, ~CommandAlreadyApplied(<<"Planned", 1>>, e)
  PROVE  CurrentVersion(records[e]) = "Absent"
<1>1. IsPath(records[e])
  BY DEF Stored, Histories
<1>2. records[e] # <<>> => 1 \in DOMAIN records[e]
  BY <1>1 DEF IsPath
<1>3. records[e] = <<>>
  BY <1>1, <1>2 DEF IsPath, CommandAlreadyApplied
<1> QED
  BY <1>3 DEF CurrentVersion

\* One exec moves, and the queue with it.
Moved ==
  \E e \in Execs :
    \/ Moves(e, "Absent", "Planned") /\ UNCHANGED queue
    \/ Moves(e, "Planned", "Scheduled") /\ UNCHANGED queue
    \/ Moves(e, "Scheduled", "Queued") /\ queue' = Append(queue, e)
    \/ /\ Moves(e, "Queued", "Started")
       /\ \E i \in DOMAIN queue : queue[i] = e /\ queue' = RemoveAt(i)
    \/ Moves(e, "Started", "Completed") /\ UNCHANGED queue
    \/ Moves(e, "Started", "Failed") /\ UNCHANGED queue

\* Each operation is such a move.
LEMMA Operations ==
  ASSUME Stored, queue \in Seq(Execs), Next
  PROVE  Stored' /\ Moved
<1>1. ASSUME NEW e \in Execs, Plan(e, <<"Planned", 1>>) PROVE Stored' /\ Moved
  <2>1. CurrentVersion(records[e]) = "Absent"
    BY <1>1, PlanIsFirst DEF Plan, Store
  <2>2. Stored' /\ Moves(e, "Absent", "Planned")
    BY <1>1, <2>1, StoreMoves, AttemptsAssumption DEF Plan, Follows, Kinds
  <2> QED
    BY <1>1, <2>2 DEF Plan, Moved
<1>2. ASSUME NEW e \in Execs, NEW a \in Attempts, Schedule(e, <<"Scheduled", a>>)
      PROVE  Stored' /\ Moved
  <2>1. Stored' /\ Moves(e, "Planned", "Scheduled")
    BY <1>2, StoreMoves DEF Schedule, Requires, Follows, Kinds
  <2> QED
    BY <1>2, <2>1 DEF Schedule, Moved
<1>3. ASSUME NEW e \in Execs, NEW a \in Attempts, Queue(e, <<"Queued", a>>)
      PROVE  Stored' /\ Moved
  <2>1. Stored' /\ Moves(e, "Scheduled", "Queued")
    BY <1>3, StoreMoves DEF Queue, Requires, Follows, Kinds
  <2> QED
    BY <1>3, <2>1 DEF Queue, Moved
<1>4. ASSUME NEW e \in Execs, NEW a \in Attempts, Complete(e, <<"Completed", a>>)
      PROVE  Stored' /\ Moved
  <2>1. Stored' /\ Moves(e, "Started", "Completed")
    BY <1>4, StoreMoves DEF Complete, Requires, Follows, Kinds
  <2> QED
    BY <1>4, <2>1 DEF Complete, Moved
<1>5. ASSUME NEW e \in Execs, NEW a \in Attempts, Fail(e, <<"Failed", a>>)
      PROVE  Stored' /\ Moved
  <2>1. Stored' /\ Moves(e, "Started", "Failed")
    BY <1>5, StoreMoves DEF Fail, Requires, Follows, Kinds
  <2> QED
    BY <1>5, <2>1 DEF Fail, Moved
<1>6. ASSUME NEW a \in Attempts, Start(<<"Started", a>>) PROVE Stored' /\ Moved
  <2>1. PICK i \in DOMAIN queue :
          /\ Requires(queue[i], "Queued")
          /\ Store(queue[i], "Started", <<"Started", a>>)
          /\ queue' = RemoveAt(i)
    BY <1>6 DEF Start
  <2>2. queue[i] \in Execs
    OBVIOUS
  <2>3. Stored' /\ Moves(queue[i], "Queued", "Started")
    BY <2>1, <2>2, StoreMoves DEF Requires, Follows, Kinds
  <2> QED
    BY <2>1, <2>2, <2>3 DEF Moved
<1> QED
  BY <1>1, <1>2, <1>3, <1>4, <1>5, <1>6 DEF Next

\* Removing one entry leaves the others, each where it was or one to the front.
LEMMA Removed ==
  ASSUME queue \in Seq(Execs), NEW i \in DOMAIN queue
  PROVE  /\ RemoveAt(i) \in Seq(Execs)
         /\ DOMAIN RemoveAt(i) = 1..(Len(queue) - 1)
         /\ \A j \in 1..(Len(queue) - 1) :
              RemoveAt(i)[j] = IF j < i THEN queue[j] ELSE queue[j + 1]
<1> DEFINE front == SubSeq(queue, 1, i - 1)
           back == SubSeq(queue, i + 1, Len(queue))
<1>1. Len(queue) \in Nat /\ i \in 1..Len(queue)
  OBVIOUS
<1>2. /\ front \in Seq(Execs) /\ Len(front) = i - 1
      /\ \A j \in 1..(i - 1) : front[j] = queue[j]
  BY <1>1
<1>3. /\ back \in Seq(Execs) /\ Len(back) = Len(queue) - i
      /\ \A j \in 1..(Len(queue) - i) : back[j] = queue[i + j]
  BY <1>1
<1> HIDE DEF front, back
<1>4. /\ front \o back \in Seq(Execs)
      /\ Len(front \o back) = Len(queue) - 1
      /\ DOMAIN (front \o back) = 1..(Len(queue) - 1)
  BY <1>1, <1>2, <1>3
<1>5. ASSUME NEW j \in 1..(Len(queue) - 1)
      PROVE  (front \o back)[j] = IF j < i THEN queue[j] ELSE queue[j + 1]
  <2>1. CASE j < i
    BY <1>1, <1>2, <1>3, <2>1
  <2>2. CASE ~(j < i)
    <3>1. j - (i - 1) \in 1..(Len(queue) - i) /\ i + (j - (i - 1)) = j + 1
      BY <1>1, <2>2
    <3>2. (front \o back)[j] = back[j - (i - 1)]
      BY <1>1, <1>2, <1>3, <2>2
    <3> QED
      BY <1>3, <2>2, <3>1, <3>2
  <2> QED
    BY <2>1, <2>2
<1> QED
  BY <1>4, <1>5 DEF RemoveAt, front, back

Inv == Stored /\ queue \in Seq(Execs) /\ QueueProjectionExact

LEMMA QueueKept ==
  ASSUME Inv, Stored', NEW e \in Execs, NEW from \in Kinds \cup {"Absent"}, NEW to \in Kinds,
         Moves(e, from, to), from # "Queued", to # "Queued", UNCHANGED queue
  PROVE  Inv!2' /\ QueueProjectionExact'
BY DEF Inv, Stored, Projected, Moves, QueueProjectionExact

LEMMA QueueGrows ==
  ASSUME Inv, Stored', NEW e \in Execs, Moves(e, "Scheduled", "Queued"), queue' = Append(queue, e)
  PROVE  queue' \in Seq(Execs) /\ QueueProjectionExact'
<1>1. /\ queue' \in Seq(Execs) /\ Len(queue) \in Nat
      /\ DOMAIN queue' = 1..(Len(queue) + 1) /\ DOMAIN queue = 1..Len(queue)
      /\ queue'[Len(queue) + 1] = e
      /\ \A i \in DOMAIN queue : queue'[i] = queue[i]
  BY DEF Inv
<1>2. \A i \in DOMAIN queue : queue[i] # e
  BY DEF Inv, Stored, Projected, QueueProjectionExact, Moves
<1>3. \A i \in DOMAIN queue' : i = Len(queue) + 1 \/ i \in DOMAIN queue
  BY <1>1
<1>4. ASSUME NEW f \in Execs
      PROVE  (\E i \in DOMAIN queue' : queue'[i] = f) <=> current'[f] = "Queued"
  <2>1. CASE f = e
    <3>1. Len(queue) + 1 \in DOMAIN queue'
      BY <1>1
    <3> QED
      BY <1>1, <2>1, <3>1 DEF Moves, Stored, Projected
  <2>2. CASE f # e
    <3>1. (\E i \in DOMAIN queue' : queue'[i] = f) <=> (\E i \in DOMAIN queue : queue[i] = f)
      BY <1>1, <1>3, <2>2
    <3> QED
      BY <2>2, <3>1 DEF Moves, Inv, Stored, Projected, QueueProjectionExact
  <2> QED
    BY <2>1, <2>2
<1>5. \A i, j \in DOMAIN queue' : queue'[i] = queue'[j] => i = j
  BY <1>1, <1>2, <1>3 DEF Inv, QueueProjectionExact
<1> QED
  BY <1>1, <1>4, <1>5 DEF QueueProjectionExact

LEMMA QueueShrinks ==
  ASSUME Inv, Stored', NEW k \in DOMAIN queue, Moves(queue[k], "Queued", "Started"),
         queue' = RemoveAt(k)
  PROVE  queue' \in Seq(Execs) /\ QueueProjectionExact'
<1> DEFINE old(j) == IF j < k THEN j ELSE j + 1
<1>1. /\ queue' \in Seq(Execs)
      /\ DOMAIN queue' = 1..(Len(queue) - 1) /\ DOMAIN queue = 1..Len(queue)
      /\ Len(queue) \in Nat
      /\ \A j \in DOMAIN queue' : queue'[j] = queue[old(j)]
  BY Removed DEF Inv
<1>2. \A j \in DOMAIN queue' : old(j) \in DOMAIN queue /\ old(j) # k
  BY <1>1
<1>3. \A i, j \in DOMAIN queue' : old(i) = old(j) => i = j
  BY <1>1
<1>4. \A i \in DOMAIN queue : i # k => \E j \in DOMAIN queue' : old(j) = i
  <2> SUFFICES ASSUME NEW i \in DOMAIN queue, i # k
               PROVE  \E j \in DOMAIN queue' : old(j) = i
    OBVIOUS
  <2>1. CASE i < k
    BY <1>1, <2>1
  <2>2. CASE i > k
    <3>1. i - 1 \in DOMAIN queue' /\ old(i - 1) = i
      BY <1>1, <2>2
    <3> QED
      BY <3>1
  <2> QED
    BY <1>1, <2>1, <2>2
<1> HIDE DEF old
<1>5. \A i, j \in DOMAIN queue : queue[i] = queue[j] => i = j
  BY DEF Inv, QueueProjectionExact
<1>6. ASSUME NEW f \in Execs
      PROVE  (\E i \in DOMAIN queue' : queue'[i] = f) <=> current'[f] = "Queued"
  <2>1. CASE f = queue[k]
    BY <1>1, <1>2, <1>5, <2>1 DEF Moves, Stored, Projected
  <2>2. CASE f # queue[k]
    <3>1. (\E i \in DOMAIN queue' : queue'[i] = f) <=> (\E i \in DOMAIN queue : queue[i] = f)
      BY <1>1, <1>2, <1>4, <2>2
    <3> QED
      BY <2>2, <3>1 DEF Moves, Inv, Stored, Projected, QueueProjectionExact
  <2> QED
    BY <2>1, <2>2
<1>7. \A i, j \in DOMAIN queue' : queue'[i] = queue'[j] => i = j
  BY <1>1, <1>2, <1>3, <1>5
<1> QED
  BY <1>1, <1>6, <1>7 DEF QueueProjectionExact
-----------------------------------------------------------------------------
LEMMA InitInv == Init => Inv
<1> SUFFICES ASSUME Init PROVE Inv
  OBVIOUS
<1>1. \A e \in Execs : records[e] = <<>> /\ CurrentVersion(records[e]) = "Absent"
  BY DEF Init, CurrentVersion
<1>2. Histories
  <2>1. IsPath(<<>>)
    <3>1. <<>> \in Seq(Record) /\ Len(<<>>) = 0 /\ DOMAIN <<>> = {}
      OBVIOUS
    <3> QED
      BY <3>1 DEF IsPath
  <2> QED
    BY <1>1, <2>1 DEF Histories
<1>3. Projected
  BY <1>1 DEF Init, Projected
<1>4. QueueProjectionExact
  BY <1>1 DEF Init, QueueProjectionExact
<1> QED
  BY <1>2, <1>3, <1>4 DEF Init, Inv, Stored

LEMMA NextInv == Inv /\ [Next]_vars => Inv'
<1> SUFFICES ASSUME Inv, [Next]_vars PROVE Inv'
  OBVIOUS
<1>1. CASE UNCHANGED vars
  BY <1>1 DEF vars, Inv, Stored, Histories, Projected, QueueProjectionExact
<1>2. CASE Next
  <2>1. Stored'
    BY <1>2, Operations DEF Inv
  <2>2. queue' \in Seq(Execs) /\ QueueProjectionExact'
    BY <1>2, <2>1, Operations, QueueKept, QueueGrows, QueueShrinks DEF Inv, Kinds, Moved
  <2> QED
    BY <2>1, <2>2 DEF Inv
<1> QED
  BY <1>1, <1>2

\* The strengthening all the others follow from: histories are paths through the
\* lifecycle, the current projection is what they fold to, and the queue holds
\* the queued execs, each once. Every operation keeps it.
THEOREM Invariant == Spec => []Inv
BY InitInv, NextInv, PTL DEF Spec

\* The variables keep their types: in particular no history ever fails to fold.
THEOREM TypeCorrect == Spec => []TypeOK
<1>1. Inv => TypeOK
  BY DEF Inv, Stored, TypeOK
<1> QED
  BY <1>1, Invariant, PTL

\* The queue always holds the execs find reports as Queued, each once.
THEOREM QueueExact == Spec => []QueueProjectionExact
<1>1. Inv => QueueProjectionExact
  BY DEF Inv
<1> QED
  BY <1>1, Invariant, PTL

\* Retrying any applied command answers with the version it first produced.
THEOREM RetriesAnswer == Spec => []RetryAnswersFirstVersion
<1>1. Inv => RetryAnswersFirstVersion
  BY VersionOfRecord DEF Inv, Stored, Histories, RetryAnswersFirstVersion
<1> QED
  BY <1>1, Invariant, PTL

\* The repository implements the lifecycle: every call moves what find reports
\* of at most one exec, by one step forward.
THEOREM Implements == Spec => ImplementsLifecycle
<1>1. Init => Abstract!Init
  BY DEF Init, Abstract!Init
<1>2. Inv /\ Inv' /\ [Next]_vars => [Abstract!Next]_current
  <2> SUFFICES ASSUME Inv, Inv', [Next]_vars PROVE Abstract!Next \/ current' = current
    OBVIOUS
  <2>1. CASE UNCHANGED vars
    BY <2>1 DEF vars
  <2>2. CASE Next
    <3>1. ASSUME NEW e \in Execs, NEW from, NEW to, Moves(e, from, to)
          PROVE  current[e] = from /\ current' = [current EXCEPT ![e] = to]
      <4>1. /\ current \in [Execs -> Kinds \cup {"Absent"}]
            /\ current' \in [Execs -> Kinds \cup {"Absent"}]
        BY DEF Inv, Stored
      <4>2. \A f \in Execs : /\ current[f] = CurrentVersion(records[f])
                             /\ current'[f] = CurrentVersion(records'[f])
        BY DEF Inv, Stored, Projected
      <4> QED
        BY <3>1, <4>1, <4>2 DEF Moves
    <3>2. PICK e \in Execs :
            \/ Moves(e, "Absent", "Planned") \/ Moves(e, "Planned", "Scheduled")
            \/ Moves(e, "Scheduled", "Queued") \/ Moves(e, "Queued", "Started")
            \/ Moves(e, "Started", "Completed") \/ Moves(e, "Started", "Failed")
      BY <2>2, Operations DEF Inv, Moved
    <3> QED
      BY <3>1, <3>2 DEF Abstract!Next, Abstract!Advance, Abstract!Plan,
         Abstract!Schedule, Abstract!Queue, Abstract!Start, Abstract!Complete,
         Abstract!Fail
  <2> QED
    BY <2>1, <2>2
<1> QED
  BY <1>1, <1>2, Invariant, PTL DEF Spec, ImplementsLifecycle, Abstract!Spec
=============================================================================
