--------------------------- MODULE LogBrokerSqlite ---------------------------
(***************************************************************************)
(* The sqlite log broker: a database file of events for every topic, and   *)
(* one of consumers. Every operation is one statement, hence one step; all *)
(* of it survives a crash of the process.                                  *)
(***************************************************************************)
EXTENDS Integers, Sequences

CONSTANTS
  LogTopics,
  Consumers,
  Follows        \* the topic a consumer reads

ASSUME FollowsAssumption == Follows \in [Consumers -> LogTopics]

VARIABLES
  events,        \* events[t]: the rows of t's segment, by id
  sequence,      \* sqlite_sequence: the last id a segment has given out
  nextEventId    \* nextEventId[c]: what c has committed, 0 without a row

broker == <<events, sequence, nextEventId>>

\* The broker of a process that finds the database of an earlier one, whose
\* consumers had read all there was.
Rows(values) == [i \in DOMAIN values |-> [id |-> i, cmd |-> values[i][1], value |-> values[i][2]]]

InitBroker(earlier) ==
  /\ events      = [t \in LogTopics |-> Rows(earlier[t])]
  /\ sequence    = [t \in LogTopics |-> Len(earlier[t])]
  /\ nextEventId = [c \in Consumers |-> IF earlier[Follows[c]] = <<>> THEN 0
                                        ELSE Len(earlier[Follows[c]]) + 1]

EventsOf(cmd, t) == {i \in DOMAIN events[t] : events[t][i].cmd = cmd}

\* Mutant: the segment does not look at the command, as the memory one.
AppendAgain(cmd, t, value) ==
  LET id == sequence[t] + 1 IN
  /\ sequence' = [sequence EXCEPT ![t] = id]
  /\ events' = [events EXCEPT ![t] = Append(@, [id |-> id, cmd |-> cmd, value |-> value])]
  /\ UNCHANGED nextEventId

\* INSERT OR IGNORE: a second row of a command is dropped, but the id it would
\* have had is spent.
AppendEvent(cmd, t, value) ==
  LET id == sequence[t] + 1 IN
  /\ sequence' = [sequence EXCEPT ![t] = id]
  /\ events' = IF EventsOf(cmd, t) # {} THEN events
               ELSE [events EXCEPT ![t] =
                       Append(@, [id |-> id, cmd |-> cmd, value |-> value])]
  /\ UNCHANGED nextEventId

\* consume: the rows from the committed id on, by their places; the first of
\* them is what a batch of one holds.
Unread(c) == {k \in DOMAIN events[Follows[c]] : events[Follows[c]][k].id >= nextEventId[c]}

FirstUnread(c, k) == k \in Unread(c) /\ \A j \in Unread(c) : k <= j

\* Mutant: the id of the event itself is committed.
CommitSame(c, id) ==
  /\ nextEventId' = [nextEventId EXCEPT ![c] = id]
  /\ UNCHANGED <<events, sequence>>

Commit(c, id) ==
  /\ nextEventId' = [nextEventId EXCEPT ![c] = id + 1]
  /\ UNCHANGED <<events, sequence>>

\* The rows are in the order of their ids, and no id is given out twice.
BrokerTypeOK ==
  /\ sequence \in [LogTopics -> Nat]
  /\ nextEventId \in [Consumers -> Nat]
  /\ \A t \in LogTopics : \A i \in DOMAIN events[t] :
       /\ events[t][i].id \in 1..sequence[t]
       /\ \A j \in 1..(i - 1) : events[t][j].id < events[t][i].id
=============================================================================
