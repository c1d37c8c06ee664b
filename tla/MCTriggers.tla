----------------------------- MODULE MCTriggers -----------------------------
(***************************************************************************)
(* Two topics, an event trigger and a fixed rate trigger; a topic and the  *)
(* event trigger are there from an earlier life of the database. An exec   *)
(* publishes to one topic twice, so that a row is dropped and its id is    *)
(* spent, and to a topic that may have to be made; a client publishes      *)
(* another event; the event trigger is switched off and deleted, and the   *)
(* process restarts once.                                                  *)
(***************************************************************************)
EXTENDS Triggers

CONSTANTS t1, t2, created, e1, f1, service

MCTopics == {t1, t2}
MCLogTopics == {t1, t2, created}
MCConsumers == {e1, service}
MCFollows == [c \in MCConsumers |-> IF c = e1 THEN t1 ELSE created]

MadeTopic == [kind |-> "createTopic", topic |-> t1]
MadeTrigger == [kind |-> "createTrigger", trigger |-> e1]

MCTopicsBefore == {MadeTopic}
MCTriggersBefore == <<MadeTrigger>>

MCRequests ==
  { MadeTopic, MadeTrigger,
    [kind |-> "createTopic",   topic |-> t2],
    [kind |-> "createTrigger", trigger |-> f1],
    [kind |-> "setStatus",     trigger |-> e1, to |-> "Inactive"],
    [kind |-> "delete",        trigger |-> e1],
    [kind |-> "complete",      topics |-> <<t1, t2, t1>>],
    [kind |-> "append",        topics |-> <<t1>>] }
=============================================================================
