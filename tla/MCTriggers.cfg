CONSTANTS
  t1 = t1
  t2 = t2
  created = created
  e1 = e1
  f1 = f1
  service = service
  Topics <- MCTopics
  CreatedTopic = created
  LogTopics <- MCLogTopics
  Consumers <- MCConsumers
  Follows <- MCFollows
  EventTriggers = {e1}
  FixedRates = {f1}
  EventService = service
  Requests <- MCRequests
  TopicsBefore <- MCTopicsBefore
  TriggersBefore <- MCTriggersBefore
  BatchLimit = 1
  MaxWaiting = 2
  MaxCrashes = 1
  MaxTicks = 1
SPECIFICATION FairSpec
INVARIANTS
  TypeOK
  FirstEventKept
  InvokedInOrder
  FixedRateScheduled
PROPERTY
  AllInvoked
CHECK_DEADLOCK FALSE
