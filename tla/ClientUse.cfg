SPECIFICATION FairSpec
CHECK_DEADLOCK FALSE
INVARIANTS TypeOK PublishIsSynchronous NoChannelLeaked
PROPERTIES ImplementsConsumption ConsumerReleased CancelReturns
CONSTANTS
  p1 = p1
  p2 = p2
  consumer = consumer
  Publishers <- MCPublishers
  Consumer <- consumer
  OutSize = 1
  ChannelMax = 2
  MaxCalls <- MCMaxCalls
