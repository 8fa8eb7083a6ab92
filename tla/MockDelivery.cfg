SPECIFICATION Spec
CHECK_DEADLOCK FALSE
SYMMETRY Interchangeable
INVARIANTS TypeOK InOrderOnce CancelIsSafe OnlyLiveChannelsListed
PROPERTIES CancelKeepsOthers
CONSTANTS
  s1 = s1
  s2 = s2
  p1 = p1
  p2 = p2
  Subs <- TwoSubs
  Publishers <- TwoPublishers
  Queues = {"q1", "q2"}
  Exchanges = {"direct"}
  RoutingKeys = {"key"}
  BufferSize = 1
  MaxPublished = 2
