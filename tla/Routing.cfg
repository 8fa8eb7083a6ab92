SPECIFICATION FairSpec
CHECK_DEADLOCK FALSE
INVARIANTS TypeOK NothingLeftInHeap RoutedInArrivalOrder HeapSorts
PROPERTIES EveryEventRouted
CONSTANTS
  Events <- MCEvents
  Numbered <- MCEvents
  PriorityOf <- MCPriorities
  TypeOf <- MCTypes
  Deadlines <- MCDeadlines
  Malformed <- MCMalformed
