SPECIFICATION Spec
CHECK_DEADLOCK FALSE
PROPERTIES UrgentFirst
CONSTANTS
  Events <- MCEvents
  Numbered <- MCEvents
  PriorityOf <- MCPriorities
  TypeOf <- MCTypes
  Deadlines <- MCDeadlines
  Malformed <- MCMalformed
