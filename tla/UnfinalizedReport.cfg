SPECIFICATION Spec
CHECK_DEADLOCK FALSE
INVARIANTS FinalReportComplete
CONSTANTS
  Events <- MCEvents
  Numbered <- MCEvents
  PriorityOf <- MCPriorities
  TypeOf <- MCTypes
  Deadlines <- MCDeadlines
  MaxResults = 2
