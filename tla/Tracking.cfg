SPECIFICATION FairSpec
CHECK_DEADLOCK FALSE
INVARIANTS TypeOK ReportAgrees RecordsInOrder
PROPERTIES EveryResultRecorded
CONSTANTS
  Events <- MCEvents
  Numbered <- MCEvents
  PriorityOf <- MCPriorities
  TypeOf <- MCTypes
  Deadlines <- MCDeadlines
  MaxResults = 2
