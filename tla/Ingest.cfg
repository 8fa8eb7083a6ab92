SPECIFICATION FairSpec
CHECK_DEADLOCK FALSE
INVARIANTS TypeOK NeverEarly EarlierFirst StatsAddUp
PROPERTIES StopsWhenCancelled
CONSTANTS
  Events <- MCEvents
  Numbered <- MCEvents
  PriorityOf <- MCPriorities
  TypeOf <- MCTypes
  Deadlines <- MCDeadlines
  Times = {0, 1, 2}
  Unparseable <- NoTime
  MaxClock = 2
