SPECIFICATION Spec
CHECK_DEADLOCK FALSE
INVARIANTS SinglePlace VerdictsHonest
PROPERTIES KeepsLedger
CONSTANTS
  w1 = w1
  w2 = w2
  Deadlines <- MCDeadlines
  DefaultRoutines <- MCRoutines
  ProcessingTime = 1
  NoEvent = NoEvent
  PriorityOf <- AllHigh
  Events <- One
  Numbered <- One
  TypeOf <- AllIll
  Teams <- TwoTeams
  Workers <- TwoWorkers
  TeamOfWorker <- OneEach
  Faults = {"shutdown", "disconnect", "channels"}
  Malformed = {}
