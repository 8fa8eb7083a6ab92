SPECIFICATION FairSpec
CHECK_DEADLOCK FALSE
PROPERTIES TogglersStop
CONSTANTS
  w1 = w1
  w2 = w2
  Deadlines <- MCDeadlines
  DefaultRoutines <- MCRoutines
  ProcessingTime = 1
  NoEvent = NoEvent
  PriorityOf <- EachPriority
  Events <- One
  Numbered <- One
  TypeOf <- AllIll
  Teams <- MedicalOnly
  Workers <- OneWorker
  TeamOfWorker <- OneMedical
  Faults = {"shutdown", "disconnect"}
  Malformed = {}
