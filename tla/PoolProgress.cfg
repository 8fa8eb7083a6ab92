SPECIFICATION FairSpec
CHECK_DEADLOCK FALSE
PROPERTIES EveryEventReported WorkersStop
CONSTANTS
  w1 = w1
  w2 = w2
  Deadlines <- MCDeadlines
  DefaultRoutines <- MCRoutines
  ProcessingTime = 1
  NoEvent = NoEvent
  PriorityOf <- AllHigh
  Events <- Two
  Numbered <- Two
  TypeOf <- AllHungry
  Teams <- CateringOnly
  Workers <- OneWorker
  TeamOfWorker <- OneCatering
  Faults = {"shutdown", "disconnect"}
  Malformed = {}
