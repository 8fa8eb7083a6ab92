SPECIFICATION Spec
SYMMETRY WorkerSymmetry
INVARIANTS TypeOK SinglePlace VerdictsHonest
PROPERTIES FlagFreshWhenRead AcceptsOnlyWhenOffered
CONSTANTS
  w1 = w1
  w2 = w2
  Deadlines <- MCDeadlines
  DefaultRoutines <- MCRoutines
  ProcessingTime = 1
  NoEvent = NoEvent
  PriorityOf <- EachPriority
  Events <- Two
  Numbered <- Two
  TypeOf <- AllIll
  Teams <- MedicalOnly
  Workers <- TwoWorkers
  TeamOfWorker <- BothMedical
  Faults = {}
  Malformed = {0}
