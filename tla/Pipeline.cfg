SPECIFICATION FairSpec
CHECK_DEADLOCK FALSE
INVARIANTS TypeOK CountedOnce SetupFirst
PROPERTIES LostOnlyIfDisturbed LeftoversCounted
CONSTANTS
  Datasets <- MCDatasets
