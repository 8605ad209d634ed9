SPECIFICATION FairSpec
CONSTANTS
  m1 = m1
  m2 = m2
  Masters <- OneMaster
  Weight <- OneWeight
  MaxTasks = 1
  MaxPoints = 1
  MaxPending = 1
  LastBucket = 1
  MaxBatches = 1
  MaxJumps = 1
PROPERTY TimesAreNotMixed
CHECK_DEADLOCK FALSE
