SPECIFICATION Spec
CONSTANTS
  m1 = m1
  m2 = m2
  Masters <- OneMaster
  Weight <- OneWeight
  MaxTasks = 1
  MaxPoints = 1
  MaxPending = 1
  LastBucket = 2
  MaxBatches = 3
  MaxJumps = 1
INVARIANT TypeOK
PROPERTY BacklogIsRight
CHECK_DEADLOCK FALSE
