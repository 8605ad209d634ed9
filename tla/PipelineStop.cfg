SPECIFICATION FairSpec
CONSTANTS
  m1 = m1
  m2 = m2
  Masters <- TwoMasters
  Weight <- TwoWeights
  MaxTasks = 2
  MaxPoints = 3
  MaxPending = 1
  LastBucket = 0
  MaxBatches = 3
  MaxJumps = 1
INVARIANTS QueueIsBounded CountsAreContinuous NothingComesLate
PROPERTY StopEnds
CHECK_DEADLOCK FALSE
