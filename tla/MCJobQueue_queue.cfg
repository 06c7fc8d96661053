CONSTANTS
  j1 = j1  j2 = j2  p1 = p1  p2 = p2  r1 = r1  w1 = w1  w2 = w2
  NoOne = NoOne
  Jobs <- TwoJobs
  Passes <- TwoPasses
  Workers <- TwoWorkers
  WorkerOf <- OwnIdentity
  Requests <- OneRequest
  BatchSize = 2
  MaxAttempts = 2
  MayOverrun = FALSE
  MayStop <- OnlyW1
  MaxFailures = 2
  MaxFaults = 1
  MaxEnqueues = 2
SPECIFICATION FairSpec
CHECK_DEADLOCK FALSE
INVARIANTS TypeOK QueueInv OneRunPerJob AttemptsBudget StopLeavesNoLock
PROPERTIES OverUntilRearmed ImplementsLifecycle QueuedJobsSettle
