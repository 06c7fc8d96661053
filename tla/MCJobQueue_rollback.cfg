CONSTANTS
  j1 = j1  j2 = j2  p1 = p1  p2 = p2  r1 = r1  w1 = w1  w2 = w2
  NoOne = NoOne
  Jobs <- OneJob
  Passes <- TwoPasses
  Workers <- TwoWorkers
  WorkerOf <- OwnIdentity
  Requests <- OneRequest
  BatchSize = 1
  MaxAttempts = 2
  MayOverrun = FALSE
  MayStop <- Nobody
  MaxFailures = 1
  MaxFaults = 0
  MaxEnqueues = 1
SPECIFICATION Spec
CHECK_DEADLOCK FALSE
PROPERTY FailureReleasesRow
