SPECIFICATION FairSpec
CONSTANTS
  j1 = j1
  j2 = j2
  w1 = w1
  w2 = w2
  Jobs <- MCJobs
  Workers <- MCWorkers
  Unhandled <- MCUnhandled
  MaxAttempts = 2
  BatchSize = 2
  NoWorker = NoWorker
  NoJob = NoJob
  MaxFaults = 2
INVARIANTS
  ClaimsAreFenced
  AttemptsAccounted
  ExclusiveUnlessOverrun
PROPERTIES
  FinalUnlessOverrun
  EveryJobSettles
  KeepsContract
CHECK_DEADLOCK FALSE
