SPECIFICATION FairSpec
CONSTANTS
  p1 = p1
  p2 = p2
  w1 = w1
  w2 = w2
  Recipients <- MCRecipients
  Workers <- MCWorkers
  BatchSize = 2
  PageSize = 1
  NoOne = NoOne
  MaxFaults = 1
  MaxResumes = 1
INVARIANTS
  NobodyMessagedTwice
  AudienceIsDivided
  CancelStopsChain
  CountsMatchLedger
PROPERTIES
  KeepsPromise
  EndIsFinal
  RunningEnds
CHECK_DEADLOCK FALSE
