SPECIFICATION FairSpec
CONSTANTS
  MaxTurns = 2
  MaxRequests = 2
  MaxAsks = 1
  MaxFaults = 2
INVARIANTS
  OutcomeKept
  CompletedIsPushable
PROPERTIES
  EndIsRecorded
CHECK_DEADLOCK FALSE
