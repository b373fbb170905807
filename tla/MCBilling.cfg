SPECIFICATION FairSpec
CONSTANTS
  h1 = h1
  h2 = h2
  Procs <- MCProcs
  NoKey = NoKey
  Null = Null
  MaxAttempts = 2
  MaxDeliveries = 2
  MaxFaults = 1
INVARIANTS
  KeysAreExclusive
  OutcomesAreTrue
  PaidHasEvidence
  SucceededIsPaid
  ClosedIsBilled
PROPERTIES
  ChargedIsPaid
CHECK_DEADLOCK FALSE
