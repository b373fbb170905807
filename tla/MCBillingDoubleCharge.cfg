SPECIFICATION Spec
CONSTANTS
  h1 = h1
  h2 = h2
  Procs <- MCProcs
  NoKey = NoKey
  Null = Null
  MaxAttempts = 2
  MaxDeliveries = 2
  MaxFaults = 0
INVARIANT ChargedOnce
CHECK_DEADLOCK FALSE
