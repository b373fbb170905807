SPECIFICATION Spec
CONSTANTS
  k1 = k1
  k2 = k2
  Lines <- MCLines
  Tasks <- MCTasks
  MaxAttempts = 2
  MaxSends = 2
  MaxFaults = 2
SYMMETRY Symmetry
INVARIANTS
  OutboxIsTrue
PROPERTIES
  RecordedIsNotAnswered
CHECK_DEADLOCK FALSE
