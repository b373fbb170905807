SPECIFICATION Spec
CONSTANTS
  ann = ann
  bob = bob
  r1 = r1
  r2 = r2
  i1 = i1
  i2 = i2
  Users <- MCUsers
  Founder = ann
  Requests <- MCRequests
  Invites <- MCInvites
  MaxJoins = 3
  MaxAtOnce = 2
SYMMETRY Symmetry
INVARIANTS
  OwnerlessOnlyByRace
PROPERTIES
  OwnersDecide
CHECK_DEADLOCK FALSE
