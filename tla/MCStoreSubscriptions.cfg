SPECIFICATION StoreSpec
CONSTANTS
  acme = acme
  bolt = bolt
  h1 = h1
  h2 = h2
  Orgs <- MCOrgs
  Handlers <- MCHandlers
  MaxTold = 3
  MaxActs = 2
SYMMETRY Symmetry
INVARIANTS
  StoreTypeOK
  RowsAreTrue
  OneRowPerPurchase
  AccessFollowsRow
PROPERTIES
  LapseSparesOperator
CHECK_DEADLOCK FALSE
