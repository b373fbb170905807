SPECIFICATION FairSpec
CONSTANTS
  c1 = c1
  c2 = c2
  ann = ann
  bob = bob
  home = home
  Calls <- MCCalls
  Users <- MCUsers
  Conversations <- MCConversations
  Members <- MCMembers
  NoCall = NoCall
  Timer = Timer
  MaxFaults = 1
INVARIANTS
  ClosedOnce
  SecondCallOnlyByRace
  OpenRowsAreTracked
PROPERTIES
  RingIsSettled
CHECK_DEADLOCK FALSE
