SPECIFICATION MCFairSpec
CONSTANTS
  m1 = m1
  m2 = m2
  eur = eur
  usd = usd
  r1 = r1
  r2 = r2
  conv = conv
  Messages <- MCMessages
  Currencies <- MCCurrencies
  Conversation <- MCConversation
  Rates = {0, 1}
  Limits = {1}
  Raters <- MCRaters
  NoRate = NoRate
  NoCurrency = NoCurrency
  NoMessage = NoMessage
  Null = Null
  Months = 2
  MaxReceipts = 2
  MaxEvents = 2
INVARIANTS
  CountersMatchLedger
  WithinGrantedHeadroom
  NeverBookedTwice
  RatedIsBooked
PROPERTIES
  EveryReceiptIsRated
CHECK_DEADLOCK FALSE
