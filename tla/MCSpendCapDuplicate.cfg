SPECIFICATION MCSpec
CONSTANTS
  m1 = m1
  m2 = m2
  eur = eur
  usd = usd
  r1 = r1
  r2 = r2
  conv = conv
  Messages <- MCMessages
  Currencies <- MCCurrencies
  Conversation <- MCConversation
  Rates = {1, 2}
  Limits = {2}
  Raters <- MCRaters
  NoRate = NoRate
  NoCurrency = NoCurrency
  NoMessage = NoMessage
  Null = Null
  Months = 2
  MaxReceipts = 3
  MaxEvents = 2
INVARIANT DuplicatesAddNothing
CHECK_DEADLOCK FALSE
