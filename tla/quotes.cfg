SPECIFICATION Spec
CONSTANTS
  a = a
  b = b
  NoTicker = NoTicker
  Tickers <- MCTickers
  Lists <- MCLists
  MaxList = 2
  MaxTicks = 1
  MaxRequests = 1
INVARIANTS
  TypeOK
  QuotesAreOfTicker
  NoSubscriptionStays
