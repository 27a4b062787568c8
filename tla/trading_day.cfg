SPECIFICATION Spec
CONSTANTS
  SignalFiles <- MCSignalFiles
  AnFiles <- MCAnFiles
  TradeFiles <- MCTradeFiles
  Powers <- MCPowers
  Budget <- MCBudget
  MaxPer <- MCMaxPer
  LOOPer = 5
  MinTicks <- MCMinTicks
  Closes <- MCCloses
  Holdings <- MCHoldings
  Empty <- MCEmpty
  MaxPolls = 2
INVARIANTS
  TypeOK
  RemovalFindsOrder
  WithinBuyingPower
  RoundedForTrader
  HedgeLeavesLittle
  SplitAddsUp
  AuctionWithinVolume
  AdjustedToTarget
  FlatAtEnd
CHECK_DEADLOCK FALSE
