SPECIFICATION Spec
CONSTANTS
  SignalFiles <- MCSignalFiles
  AnFiles <- MCAnFiles
  TradeFiles <- MCTradeFiles
  Powers <- MCPowers
  Budget <- MCBudget
  MaxPer <- MCMaxPer
  LOOPer = 5
  MinTicks <- MCMinTicks
  Closes <- MCCloses
  Holdings <- MCHoldings
  Empty <- MCEmpty
  MaxPolls = 2
INVARIANT WithinMaxPerStock
CHECK_DEADLOCK FALSE
