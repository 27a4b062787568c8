SPECIFICATION FairSpec
CONSTANTS
  Byte <- MCByte
  Version <- MCVersion
  Hello <- MCHello
  Heartbeat <- MCHeartbeat
  Requests <- MCRequests
  SendBuf = 2
  MaxBacklog = 8
  MaxInbox = 2
  MaxStalled = 1
INVARIANTS
  TypeOK
  AtRest
PROPERTIES
  ConnectIsAllOrNothing
  ImplementsRequestStream
  BacklogIsFlushed
  BrokenIsNoticed
  ConnectReturns
