SPECIFICATION Spec
CONSTANTS
  Byte <- MCByte
  Version <- MCVersion
  Hello <- MCHello
  Heartbeat <- MCHeartbeat
  Requests <- MCRequests
  SendBuf = 2
  MaxBacklog = 2
  MaxInbox = 2
  MaxStalled = 2
INVARIANTS
  VersionComesFirst
