SPECIFICATION FairSpec
CONSTANTS
  u1 = u1
  r1 = r1
  r2 = r2
  NoThread = NoThread
  Users <- MCUsers
  Readers <- MCReaders
  MaxConnects = 2
INVARIANTS
  TypeOK
  FirstClosedIsReported
  FirstConnectedHasSocket
PROPERTIES
  CallsReturn
  ThreadStops
  BreakIsNoticed
  EndIsNoticed
CHECK_DEADLOCK FALSE
