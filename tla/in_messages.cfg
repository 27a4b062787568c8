SPECIFICATION Spec
CONSTANTS
  ServerVersions = {19, 37, 38, 39, 51, 70}
  Messages <- MCMessages
  MaxSent <- MCMaxSent
INVARIANTS
  TypeOK
  PassedInOrderOnce
  NothingWaits
  NothingIsLost
