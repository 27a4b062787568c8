SPECIFICATION Spec
CONSTANTS
  Servers <- MCServers
  MaxSet = 2
INVARIANTS
  TypeOK
  NothingDropped
PROPERTIES
  Decodable
