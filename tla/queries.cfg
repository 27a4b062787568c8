SPECIFICATION FairSpec
CONSTANTS
  Asked = {"minTick", "buyingPower", "cash", "pos", "ord"}
  Items = 2
  MaxQueries = 2
  MaxComing = 1
INVARIANTS
  TypeOK
  AnswerIsRight
  AnswerIsNotLost
PROPERTIES
  QueryReturns
