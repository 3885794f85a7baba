SPECIFICATION Spec
CONSTANTS
  Requests <- Steps
  Needs <- MCNeeds
  Records <- MCRecords
  MaxDrops = 3
CHECK_DEADLOCK FALSE
INVARIANTS
  TypeOK
  StrategyAfterChain
  SettledOnItsLink
PROPERTIES
  ComesToTrade
