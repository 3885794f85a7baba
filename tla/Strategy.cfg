SPECIFICATION Spec
CONSTANTS
  kDataLineNum = 4
  Prices <- MCPrices
  MaxOrders = 1
CHECK_DEADLOCK FALSE
INVARIANTS
  TypeOK
  OrdersFounded
