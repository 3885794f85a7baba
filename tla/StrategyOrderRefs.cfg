SPECIFICATION Spec
CONSTANTS
  kDataLineNum = 4
  Prices <- MCPrices
  MaxOrders = 2
CHECK_DEADLOCK FALSE
INVARIANTS
  OrderRefsDiffer
