SPECIFICATION SafeSpec
CONSTANTS
  MaxTicks = 2
  PoolSize = 2
  Quotes <- MCQuotes
INVARIANTS
  RowIntegrity
  RowFits
