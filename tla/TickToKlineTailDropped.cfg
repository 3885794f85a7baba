SPECIFICATION Spec
CONSTANTS
  kDataLineNum = 3
  Prices <- MCPrices
  Steps <- MCSteps
  Files <- MCWholeFile
  MaxTicks = 7
  MaxVolume = 3
  MaxDays = 1
CHECK_DEADLOCK FALSE
INVARIANTS
  TailDropped
