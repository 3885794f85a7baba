SPECIFICATION Spec
CONSTANTS
  Requests <- MCRequests
  Needs <- MCNeeds
  Records <- MCRecords
  MaxDrops = 3
  MaxTicks = 3
  PoolSize = 2
CHECK_DEADLOCK FALSE
INVARIANTS
  TypeOK
  NeverStuck
  TicksInOrder
PROPERTIES
  EndsSubscribed
  TicksTaken
