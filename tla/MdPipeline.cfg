SPECIFICATION Spec
CONSTANTS
  MaxTicks = 3
  PoolSize = 2
  Quotes <- MCOneQuote
INVARIANTS
  TypeOK
  AtMostOneRow
  ConnectionsBounded
  OvertakeWindow
  OnlyInitKills
  ExitDrains
PROPERTIES
  EveryTickTaken
  ImplementsMySQL
