SPECIFICATION Spec
CONSTANTS
  Workers = {w1, w2, w3}
  Submitters = {s1, s2}
  Main = Main
  Tasks = {t1, t2, t3}
  NoThread = NoThread
  NoTask = NoTask
INVARIANTS
  TypeOK
  MutexOwner
  OnePlace
  NoLostWakeup
  StopWakesAll
  DrainedAtEnd
PROPERTIES
  ImplementsPool
  DestructorReturns
