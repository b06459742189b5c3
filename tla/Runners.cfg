\* Three tasks of two threads, one of them mortal, and one worker.
CONSTANTS
  t1 = t1
  t2 = t2
  w1 = w1
  a = a
  b = b
  c = c
  None = None
  Threads = {t1, t2}
  Mortal = {t2}
  Workers = {w1}
  Tasks = {a, b, c}
  Configs <- SmallConfigs
  Owners <- SmallOwners
SPECIFICATION FairSpec
CHECK_DEADLOCK FALSE
INVARIANTS
  TypeOK
  WithinCapacity
  RefCountIsExact
  OnePlace
PROPERTIES
  PromisesSettle
