\* Exclusive requests, engines that live on: exclusion, implementation, progress.
CONSTANTS
  t1 = t1
  t2 = t2
  r1 = r1
  r2 = r2
  r3 = r3
  None = None
  Threads = {t1, t2}
  Requests = {r1, r2, r3}
  Modes = {"exclusive"}
  Mortal = {}
  Uses = {"signal", "isAvailable", "nested"}
SPECIFICATION FairSpec
INVARIANT
  MutualExclusion
PROPERTIES
  ImplementsSharedExclusiveLock
  EveryPromiseSettles
