\* Two threads that wait, notify, request and release; one engine may be destroyed.
CONSTANTS
  t1 = t1
  t2 = t2
  c1 = c1
  c2 = c2
  k1 = k1
  k2 = k2
  h1 = h1
  h2 = h2
  None = None
  Anonymous = ""
  Threads = {t1, t2}
  Mortal = {t2}
  Releasers = {t1, t2}
  Names = {"n"}
  Conds = {c1, c2}
  Tasks = {k1, k2}
  Handles = {h1, h2}
SPECIFICATION FairSpec
CHECK_DEADLOCK FALSE
INVARIANTS
  TypeOK
  RefCountIsExact
  OneFate
  FinishedOnce
PROPERTY
  WaitersAreWoken
