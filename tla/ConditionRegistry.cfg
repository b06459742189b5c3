\* References to a name are dropped on two threads.
CONSTANTS
  t1 = t1
  t2 = t2
  c1 = c1
  c2 = c2
  k1 = k1
  k2 = k2
  h1 = h1
  h2 = h2
  None = None
  Anonymous = ""
  Threads = {t1, t2}
  Mortal = {}
  Releasers = {t1, t2}
  Names = {"n"}
  Conds = {c1, c2}
  Tasks = {k1, k2}
  Handles = {h1, h2}
SPECIFICATION Spec
CHECK_DEADLOCK FALSE
INVARIANT RegisteredWhileReferenced
