\* One thread, callbacks that call lockAsync: the batch of shared requests overtakes.
CONSTANTS
  t1 = t1
  t2 = t2
  r1 = r1
  r2 = r2
  r3 = r3
  None = None
  Threads = {t1}
  Requests = {r1, r2, r3}
  Modes = {"shared", "exclusive"}
  Mortal = {}
  Uses = {"nested"}
SPECIFICATION Spec
CHECK_DEADLOCK FALSE
INVARIANT MutualExclusion
