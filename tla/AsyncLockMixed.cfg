\* Both modes, two threads, the engine of one of them may be destroyed.
CONSTANTS
  t1 = t1
  t2 = t2
  r1 = r1
  r2 = r2
  r3 = r3
  None = None
  Threads = {t1, t2}
  Requests = {r1, r2, r3}
  Modes = {"shared", "exclusive"}
  Mortal = {t2}
  Uses = {"timeout", "nested"}
SPECIFICATION Spec
SYMMETRY AddressSymmetry
CHECK_DEADLOCK FALSE
INVARIANTS
  TypeOK
  AtMostOneExclusive
  NoLostWakeup
  NoUseAfterDelete
  CompletedOnce
  CallbackOnOwnThread
  NoRequestOfDeadEngine
PROPERTY
  NoSilentDrop
