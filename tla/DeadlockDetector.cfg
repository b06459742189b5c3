\* Two locks, at most two holders and two waiters each, three threads.
CONSTANTS
  Tids = {11, 12, 13}
  NoEdge = NoEdge
  NoChild = NoChild
  Locks = 2
  MaxLen = 2
SPECIFICATION Spec
CHECK_DEADLOCK FALSE
INVARIANT WarnsOnlyOfDeadlocks
