\* Two tasks, two workers: parking a task against the end of the task it waits for.
SPECIFICATION Spec
CONSTANTS
  a = a
  b = b
  c = c
  w1 = w1
  w2 = w2
  None = None
  Tasks = {a, b}
  Workers = {w1, w2}
  Uses = {}
INVARIANT PendingOnlyIfDependent
CHECK_DEADLOCK FALSE
