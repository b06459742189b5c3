\* Dependencies added to a task that has some already.
SPECIFICATION Spec
CONSTANTS
  a = a
  b = b
  c = c
  w1 = w1
  w2 = w2
  None = None
  Tasks = {a, b, c}
  Workers = {w1, w2}
  Uses = {"again"}
INVARIANT Acyclic
CHECK_DEADLOCK FALSE
