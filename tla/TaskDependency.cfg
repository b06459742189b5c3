\* Three tasks, two workers: dependencies are added once per task, tasks are cancelled, released, removed.
SPECIFICATION Spec
CONSTANTS
  a = a
  b = b
  c = c
  w1 = w1
  w2 = w2
  None = None
  Tasks = {a, b, c}
  Workers = {w1, w2}
  Uses = {"cancel", "release", "remove"}
INVARIANT TypeOK
INVARIANT PerformedAfterPrerequisites
INVARIANT OnePlace
INVARIANT Acyclic
INVARIANT FlagCoversEdges
CHECK_DEADLOCK FALSE
SYMMETRY TaskSymmetry
