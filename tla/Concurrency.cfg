SPECIFICATION Spec
CONSTANTS
  Workers = {w1, w2}
  MaxThreads = 2
  ExtraThreads = 0
  ShrinkStep = 4
  MaxTasks = 2
  MayFail = TRUE
  PriorityTaskCount = 2
  MaxQueued = 2
  MaxExecutions = 3
  MaxGroupExecutions = 2
  Tasks = {t1, t2}
  MaxMessages = 2
  MaxCalls = 2
  Callbacks = {a, b}
  Objects = {o, p}
  MaxListeners = 2
  MaxEvents = 2
  Envs = {e1, e2}
  Ids = 2
  MaxTimers = 2
  Signals = {10, 15}
  ExitCodes = {3}
  Limits = {1}
  PipeSize = 2
  ReadSize = 2
  MaxOut = 2
  MaxErr = 0
INVARIANTS TypeOK PoolIsSound ExecutionsAreSettled WorkerIsSound
  CallbacksAreSound ProcessIsSound
PROPERTIES NobodyWaitsForEver PrioritiesAreServed
CHECK_DEADLOCK FALSE
