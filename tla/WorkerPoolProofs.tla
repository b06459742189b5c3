--------------------------- MODULE WorkerPoolProofs ---------------------------
(***************************************************************************)
(* Theorems about WorkerPool, for any finite number of workers and any     *)
(* bounds of the pool.                                                     *)
(***************************************************************************)
EXTENDS WorkerPool, FiniteSetTheorems, TLAPS

PoolAssumption ==
  /\ IsFiniteSet(Workers)
  /\ MaxThreads \in Nat \ {0} /\ ExtraThreads \in Nat /\ ShrinkStep \in Nat /\ MaxTasks \in Nat

(* The values of pool. *)
Pools ==
  [workers : SUBSET Workers, idle : SUBSET Workers, timeout : SUBSET Workers, signals : SUBSET Workers,
   clear : SUBSET Workers, adding : SUBSET Workers, rested : SUBSET Workers,
   expanding : Nat, create : Nat, tasks : Nat, executed : 0..MaxTasks,
   suspended : BOOLEAN, expandTimer : BOOLEAN, dispatch : BOOLEAN, needChecking : BOOLEAN,
   manager : {"starting", "inited", "running"}, posting : {"no", "notify", "flag"},
   thread : [Workers -> {"none", "starting", "looping", "stopping", "failed", "deleted"}],
   state : [Workers -> {"idle", "running", "blocked"}],
   doing : [Workers -> {"loop", "dequeued", "performing", "leaving"}],
   runningCount : [Workers -> Nat]]

Starting(p) == {w \in Workers : p.thread[w] = "starting"}
Failed(p) == {w \in Workers : p.thread[w] \in {"failed", "deleted"}}

(* What is known, what is being added and what is still to be created fit. *)
Fits(p) == Cardinality(p.workers \cup p.adding) + p.create <= MaxThreads + ExtraThreads

(* expandingCount_ is never less than what is under construction, and it   *)
(* is that until a construction fails.                                     *)
CountsStarting(p) ==
  /\ Cardinality(Starting(p)) <= p.expanding
  /\ Failed(p) = {} => p.expanding = Cardinality(Starting(p))

(* One worker is added at a time; it is not known yet, and not asked to go. *)
AddsOne(p) ==
  /\ \A v, w \in p.adding : v = w
  /\ p.adding \cap (p.workers \cup p.clear) = {}

(* Only a thread in its loop can be found or asked to go, is busy, or goes *)
(* away, with nothing to do.                                               *)
LoopsOK(p) ==
  \A w \in Workers :
    /\ p.thread[w] \in {"stopping", "none"} =>
         p.runningCount[w] = 0 /\ p.doing[w] = "loop" /\ w \notin p.workers \cup p.adding
    /\ w \in p.idle \cup p.timeout \cup p.clear => p.thread[w] = "looping"
    /\ p.doing[w] # "loop" => p.thread[w] = "looping"
    /\ p.doing[w] = "performing" => p.runningCount[w] # 0

Sound(p) == p \in Pools /\ Fits(p) /\ CountsStarting(p) /\ AddsOne(p) /\ LoopsOK(p)

IInv == Sound(pool)

----------------------------------------------------------------------------
(* Updates that do not touch what Sound is about.                          *)

SameCore(p, q) ==
  /\ q.workers = p.workers /\ q.idle = p.idle /\ q.timeout = p.timeout /\ q.clear = p.clear
  /\ q.adding = p.adding /\ q.expanding = p.expanding /\ q.create = p.create
  /\ q.thread = p.thread /\ q.doing = p.doing /\ q.runningCount = p.runningCount

(* What does not touch the core of a pool keeps it sound.                  *)
LEMMA CoreKept ==
  ASSUME NEW p, NEW q, Sound(p), q \in Pools, SameCore(p, q)
  PROVE  Sound(q)
BY DEF Sound, SameCore, Fits, CountsStarting, Starting, Failed, AddsOne, LoopsOK

(* Signals do not touch the core.                                          *)
LEMMA NotifiedFacts ==
  ASSUME NEW p, p \in Pools
  PROVE  Notified(p) \in Pools /\ SameCore(p, Notified(p))
<1>1. CASE Notified(p) = p
  BY <1>1 DEF SameCore
<1>2. CASE Notified(p) = [p EXCEPT !.signals = @ \cup {w \in p.idle : p.thread[w] = "looping"}]
  <2> DEFINE S == p.signals \cup {w \in p.idle : p.thread[w] = "looping"}
  <2>1. Notified(p) = [p EXCEPT !.signals = S] /\ S \subseteq Workers
    BY <1>2 DEF Pools
  <2> HIDE DEF S
  <2> QED BY <2>1 DEF Pools, SameCore
<1> QED BY <1>1, <1>2 DEF Notified

(* Nor do the signals sent for waiting tasks.                              *)
LEMMA NotifiedOfTasksFacts ==
  ASSUME NEW p, Sound(p)
  PROVE  Sound(NotifiedOfTasks(p))
BY NotifiedFacts, CoreKept DEF NotifiedOfTasks, Sound

(* EnqueueTask keeps the invariant.                                        *)
LEMMA EnqueueTaskKeepsIInv ==
  ASSUME PoolAssumption, IInv, EnqueueTask
  PROVE  IInv'
<1>1. pool \in Pools
  BY DEF IInv, Sound
<1>2. pool' \in Pools /\ SameCore(pool, pool')
  <2> DEFINE t == pool.tasks + 1
             e == pool.executed + 1
             d == pool.dispatch \/ pool.manager # "starting"
             n == IF pool.manager = "starting" THEN "notify" ELSE "no"
  <2>1. pool' = [pool EXCEPT !.tasks = t, !.executed = e, !.dispatch = d, !.posting = n]
    BY DEF EnqueueTask
  <2>2. t \in Nat /\ e \in 0..MaxTasks /\ d \in BOOLEAN /\ n \in {"notify", "no"}
    BY <1>1 DEF EnqueueTask, Pools, PoolAssumption
  <2> HIDE DEF t, e, d, n
  <2>3. pool' \in Pools
    BY <1>1, <2>1, <2>2, Zenon DEF Pools
  <2>4. SameCore(pool, pool')
    BY <1>1, <2>1, <2>2 DEF Pools, SameCore
  <2> QED BY <2>3, <2>4
<1> QED BY <1>2, CoreKept DEF IInv

(* NotifyEarly keeps the invariant.                                        *)
LEMMA NotifyEarlyKeepsIInv ==
  ASSUME IInv, NotifyEarly
  PROVE  IInv'
<1> DEFINE p == Notified(pool)
<1>1. p \in Pools /\ SameCore(pool, p)
  BY NotifiedFacts DEF IInv, Sound
<1>2. pool' = [p EXCEPT !.posting = "flag"]
  BY DEF NotifyEarly
<1> HIDE DEF p
<1>3. pool' \in Pools
  BY <1>1, <1>2, Zenon DEF Pools
<1>4. SameCore(pool, pool')
  BY <1>1, <1>2 DEF Pools, SameCore
<1> QED BY <1>3, <1>4, CoreKept DEF IInv

(* NeedChecking keeps the invariant.                                       *)
LEMMA NeedCheckingKeepsIInv ==
  ASSUME IInv, NeedChecking
  PROVE  IInv'
<1>1. pool \in Pools /\ pool' = [pool EXCEPT !.posting = "no", !.needChecking = TRUE]
  BY DEF NeedChecking, IInv, Sound
<1>2. pool' \in Pools
  BY <1>1, Zenon DEF Pools
<1>3. SameCore(pool, pool')
  BY <1>1 DEF Pools, SameCore
<1> QED BY <1>2, <1>3, CoreKept DEF IInv

(* HandleInited keeps the invariant.                                       *)
LEMMA HandleInitedKeepsIInv ==
  ASSUME IInv, HandleInited
  PROVE  IInv'
<1>1. pool \in Pools /\ pool' = [pool EXCEPT !.manager = "inited"]
  BY DEF HandleInited, IInv, Sound
<1>2. pool' \in Pools
  BY <1>1, Zenon DEF Pools
<1>3. SameCore(pool, pool')
  BY <1>1 DEF Pools, SameCore
<1> QED BY <1>2, <1>3, CoreKept DEF IInv

(* StartLoop keeps the invariant.                                          *)
LEMMA StartLoopKeepsIInv ==
  ASSUME IInv, StartLoop
  PROVE  IInv'
<1> DEFINE d == pool.dispatch \/ pool.needChecking
<1>1. pool \in Pools /\ pool' = [pool EXCEPT !.manager = "running", !.needChecking = FALSE, !.dispatch = d]
  BY DEF StartLoop, IInv, Sound
<1>2. d \in BOOLEAN
  OBVIOUS
<1> HIDE DEF d
<1>3. pool' \in Pools
  BY <1>1, <1>2, Zenon DEF Pools
<1>4. SameCore(pool, pool')
  BY <1>1, <1>2 DEF Pools, SameCore
<1> QED BY <1>3, <1>4, CoreKept DEF IInv

----------------------------------------------------------------------------
(* Expansion. *)

(* The sets of a pool are finite.                                          *)
LEMMA SizeFacts ==
  ASSUME PoolAssumption, NEW p \in Pools
  PROVE  /\ IsFiniteSet(p.workers) /\ Cardinality(p.workers) \in Nat
         /\ IsFiniteSet(p.adding) /\ Cardinality(p.adding) \in Nat
         /\ IsFiniteSet(p.workers \cup p.adding) /\ Cardinality(p.workers \cup p.adding) \in Nat
<1>1. p.workers \subseteq Workers /\ p.adding \subseteq Workers
  BY DEF Pools
<1>2. IsFiniteSet(p.workers) /\ IsFiniteSet(p.adding) /\ IsFiniteSet(p.workers \cup p.adding)
  BY <1>1, FS_Subset DEF PoolAssumption
<1> QED BY <1>2, FS_CardinalityType

(* Nothing but how many are to be created.                                 *)
SameButCreate(p, q) ==
  /\ q.workers = p.workers /\ q.idle = p.idle /\ q.timeout = p.timeout /\ q.clear = p.clear
  /\ q.adding = p.adding /\ q.expanding = p.expanding
  /\ q.thread = p.thread /\ q.doing = p.doing /\ q.runningCount = p.runningCount

(* Changing the number still to create keeps a pool sound if all fit.      *)
LEMMA CreateKept ==
  ASSUME NEW p, NEW q, Sound(p), q \in Pools, SameButCreate(p, q), Fits(q)
  PROVE  Sound(q)
BY DEF Sound, SameButCreate, CountsStarting, Starting, Failed, AddsOne, LoopsOK

(* Deciding to expand keeps a pool sound.                                  *)
LEMMA ExpandedFacts ==
  ASSUME PoolAssumption, NEW p, Sound(p), p.create = 0, p.adding = {},
         NEW idleCount \in Nat, NEW target \in Int
  PROVE  Sound(Expanded(p, idleCount, target))
<1> DEFINE workerCount == Cardinality(p.workers)
           maxThreads == MaxThreads + (IF p.timeout = {} THEN 0 ELSE ExtraThreads)
           expands == workerCount < maxThreads /\ idleCount < target
           step == Least(Least(maxThreads, target) - idleCount, maxThreads - workerCount) - p.expanding
           checked == [p EXCEPT !.needChecking = FALSE, !.expandTimer = FALSE]
           c == IF expands THEN step ELSE 0
           q == [checked EXCEPT !.create = c, !.suspended = FALSE]
<1>1. p \in Pools /\ Fits(p) /\ workerCount \in Nat /\ p.expanding \in Nat
  BY SizeFacts DEF Sound, Pools
<1>2. maxThreads \in Nat /\ maxThreads <= MaxThreads + ExtraThreads
  BY DEF PoolAssumption
<1>3. step \in Int /\ step <= maxThreads - workerCount
  BY <1>1, <1>2 DEF Least
<1>4. checked \in Pools /\ SameCore(p, checked)
  <2>1. checked \in Pools
    BY <1>1, Zenon DEF Pools
  <2>2. SameCore(p, checked)
    BY <1>1 DEF Pools, SameCore
  <2> QED BY <2>1, <2>2
<1>5. Sound(checked)
  BY <1>4, CoreKept
<1>6. ASSUME ~(expands /\ step <= 0)
      PROVE  Sound(q)
  <2>1. c \in Nat /\ workerCount + c <= MaxThreads + ExtraThreads
    <3>1. CASE expands
      <4>1. c = step /\ step > 0
        BY <3>1, <1>3, <1>6
      <4> HIDE DEF c, step, expands, maxThreads, workerCount
      <4> QED BY <4>1, <1>1, <1>2, <1>3 DEF PoolAssumption
    <3>2. CASE ~expands
      BY <3>2, <1>1 DEF Fits, PoolAssumption
    <3> QED BY <3>1, <3>2
  <2> HIDE DEF c, checked
  <2>2. q \in Pools
    BY <1>4, <2>1, Zenon DEF Pools
  <2>3. SameButCreate(checked, q) /\ q.create = c
    BY <1>4, <2>1 DEF Pools, SameButCreate
  <2> HIDE DEF q
  <2>4. q.workers \cup q.adding = p.workers
    BY <1>4, <2>3 DEF SameCore, SameButCreate
  <2>5. Fits(q)
    BY <2>1, <2>3, <2>4 DEF Fits
  <2> QED BY <1>5, <2>2, <2>3, <2>5, CreateKept
<1>7. Expanded(p, idleCount, target) =
        IF p.tasks = 0 THEN p ELSE IF expands /\ step <= 0 THEN checked ELSE q
  BY Zenon DEF Expanded
<1> HIDE DEF expands, step, checked, q
<1> QED BY <1>5, <1>6, <1>7

(* The number of idle workers that is looked for is an integer.            *)
LEMMA TargetIsInt ==
  ASSUME NEW p \in Pools, NEW target \in 1..Max({1, p.tasks})
  PROVE  target \in Int
<1>1. p.tasks \in Nat
  BY DEF Pools
<1>2. \E x \in {1, p.tasks} : \A y \in {1, p.tasks} : x >= y
  BY <1>1
<1>3. Max({1, p.tasks}) \in {1, p.tasks}
  BY <1>2 DEF Max
<1> QED BY <1>1, <1>3

(* Dispatch keeps the invariant.                                           *)
LEMMA DispatchKeepsIInv ==
  ASSUME PoolAssumption, IInv, Dispatch
  PROVE  IInv'
<1>1. PICK target \in SuitableIdleNum :
        pool' = [Expanded(Notified(pool), Cardinality(pool.idle), target)
                   EXCEPT !.dispatch = FALSE, !.expandTimer = @ \/ pool.tasks # 0]
  BY DEF Dispatch
<1>2. pool \in Pools /\ pool.create = 0 /\ pool.adding = {}
  BY DEF IInv, Sound, Dispatch, MonitorIsFree
<1>3. Notified(pool) \in Pools /\ SameCore(pool, Notified(pool))
  BY <1>2, NotifiedFacts
<1>4. Sound(Notified(pool)) /\ Notified(pool).create = 0 /\ Notified(pool).adding = {}
  BY <1>2, <1>3, CoreKept DEF IInv, SameCore
<1>5. target \in Int
  BY <1>1, <1>2, TargetIsInt DEF SuitableIdleNum
<1>6. Cardinality(pool.idle) \in Nat
  BY <1>2, FS_Subset, FS_CardinalityType DEF Pools, PoolAssumption
<1> DEFINE p == Expanded(Notified(pool), Cardinality(pool.idle), target)
           b == p.expandTimer \/ pool.tasks # 0
<1>7. Sound(p)
  BY <1>4, <1>5, <1>6, ExpandedFacts
<1>8. b \in BOOLEAN
  OBVIOUS
<1> HIDE DEF p
<1>9. pool' = [p EXCEPT !.dispatch = FALSE, !.expandTimer = b]
  BY <1>1, <1>7 DEF p, Sound, Pools
<1> HIDE DEF b
<1>10. pool' \in Pools
  BY <1>7, <1>8, <1>9, Zenon DEF Sound, Pools
<1>11. SameCore(p, pool')
  BY <1>7, <1>8, <1>9 DEF Sound, Pools, SameCore
<1> QED BY <1>7, <1>10, <1>11, CoreKept DEF IInv

(* ExpandTimer keeps the invariant.                                        *)
LEMMA ExpandTimerKeepsIInv ==
  ASSUME PoolAssumption, IInv, ExpandTimer
  PROVE  IInv'
<1>1. PICK target \in SuitableIdleNum, runnable \in SUBSET (pool.idle \ pool.rested) :
        pool' = [Expanded(pool, Cardinality(runnable), target) EXCEPT !.expandTimer = FALSE]
  BY DEF ExpandTimer
<1>2. pool \in Pools /\ pool.create = 0 /\ pool.adding = {}
  BY DEF IInv, Sound, ExpandTimer, MonitorIsFree
<1>3. target \in Int
  BY <1>1, <1>2, TargetIsInt DEF SuitableIdleNum
<1>4. Cardinality(runnable) \in Nat
  <2>1. runnable \subseteq Workers
    BY <1>2 DEF Pools
  <2> QED BY <2>1, FS_Subset, FS_CardinalityType DEF PoolAssumption
<1> DEFINE p == Expanded(pool, Cardinality(runnable), target)
<1>5. Sound(p)
  BY <1>2, <1>3, <1>4, ExpandedFacts DEF IInv
<1>6. pool' = [p EXCEPT !.expandTimer = FALSE]
  BY <1>1
<1> HIDE DEF p
<1>7. pool' \in Pools
  BY <1>5, <1>6, Zenon DEF Sound, Pools
<1>8. SameCore(p, pool')
  BY <1>5, <1>6 DEF Sound, Pools, SameCore
<1> QED BY <1>5, <1>7, <1>8, CoreKept DEF IInv

(* The count of starting workers depends on these fields only.             *)
LEMMA SameStarting ==
  ASSUME NEW p, NEW q, Sound(p), q.expanding = p.expanding, Starting(q) = Starting(p), Failed(q) = Failed(p)
  PROVE  CountsStarting(q)
BY DEF Sound, CountsStarting

(* What is known and what is being added does not become more.             *)
LEMMA StillFits ==
  ASSUME PoolAssumption, NEW p, NEW q, Sound(p), q \in Pools,
         q.workers \cup q.adding \subseteq p.workers \cup p.adding, q.create = p.create
  PROVE  Fits(q)
<1>1. /\ p \in Pools /\ p.create \in Nat /\ Fits(p)
      /\ IsFiniteSet(p.workers \cup p.adding) /\ Cardinality(p.workers \cup p.adding) \in Nat
      /\ Cardinality(q.workers \cup q.adding) \in Nat
  BY SizeFacts DEF Sound, Pools
<1>2. Cardinality(q.workers \cup q.adding) <= Cardinality(p.workers \cup p.adding)
  BY <1>1, FS_Subset
<1>3. MaxThreads + ExtraThreads \in Nat
  BY DEF PoolAssumption
<1> QED BY <1>1, <1>2, <1>3 DEF Fits

(* WorkerConstructor keeps the invariant.                                  *)
LEMMA WorkerConstructorKeepsIInv ==
  ASSUME PoolAssumption, IInv, NEW w \in Workers, WorkerConstructor(w)
  PROVE  IInv'
<1> DEFINE A == {w}
           c == pool.create - 1
           e == pool.expanding + 1
           th == [pool.thread EXCEPT ![w] = "starting"]
           st == [pool.state EXCEPT ![w] = "idle"]
           do == [pool.doing EXCEPT ![w] = "loop"]
           rc == [pool.runningCount EXCEPT ![w] = 0]
<1>1. pool \in Pools /\ pool.create > 0 /\ pool.adding = {} /\ pool.thread[w] = "none"
  BY DEF IInv, Sound, WorkerConstructor
<1>2. c \in Nat /\ e \in Nat /\ pool.create \in Nat /\ pool.expanding \in Nat
  BY <1>1 DEF Pools
<1>3. /\ A \in SUBSET Workers
      /\ th \in [Workers -> {"none", "starting", "looping", "stopping", "failed", "deleted"}]
      /\ st \in [Workers -> {"idle", "running", "blocked"}]
      /\ do \in [Workers -> {"loop", "dequeued", "performing", "leaving"}]
      /\ rc \in [Workers -> Nat]
  BY <1>1 DEF Pools
<1>4. pool' = [pool EXCEPT !.create = c, !.adding = A, !.expanding = e,
                           !.thread = th, !.state = st, !.doing = do, !.runningCount = rc]
  BY DEF WorkerConstructor, Fresh
<1> HIDE DEF A, c, e, th, st, do, rc
<1>5. pool' \in Pools
  BY <1>1, <1>2, <1>3, <1>4, Zenon DEF Pools
<1>6. /\ pool'.workers = pool.workers /\ pool'.idle = pool.idle /\ pool'.timeout = pool.timeout
      /\ pool'.clear = pool.clear /\ pool'.adding = A /\ pool'.create = c /\ pool'.expanding = e
      /\ pool'.thread = th /\ pool'.doing = do /\ pool'.runningCount = rc
  BY <1>1, <1>4, Zenon DEF Pools
<1>7. Fits(pool')
  <2>1. /\ IsFiniteSet(pool.workers) /\ Cardinality(pool.workers) \in Nat
        /\ Cardinality(pool.workers \cup {w}) \in Nat
    BY <1>1, <1>5, <1>6, SizeFacts DEF A
  <2>2. Cardinality(pool.workers \cup {w}) <= Cardinality(pool.workers) + 1
    <3>1. Cardinality(pool.workers \cup {w})
            = IF w \in pool.workers THEN Cardinality(pool.workers) ELSE Cardinality(pool.workers) + 1
      BY <2>1, FS_AddElement
    <3> QED BY <2>1, <3>1
  <2>3. Cardinality(pool.workers) + pool.create <= MaxThreads + ExtraThreads
    <3>1. pool.workers \cup pool.adding = pool.workers
      BY <1>1
    <3> QED BY <3>1 DEF IInv, Sound, Fits
  <2>4. MaxThreads + ExtraThreads \in Nat
    BY DEF PoolAssumption
  <2> QED BY <1>2, <1>6, <2>1, <2>2, <2>3, <2>4 DEF Fits, A, c
<1>8. CountsStarting(pool')
  <2>1. Starting(pool') = Starting(pool) \cup {w} /\ w \notin Starting(pool)
    BY <1>1, <1>6 DEF Starting, th, Pools
  <2>2. Failed(pool') = Failed(pool)
    BY <1>1, <1>6 DEF Failed, th, Pools
  <2>3. IsFiniteSet(Starting(pool)) /\ Cardinality(Starting(pool)) \in Nat
    BY FS_Subset, FS_CardinalityType DEF Starting, PoolAssumption
  <2>4. Cardinality(Starting(pool')) = Cardinality(Starting(pool)) + 1
    BY <2>1, <2>3, FS_AddElement
  <2> QED BY <1>2, <1>6, <2>2, <2>3, <2>4 DEF IInv, Sound, CountsStarting, e
<1>9. AddsOne(pool')
  BY <1>1, <1>6 DEF IInv, Sound, AddsOne, LoopsOK, A
<1>10. LoopsOK(pool')
  BY <1>1, <1>6 DEF IInv, Sound, LoopsOK, Pools, A, th, do, rc
<1> QED BY <1>5, <1>7, <1>8, <1>9, <1>10 DEF IInv, Sound

(* NotifyWorkerAdded keeps the invariant.                                  *)
LEMMA NotifyWorkerAddedKeepsIInv ==
  ASSUME PoolAssumption, IInv, NEW w \in Workers, NotifyWorkerAdded(w)
  PROVE  IInv'
<1> DEFINE W == pool.workers \cup {w}
<1>1. pool \in Pools /\ w \in pool.adding /\ pool' = [pool EXCEPT !.adding = {}, !.workers = W]
  BY DEF NotifyWorkerAdded, IInv, Sound
<1>2. W \subseteq Workers
  BY <1>1 DEF Pools
<1> HIDE DEF W
<1>3. pool' \in Pools
  BY <1>1, <1>2, Zenon DEF Pools
<1>4. /\ pool'.workers = W /\ pool'.idle = pool.idle /\ pool'.timeout = pool.timeout
      /\ pool'.clear = pool.clear /\ pool'.adding = {} /\ pool'.create = pool.create
      /\ pool'.expanding = pool.expanding
      /\ pool'.thread = pool.thread /\ pool'.doing = pool.doing /\ pool'.runningCount = pool.runningCount
  BY <1>1, Zenon DEF Pools
<1>5. Fits(pool')
  BY <1>1, <1>3, <1>4, StillFits DEF IInv, W
<1>6. CountsStarting(pool')
  BY <1>4, SameStarting DEF IInv, Starting, Failed
<1>7. AddsOne(pool')
  BY <1>4 DEF AddsOne
<1>8. LoopsOK(pool')
  BY <1>1, <1>4 DEF IInv, Sound, LoopsOK, W
<1> QED BY <1>3, <1>5, <1>6, <1>7, <1>8 DEF IInv, Sound

----------------------------------------------------------------------------
(* Shrinking. *)

(* Changes of the idle set, the time-out set and the events for            *)
(* clearWorkerSignal_ that keep to workers in their loops.                 *)
LEMMA SetsKept ==
  ASSUME NEW p, NEW q, Sound(p), q \in Pools,
         q.workers = p.workers, q.adding = p.adding, q.expanding = p.expanding, q.create = p.create,
         q.thread = p.thread, q.doing = p.doing, q.runningCount = p.runningCount,
         \A w \in q.idle \cup q.timeout \cup q.clear : p.thread[w] = "looping",
         q.adding \cap q.clear = {}
  PROVE  Sound(q)
BY DEF Sound, Fits, CountsStarting, Starting, Failed, AddsOne, LoopsOK

(* Sending idle workers away keeps a pool sound.                           *)
LEMMA ShrunkFacts ==
  ASSUME IInv, NEW S \in SUBSET pool.idle, S \cap pool.adding = {}
  PROVE  Sound(Shrunk(S)) /\ Shrunk(S).workers = pool.workers /\ Shrunk(S).timeout = pool.timeout
           /\ Shrunk(S).adding = pool.adding /\ Shrunk(S).create = pool.create
<1> DEFINE q == Shrunk(S)
           I == pool.idle \ S
           C == pool.clear \cup S
<1>1. pool \in Pools
  BY DEF IInv, Sound
<1>2. I \subseteq Workers /\ C \subseteq Workers
  BY <1>1 DEF Pools
<1>3. q = [pool EXCEPT !.idle = I, !.clear = C]
  BY DEF Shrunk
<1> HIDE DEF q, I, C
<1>4. q \in Pools
  BY <1>1, <1>2, <1>3, Zenon DEF Pools
<1>5. /\ q.workers = pool.workers /\ q.idle = I /\ q.timeout = pool.timeout /\ q.clear = C
      /\ q.adding = pool.adding /\ q.create = pool.create /\ q.expanding = pool.expanding
      /\ q.thread = pool.thread /\ q.doing = pool.doing /\ q.runningCount = pool.runningCount
  BY <1>1, <1>3, Zenon DEF Pools
<1>6. \A w \in q.idle \cup q.timeout \cup q.clear : pool.thread[w] = "looping"
  BY <1>1, <1>5 DEF IInv, Sound, LoopsOK, Pools, I, C
<1>7. q.adding \cap q.clear = {}
  BY <1>5 DEF IInv, Sound, AddsOne, C
<1>8. Sound(q)
  BY <1>4, <1>5, <1>6, <1>7, SetsKept DEF IInv
<1> QED BY <1>5, <1>8 DEF q

(* NotifyShrinkByInBackground keeps the invariant.                         *)
LEMMA NotifyShrinkByInBackgroundKeepsIInv ==
  ASSUME IInv, NotifyShrinkByInBackground
  PROVE  IInv'
<1>1. PICK S \in Shrinks(Cardinality(pool.idle) \div 2) : S \subseteq pool.workers /\ pool' = Shrunk(S)
  BY DEF NotifyShrinkByInBackground
<1>2. S \subseteq pool.idle
  BY <1>1 DEF Shrinks, Freeable
<1>3. S \cap pool.adding = {}
  BY <1>1 DEF IInv, Sound, AddsOne
<1> QED BY <1>1, <1>2, <1>3, ShrunkFacts DEF IInv

(* Only idle workers that may be freed are surplus.                        *)
LEMMA SurplusIsFree ==
  ASSUME NEW minThread
  PROVE  Surplus(minThread) \subseteq SUBSET Freeable
BY Zenon DEF Surplus

(* NotifyShrink keeps the invariant.                                       *)
LEMMA NotifyShrinkKeepsIInv ==
  ASSUME PoolAssumption, IInv, NotifyShrink
  PROVE  IInv'
<1>1. pool \in Pools /\ pool.create = 0 /\ pool.adding = {}
  BY DEF IInv, Sound, NotifyShrink, MonitorIsFree
<1>2. PICK S \in SUBSET Freeable, b \in BOOLEAN, one \in {0, 1} :
        LET p == Shrunk(S)
            left == {w \in p.timeout : w \in p.workers}
        IN \/ \E w \in left : pool' = [p EXCEPT !.timeout = left \ {w}, !.clear = @ \cup {w}]
           \/ /\ one # 0 => p.workers = {}
              /\ pool' = [p EXCEPT !.timeout = left, !.create = one, !.suspended = b]
  <2>1. PICK minThread \in {0, 1} :
       LET count == Cardinality(pool.workers) IN
          \E S \in Surplus(minThread) :
            LET p == Shrunk(S)
                left == {w \in p.timeout : w \in p.workers}
                releasable == {w \in left : p.runningCount[w] = 0}
            IN \/ \E w \in releasable :
                    pool' = [p EXCEPT !.timeout = left \ {w}, !.clear = @ \cup {w}]
               \/ /\ releasable = {}
                  /\ pool' = [p EXCEPT
                       !.timeout = left,
                       !.create = IF minThread # 0 /\ p.workers = {} THEN 1 ELSE 0,
                       !.suspended = left = {} /\ count <= minThread /\ count = Cardinality(p.idle)]
    BY Zenon DEF NotifyShrink
  <2> DEFINE count == Cardinality(pool.workers)
  <2>2. PICK S \in Surplus(minThread) :
            LET p == Shrunk(S)
                left == {w \in p.timeout : w \in p.workers}
                releasable == {w \in left : p.runningCount[w] = 0}
            IN \/ \E w \in releasable :
                    pool' = [p EXCEPT !.timeout = left \ {w}, !.clear = @ \cup {w}]
               \/ /\ releasable = {}
                  /\ pool' = [p EXCEPT
                       !.timeout = left,
                       !.create = IF minThread # 0 /\ p.workers = {} THEN 1 ELSE 0,
                       !.suspended = left = {} /\ count <= minThread /\ count = Cardinality(p.idle)]
    BY <2>1, Zenon
  <2> DEFINE p == Shrunk(S)
             left == {w \in p.timeout : w \in p.workers}
             releasable == {w \in left : p.runningCount[w] = 0}
             one == IF minThread # 0 /\ p.workers = {} THEN 1 ELSE 0
             b == left = {} /\ count <= minThread /\ count = Cardinality(p.idle)
  <2>3. S \in SUBSET Freeable
    BY <2>2, SurplusIsFree
  <2>4. \/ \E w \in releasable : pool' = [p EXCEPT !.timeout = left \ {w}, !.clear = @ \cup {w}]
        \/ pool' = [p EXCEPT !.timeout = left, !.create = one, !.suspended = b]
    BY <2>2, Zenon
  <2>5. releasable \subseteq left
    OBVIOUS
  <2>6. one \in {0, 1} /\ (one # 0 => p.workers = {}) /\ b \in BOOLEAN
    OBVIOUS
  <2> HIDE DEF p, left, releasable, one, b, count
  <2>7. \/ \E w \in left : pool' = [p EXCEPT !.timeout = left \ {w}, !.clear = @ \cup {w}]
        \/ /\ one # 0 => p.workers = {}
           /\ pool' = [p EXCEPT !.timeout = left, !.create = one, !.suspended = b]
    BY <2>4, <2>5, <2>6
  <2> USE <2>3, <2>6
  <2> WITNESS S \in SUBSET Freeable, b \in BOOLEAN, one \in {0, 1}
  <2> QED BY <2>7, Zenon DEF p, left
<1> DEFINE p == Shrunk(S)
           left == {w \in p.timeout : w \in p.workers}
<1>3. S \in SUBSET pool.idle /\ S \cap pool.adding = {}
  BY <1>1 DEF Freeable
<1>4. Sound(p) /\ p.adding = {} /\ p.create = 0
  BY <1>1, <1>3, ShrunkFacts
<1>5. left \subseteq p.timeout /\ left \subseteq Workers /\ left \subseteq p.workers
  BY <1>4 DEF Sound, Pools
<1>6. \/ \E w \in left : pool' = [p EXCEPT !.timeout = left \ {w}, !.clear = @ \cup {w}]
      \/ /\ one # 0 => p.workers = {}
         /\ pool' = [p EXCEPT !.timeout = left, !.create = one, !.suspended = b]
  BY <1>2, Zenon
<1> HIDE DEF p, left
<1>7. ASSUME NEW w \in left, pool' = [p EXCEPT !.timeout = left \ {w}, !.clear = @ \cup {w}]
      PROVE  IInv'
  <2> DEFINE T == left \ {w}
             C == p.clear \cup {w}
  <2>1. p \in Pools /\ T \subseteq Workers /\ C \subseteq Workers
    BY <1>4, <1>5 DEF Sound, Pools
  <2>2. pool' = [p EXCEPT !.timeout = T, !.clear = C]
    BY <1>7
  <2> HIDE DEF T, C
  <2>3. pool' \in Pools
    BY <2>1, <2>2, Zenon DEF Pools
  <2>4. /\ pool'.workers = p.workers /\ pool'.idle = p.idle /\ pool'.timeout = T /\ pool'.clear = C
        /\ pool'.adding = p.adding /\ pool'.create = p.create /\ pool'.expanding = p.expanding
        /\ pool'.thread = p.thread /\ pool'.doing = p.doing /\ pool'.runningCount = p.runningCount
    BY <2>1, <2>2, Zenon DEF Pools
  <2>5. \A v \in pool'.idle \cup pool'.timeout \cup pool'.clear : p.thread[v] = "looping"
    BY <1>4, <1>5, <2>1, <2>4 DEF Sound, LoopsOK, Pools, T, C
  <2>6. pool'.adding \cap pool'.clear = {}
    BY <1>4, <2>4
  <2> QED BY <1>4, <2>3, <2>4, <2>5, <2>6, SetsKept DEF IInv
<1>8. ASSUME one # 0 => p.workers = {}, pool' = [p EXCEPT !.timeout = left, !.create = one, !.suspended = b]
      PROVE  IInv'
  <2>1. p \in Pools /\ one \in Nat
    BY <1>4 DEF Sound
  <2>2. pool' \in Pools
    BY <1>5, <1>8, <2>1, Zenon DEF Pools
  <2>3. /\ pool'.workers = p.workers /\ pool'.idle = p.idle /\ pool'.timeout = left /\ pool'.clear = p.clear
        /\ pool'.adding = p.adding /\ pool'.create = one /\ pool'.expanding = p.expanding
        /\ pool'.thread = p.thread /\ pool'.doing = p.doing /\ pool'.runningCount = p.runningCount
    BY <1>8, <2>1, Zenon DEF Pools
  <2>4. Fits(pool')
    <3>1. CASE one = 0
      BY <3>1, <1>4, <2>3 DEF Sound, Fits
    <3>2. CASE one = 1
      <4>1. pool'.workers \cup pool'.adding = {}
        BY <3>2, <1>4, <1>8, <2>3
      <4>2. 0 + 1 <= MaxThreads + ExtraThreads
        BY DEF PoolAssumption
      <4> QED BY <3>2, <2>3, <4>1, <4>2, FS_EmptySet DEF Fits
    <3> QED BY <3>1, <3>2
  <2>5. CountsStarting(pool')
    BY <1>4, <2>3, SameStarting DEF Starting, Failed
  <2>6. AddsOne(pool') /\ LoopsOK(pool')
    BY <1>4, <1>5, <2>3 DEF Sound, AddsOne, LoopsOK
  <2> QED BY <2>2, <2>4, <2>5, <2>6 DEF IInv, Sound
<1> QED BY <1>6, <1>7, <1>8

(* BlockWorker keeps the invariant.                                        *)
LEMMA BlockWorkerKeepsIInv ==
  ASSUME IInv, NEW w \in Workers, BlockWorker(w)
  PROVE  IInv'
<1>1. pool \in Pools /\ pool.adding = {}
  BY DEF IInv, Sound, BlockWorker, MonitorIsFree
<1>2. CASE /\ pool.doing[w] \in {"performing", "leaving"} \/ InLoop(w)
           /\ pool' = [pool EXCEPT !.state[w] = "blocked", !.idle = @ \ {w}, !.timeout = @ \cup {w},
                                   !.expandTimer = TRUE]
  <2> DEFINE st == [pool.state EXCEPT ![w] = "blocked"]
             I == pool.idle \ {w}
             T == pool.timeout \cup {w}
  <2>1. st \in [Workers -> {"idle", "running", "blocked"}] /\ I \subseteq Workers /\ T \subseteq Workers
    BY <1>1 DEF Pools
  <2>2. pool' = [pool EXCEPT !.state = st, !.idle = I, !.timeout = T, !.expandTimer = TRUE]
    BY <1>2
  <2> HIDE DEF st, I, T
  <2>3. pool' \in Pools
    BY <1>1, <2>1, <2>2, Zenon DEF Pools
  <2>4. /\ pool'.workers = pool.workers /\ pool'.idle = I /\ pool'.timeout = T /\ pool'.clear = pool.clear
        /\ pool'.adding = pool.adding /\ pool'.create = pool.create /\ pool'.expanding = pool.expanding
        /\ pool'.thread = pool.thread /\ pool'.doing = pool.doing /\ pool'.runningCount = pool.runningCount
    BY <1>1, <2>2, Zenon DEF Pools
  <2>5. pool.thread[w] = "looping"
    BY <1>2 DEF IInv, Sound, LoopsOK, InLoop
  <2>6. \A v \in pool'.idle \cup pool'.timeout \cup pool'.clear : pool.thread[v] = "looping"
    BY <1>1, <2>4, <2>5 DEF IInv, Sound, LoopsOK, Pools, I, T
  <2>7. pool'.adding \cap pool'.clear = {}
    BY <1>1, <2>4
  <2> QED BY <2>3, <2>4, <2>6, <2>7, SetsKept DEF IInv
<1>3. ASSUME NEW s \in {"idle", "blocked"}, pool' = [pool EXCEPT !.state[w] = s]
      PROVE  IInv'
  <2> DEFINE st == [pool.state EXCEPT ![w] = s]
  <2>1. st \in [Workers -> {"idle", "running", "blocked"}]
    BY <1>1 DEF Pools
  <2>2. pool' = [pool EXCEPT !.state = st]
    BY <1>3
  <2> HIDE DEF st
  <2>3. pool' \in Pools
    BY <1>1, <2>1, <2>2, Zenon DEF Pools
  <2>4. SameCore(pool, pool')
    BY <1>1, <2>2 DEF Pools, SameCore
  <2> QED BY <2>3, <2>4, CoreKept DEF IInv
<1> QED BY <1>2, <1>3 DEF BlockWorker

----------------------------------------------------------------------------
(* The threads of the workers. *)

(* Without w, one thread less is under construction.                       *)
LEMMA OneStartingLess ==
  ASSUME PoolAssumption, NEW p, Sound(p), NEW w \in Starting(p)
  PROVE  /\ Cardinality(Starting(p)) \in Nat /\ Cardinality(Starting(p)) # 0
         /\ Cardinality(Starting(p) \ {w}) = Cardinality(Starting(p)) - 1
<1>1. IsFiniteSet(Starting(p)) /\ Cardinality(Starting(p)) \in Nat
  BY FS_Subset, FS_CardinalityType DEF Starting, PoolAssumption
<1> QED BY <1>1, FS_RemoveElement, FS_EmptySet

(* The thread of a worker that is under construction ends.                 *)
LEMMA FailureKeepsIInv ==
  ASSUME PoolAssumption, IInv, NEW w \in Workers, pool.thread[w] = "starting",
         NEW x \in {"failed", "deleted"}, pool' \in Pools, pool'.workers \subseteq pool.workers,
         pool'.thread[w] = x, \A v \in Workers : v # w => pool'.thread[v] = pool.thread[v],
         pool'.idle = pool.idle, pool'.timeout = pool.timeout, pool'.clear = pool.clear,
         pool'.adding = pool.adding, pool'.create = pool.create, pool'.expanding = pool.expanding,
         pool'.doing = pool.doing, pool'.runningCount = pool.runningCount
  PROVE  IInv'
<1>1. Fits(pool')
  BY StillFits DEF IInv
<1>2. CountsStarting(pool')
  <2>1. Starting(pool') = Starting(pool) \ {w} /\ w \in Starting(pool)
    BY DEF Starting
  <2>2. Failed(pool') # {}
    BY DEF Failed
  <2>3. /\ Cardinality(Starting(pool)) \in Nat
        /\ Cardinality(Starting(pool')) = Cardinality(Starting(pool)) - 1
    BY <2>1, OneStartingLess DEF IInv
  <2>4. pool.expanding \in Nat /\ Cardinality(Starting(pool)) <= pool.expanding
    BY DEF IInv, Sound, CountsStarting, Pools
  <2> QED BY <2>2, <2>3, <2>4 DEF CountsStarting
<1>3. AddsOne(pool')
  BY DEF IInv, Sound, AddsOne
<1>4. LoopsOK(pool')
  BY DEF IInv, Sound, LoopsOK
<1> QED BY <1>1, <1>2, <1>3, <1>4 DEF IInv, Sound

(* The end of one thread leaves the others as they are.                    *)
LEMMA ThreadEnds ==
  ASSUME IInv, NEW w \in Workers, NEW x \in {"failed", "deleted"}
  PROVE  LET th == [pool.thread EXCEPT ![w] = x] IN
         /\ th \in [Workers -> {"none", "starting", "looping", "stopping", "failed", "deleted"}]
         /\ th[w] = x /\ \A v \in Workers : v # w => th[v] = pool.thread[v]
BY DEF IInv, Sound, Pools

(* CreateRuntimeFails keeps the invariant.                                 *)
LEMMA CreateRuntimeFailsKeepsIInv ==
  ASSUME PoolAssumption, IInv, NEW w \in Workers, CreateRuntimeFails(w)
  PROVE  IInv'
<1> DEFINE th == [pool.thread EXCEPT ![w] = "failed"]
<1>1. pool \in Pools /\ pool' = [pool EXCEPT !.thread = th]
  BY DEF CreateRuntimeFails, IInv, Sound
<1>2. /\ th \in [Workers -> {"none", "starting", "looping", "stopping", "failed", "deleted"}]
      /\ th[w] = "failed" /\ \A v \in Workers : v # w => th[v] = pool.thread[v]
  BY ThreadEnds
<1> HIDE DEF th
<1>3. pool' \in Pools
  BY <1>1, <1>2, Zenon DEF Pools
<1>4. /\ pool'.workers = pool.workers /\ pool'.idle = pool.idle /\ pool'.timeout = pool.timeout
      /\ pool'.clear = pool.clear /\ pool'.adding = pool.adding /\ pool'.create = pool.create
      /\ pool'.expanding = pool.expanding
      /\ pool'.thread = th /\ pool'.doing = pool.doing /\ pool'.runningCount = pool.runningCount
  BY <1>1, Zenon DEF Pools
<1>5. pool.thread[w] = "starting"
  BY DEF CreateRuntimeFails
<1> QED BY <1>2, <1>3, <1>4, <1>5, FailureKeepsIInv

(* PrepareFails keeps the invariant.                                       *)
LEMMA PrepareFailsKeepsIInv ==
  ASSUME PoolAssumption, IInv, NEW w \in Workers, PrepareFails(w)
  PROVE  IInv'
<1> DEFINE th == [pool.thread EXCEPT ![w] = "deleted"]
           W == pool.workers \ {w}
<1>1. pool \in Pools /\ pool' = [pool EXCEPT !.thread = th, !.workers = W]
  BY DEF PrepareFails, IInv, Sound
<1>2. /\ th \in [Workers -> {"none", "starting", "looping", "stopping", "failed", "deleted"}]
      /\ th[w] = "deleted" /\ \A v \in Workers : v # w => th[v] = pool.thread[v]
  BY ThreadEnds
<1>3. W \subseteq Workers /\ W \subseteq pool.workers
  BY <1>1 DEF Pools
<1> HIDE DEF th, W
<1>4. pool' \in Pools
  BY <1>1, <1>2, <1>3, Zenon DEF Pools
<1>5. /\ pool'.workers = W /\ pool'.idle = pool.idle /\ pool'.timeout = pool.timeout
      /\ pool'.clear = pool.clear /\ pool'.adding = pool.adding /\ pool'.create = pool.create
      /\ pool'.expanding = pool.expanding
      /\ pool'.thread = th /\ pool'.doing = pool.doing /\ pool'.runningCount = pool.runningCount
  BY <1>1, Zenon DEF Pools
<1>6. pool.thread[w] = "starting"
  BY DEF PrepareFails
<1> QED BY <1>2, <1>3, <1>4, <1>5, <1>6, FailureKeepsIInv

(* WorkerCreated keeps the invariant.                                      *)
LEMMA WorkerCreatedKeepsIInv ==
  ASSUME PoolAssumption, IInv, NEW w \in Workers, WorkerCreated(w)
  PROVE  IInv'
<1> DEFINE th == [pool.thread EXCEPT ![w] = "looping"]
           I == pool.idle \cup {w}
           e == pool.expanding - 1
           q == [pool EXCEPT !.thread[w] = "looping", !.idle = I, !.expanding = e]
<1>1. pool \in Pools /\ pool.thread[w] = "starting" /\ pool' = NotifiedOfTasks(q)
  BY DEF WorkerCreated, IInv, Sound
<1>2. /\ th \in [Workers -> {"none", "starting", "looping", "stopping", "failed", "deleted"}]
      /\ th[w] = "looping" /\ \A v \in Workers : v # w => th[v] = pool.thread[v]
      /\ I \subseteq Workers
  BY <1>1 DEF Pools
<1>3. /\ w \in Starting(pool) /\ Cardinality(Starting(pool)) \in Nat /\ Cardinality(Starting(pool)) # 0
      /\ Cardinality(Starting(pool) \ {w}) = Cardinality(Starting(pool)) - 1
      /\ Cardinality(Starting(pool)) <= pool.expanding /\ pool.expanding \in Nat
  BY <1>1, OneStartingLess DEF Starting, IInv, Sound, CountsStarting, Pools
<1>4. e \in Nat
  BY <1>3
<1>5. q = [pool EXCEPT !.thread = th, !.idle = I, !.expanding = e]
  OBVIOUS
<1> HIDE DEF th, I, e, q
<1>6. q \in Pools
  BY <1>1, <1>2, <1>4, <1>5, Zenon DEF Pools
<1>7. /\ q.workers = pool.workers /\ q.idle = I /\ q.timeout = pool.timeout /\ q.clear = pool.clear
      /\ q.adding = pool.adding /\ q.create = pool.create /\ q.expanding = e
      /\ q.thread = th /\ q.doing = pool.doing /\ q.runningCount = pool.runningCount
  BY <1>1, <1>5, Zenon DEF Pools
<1>8. Fits(q)
  BY <1>6, <1>7, StillFits DEF IInv
<1>9. CountsStarting(q)
  <2>1. Starting(q) = Starting(pool) \ {w} /\ Failed(q) = Failed(pool)
    BY <1>1, <1>2, <1>7 DEF Starting, Failed
  <2> QED BY <1>3, <1>7, <2>1 DEF IInv, Sound, CountsStarting, e
<1>10. AddsOne(q)
  BY <1>7 DEF IInv, Sound, AddsOne
<1>11. LoopsOK(q)
  BY <1>1, <1>2, <1>7 DEF IInv, Sound, LoopsOK, I
<1>12. Sound(q)
  BY <1>6, <1>8, <1>9, <1>10, <1>11 DEF Sound
<1> QED BY <1>1, <1>12, NotifiedOfTasksFacts DEF IInv

(* Rest keeps the invariant.                                               *)
LEMMA RestKeepsIInv ==
  ASSUME IInv, NEW w \in Workers, Rest(w)
  PROVE  IInv'
<1> DEFINE R == pool.rested \cup {w}
<1>1. pool \in Pools /\ pool' = [pool EXCEPT !.rested = R]
  BY DEF Rest, IInv, Sound
<1>2. R \subseteq Workers
  BY <1>1 DEF Pools
<1> HIDE DEF R
<1>3. pool' \in Pools
  BY <1>1, <1>2, Zenon DEF Pools
<1>4. SameCore(pool, pool')
  BY <1>1 DEF Pools, SameCore
<1> QED BY <1>3, <1>4, CoreKept DEF IInv

(* A worker in its loop that takes up work or leaves off.                  *)
LEMMA WorkKept ==
  ASSUME NEW p, NEW q, Sound(p), q \in Pools, NEW w \in Workers, p.thread[w] = "looping",
         q.workers = p.workers, q.adding = p.adding, q.expanding = p.expanding, q.create = p.create,
         q.timeout = p.timeout, q.clear = p.clear, q.thread = p.thread, q.idle \subseteq p.idle \cup {w},
         \A v \in Workers : v # w => q.doing[v] = p.doing[v] /\ q.runningCount[v] = p.runningCount[v],
         q.doing[w] = "performing" => q.runningCount[w] # 0
  PROVE  Sound(q)
BY DEF Sound, Fits, CountsStarting, Starting, Failed, AddsOne, LoopsOK

(* DequeueTask keeps the invariant.                                        *)
LEMMA DequeueTaskKeepsIInv ==
  ASSUME IInv, NEW w \in Workers, DequeueTask(w)
  PROVE  IInv'
<1> DEFINE S == pool.signals \ {w}
           do == [pool.doing EXCEPT ![w] = "dequeued"]
           t == pool.tasks - 1
<1>1. pool \in Pools /\ pool.thread[w] = "looping"
  BY DEF DequeueTask, InLoop, IInv, Sound
<1>2. /\ S \subseteq Workers /\ do \in [Workers -> {"loop", "dequeued", "performing", "leaving"}]
      /\ do[w] = "dequeued" /\ \A v \in Workers : v # w => do[v] = pool.doing[v]
      /\ pool.tasks \in Nat
  BY <1>1 DEF Pools
<1>3. CASE pool' = [pool EXCEPT !.signals = S]
  <2> HIDE DEF S
  <2>1. pool' \in Pools
    BY <1>1, <1>2, <1>3, Zenon DEF Pools
  <2>2. SameCore(pool, pool')
    BY <1>1, <1>3 DEF Pools, SameCore
  <2> QED BY <2>1, <2>2, CoreKept DEF IInv
<1>4. CASE pool.tasks # 0 /\ pool' = [pool EXCEPT !.signals = @ \ {w}, !.tasks = @ - 1, !.doing[w] = "dequeued"]
  <2>1. t \in Nat
    BY <1>2, <1>4
  <2>2. pool' = [pool EXCEPT !.signals = S, !.tasks = t, !.doing = do]
    BY <1>4
  <2> HIDE DEF S, t, do
  <2>3. pool' \in Pools
    BY <1>1, <1>2, <2>1, <2>2, Zenon DEF Pools
  <2>4. /\ pool'.workers = pool.workers /\ pool'.idle = pool.idle /\ pool'.timeout = pool.timeout
        /\ pool'.clear = pool.clear /\ pool'.adding = pool.adding /\ pool'.create = pool.create
        /\ pool'.expanding = pool.expanding
        /\ pool'.thread = pool.thread /\ pool'.doing = do /\ pool'.runningCount = pool.runningCount
    BY <1>1, <2>2, Zenon DEF Pools
  <2> QED BY <1>1, <1>2, <2>3, <2>4, WorkKept DEF IInv
<1> QED BY <1>3, <1>4 DEF DequeueTask

(* StartTask keeps the invariant.                                          *)
LEMMA StartTaskKeepsIInv ==
  ASSUME IInv, NEW w \in Workers, StartTask(w)
  PROVE  IInv'
<1> DEFINE I == pool.idle \ {w}
           do == [pool.doing EXCEPT ![w] = "performing"]
           st == [pool.state EXCEPT ![w] = "running"]
           rc == [pool.runningCount EXCEPT ![w] = @ + 1]
<1>1. pool \in Pools /\ pool.thread[w] = "looping"
  BY DEF StartTask, IInv, Sound, LoopsOK
<1>2. /\ I \subseteq Workers /\ do \in [Workers -> {"loop", "dequeued", "performing", "leaving"}]
      /\ st \in [Workers -> {"idle", "running", "blocked"}] /\ rc \in [Workers -> Nat]
      /\ rc[w] # 0 /\ \A v \in Workers : v # w => do[v] = pool.doing[v] /\ rc[v] = pool.runningCount[v]
      /\ I \subseteq pool.idle
  BY <1>1 DEF Pools
<1>3. pool' = [pool EXCEPT !.doing = do, !.idle = I, !.state = st, !.runningCount = rc]
  BY DEF StartTask
<1> HIDE DEF I, do, st, rc
<1>4. pool' \in Pools
  BY <1>1, <1>2, <1>3, Zenon DEF Pools
<1>5. /\ pool'.workers = pool.workers /\ pool'.idle = I /\ pool'.timeout = pool.timeout
      /\ pool'.clear = pool.clear /\ pool'.adding = pool.adding /\ pool'.create = pool.create
      /\ pool'.expanding = pool.expanding
      /\ pool'.thread = pool.thread /\ pool'.doing = do /\ pool'.runningCount = rc
  BY <1>1, <1>3, Zenon DEF Pools
<1> QED BY <1>1, <1>2, <1>4, <1>5, WorkKept DEF IInv

(* A task of w counts as finished.                                         *)
LEMMA TaskFinishedFacts ==
  ASSUME IInv, NEW w \in Workers, pool.runningCount[w] # 0
  PROVE  LET q == TaskFinished(pool, w) IN
         /\ q \in Pools
         /\ q.workers = pool.workers /\ q.idle = pool.idle /\ q.timeout = pool.timeout
         /\ q.clear = pool.clear /\ q.adding = pool.adding /\ q.create = pool.create
         /\ q.expanding = pool.expanding /\ q.thread = pool.thread /\ q.doing = pool.doing
         /\ \A v \in Workers : v # w => q.runningCount[v] = pool.runningCount[v]
<1> DEFINE q == TaskFinished(pool, w)
           rc == [pool.runningCount EXCEPT ![w] = @ - 1]
           R == pool.rested \ {w}
           st == [pool.state EXCEPT ![w] = IF pool.runningCount[w] = 1 /\ @ = "running" THEN "idle" ELSE @]
<1>1. pool \in Pools
  BY DEF IInv, Sound
<1>2. /\ rc \in [Workers -> Nat] /\ \A v \in Workers : v # w => rc[v] = pool.runningCount[v]
      /\ R \subseteq Workers /\ st \in [Workers -> {"idle", "running", "blocked"}]
  BY <1>1 DEF Pools
<1>3. q = [pool EXCEPT !.runningCount = rc, !.rested = R, !.state = st]
  BY DEF TaskFinished
<1> HIDE DEF q, rc, R, st
<1>4. q \in Pools
  BY <1>1, <1>2, <1>3, Zenon DEF Pools
<1>5. /\ q.workers = pool.workers /\ q.idle = pool.idle /\ q.timeout = pool.timeout
      /\ q.clear = pool.clear /\ q.adding = pool.adding /\ q.create = pool.create
      /\ q.expanding = pool.expanding /\ q.thread = pool.thread /\ q.doing = pool.doing
      /\ q.runningCount = rc
  BY <1>1, <1>3, Zenon DEF Pools
<1> QED BY <1>2, <1>4, <1>5 DEF q

(* The end of the RunningScope.                                            *)
LEMMA NotifyIdleFacts ==
  ASSUME IInv, NEW w \in Workers, pool.thread[w] = "looping", NEW p \in Pools,
         p.workers = pool.workers, p.idle = pool.idle, p.timeout = pool.timeout,
         p.clear = pool.clear, p.adding = pool.adding, p.create = pool.create,
         p.expanding = pool.expanding, p.thread = pool.thread, p.doing = pool.doing,
         \A v \in Workers : v # w => p.runningCount[v] = pool.runningCount[v]
  PROVE  Sound(NotifyIdle(p, w))
<1> DEFINE do == [p.doing EXCEPT ![w] = "leaving"]
           I == p.idle \cup {w}
           q == [p EXCEPT !.doing = do]
           r == [p EXCEPT !.doing = do, !.idle = I]
<1>1. /\ do \in [Workers -> {"loop", "dequeued", "performing", "leaving"}]
      /\ do[w] = "leaving" /\ \A v \in Workers : v # w => do[v] = pool.doing[v]
      /\ I \subseteq Workers
  BY DEF Pools
<1>2. NotifyIdle(p, w) = IF p.state[w] = "blocked" THEN q ELSE NotifiedOfTasks(r)
  BY DEF NotifyIdle
<1> HIDE DEF do
<1>3. Sound(q)
  <2>1. q \in Pools
    BY <1>1, Zenon DEF Pools
  <2>2. /\ q.workers = p.workers /\ q.idle = p.idle /\ q.timeout = p.timeout
        /\ q.clear = p.clear /\ q.adding = p.adding /\ q.create = p.create
        /\ q.expanding = p.expanding /\ q.thread = p.thread /\ q.doing = do
        /\ q.runningCount = p.runningCount
    BY <1>1, Zenon DEF Pools
  <2> HIDE DEF q
  <2> QED BY <1>1, <2>1, <2>2, WorkKept DEF IInv
<1>4. Sound(r)
  <2>1. I \subseteq pool.idle \cup {w}
    OBVIOUS
  <2> HIDE DEF I
  <2>2. r \in Pools
    BY <1>1, Zenon DEF Pools
  <2>3. /\ r.workers = p.workers /\ r.idle = I /\ r.timeout = p.timeout
        /\ r.clear = p.clear /\ r.adding = p.adding /\ r.create = p.create
        /\ r.expanding = p.expanding /\ r.thread = p.thread /\ r.doing = do
        /\ r.runningCount = p.runningCount
    BY <1>1, Zenon DEF Pools
  <2> HIDE DEF r
  <2> QED BY <1>1, <2>1, <2>2, <2>3, WorkKept DEF IInv
<1> HIDE DEF q, r
<1> QED BY <1>2, <1>3, <1>4, NotifiedOfTasksFacts

(* EndTask keeps the invariant.                                            *)
LEMMA EndTaskKeepsIInv ==
  ASSUME IInv, NEW w \in Workers, EndTask(w)
  PROVE  IInv'
<1>1. pool \in Pools /\ pool.thread[w] = "looping" /\ pool.runningCount[w] # 0
  BY DEF EndTask, IInv, Sound, LoopsOK
<1>2. CASE pool' = NotifyIdle(TaskFinished(pool, w), w)
  <2> DEFINE q == TaskFinished(pool, w)
  <2>1. /\ q \in Pools
        /\ q.workers = pool.workers /\ q.idle = pool.idle /\ q.timeout = pool.timeout
        /\ q.clear = pool.clear /\ q.adding = pool.adding /\ q.create = pool.create
        /\ q.expanding = pool.expanding /\ q.thread = pool.thread /\ q.doing = pool.doing
        /\ \A v \in Workers : v # w => q.runningCount[v] = pool.runningCount[v]
    BY <1>1, TaskFinishedFacts
  <2>2. pool' = NotifyIdle(q, w)
    BY <1>2
  <2> HIDE DEF q
  <2> QED BY <1>1, <2>1, <2>2, NotifyIdleFacts DEF IInv
<1>3. CASE pool' = NotifyIdle(pool, w)
  BY <1>1, <1>3, NotifyIdleFacts DEF IInv
<1> QED BY <1>2, <1>3 DEF EndTask

(* TaskResultCallback keeps the invariant.                                 *)
LEMMA TaskResultCallbackKeepsIInv ==
  ASSUME IInv, NEW w \in Workers, TaskResultCallback(w)
  PROVE  IInv'
<1> DEFINE q == TaskFinished(pool, w)
<1>1. /\ pool.thread[w] = "looping" /\ pool.doing[w] = "loop" /\ pool.runningCount[w] # 0 /\ pool' = q
  BY DEF TaskResultCallback, InLoop
<1>2. /\ q \in Pools
      /\ q.workers = pool.workers /\ q.idle = pool.idle /\ q.timeout = pool.timeout
      /\ q.clear = pool.clear /\ q.adding = pool.adding /\ q.create = pool.create
      /\ q.expanding = pool.expanding /\ q.thread = pool.thread /\ q.doing = pool.doing
      /\ \A v \in Workers : v # w => q.runningCount[v] = pool.runningCount[v]
  BY <1>1, TaskFinishedFacts
<1> HIDE DEF q
<1> QED BY <1>1, <1>2, WorkKept DEF IInv

(* LeaveTask keeps the invariant.                                          *)
LEMMA LeaveTaskKeepsIInv ==
  ASSUME IInv, NEW w \in Workers, LeaveTask(w)
  PROVE  IInv'
<1> DEFINE do == [pool.doing EXCEPT ![w] = "loop"]
<1>1. pool \in Pools /\ pool' = [pool EXCEPT !.doing = do]
  BY DEF LeaveTask, IInv, Sound
<1>5. pool.thread[w] = "looping"
  BY DEF LeaveTask, IInv, Sound, LoopsOK
<1>2. /\ do \in [Workers -> {"loop", "dequeued", "performing", "leaving"}]
      /\ do[w] = "loop" /\ \A v \in Workers : v # w => do[v] = pool.doing[v]
  BY <1>1 DEF Pools
<1> HIDE DEF do
<1>3. pool' \in Pools
  BY <1>1, <1>2, Zenon DEF Pools
<1>4. /\ pool'.workers = pool.workers /\ pool'.idle = pool.idle /\ pool'.timeout = pool.timeout
      /\ pool'.clear = pool.clear /\ pool'.adding = pool.adding /\ pool'.create = pool.create
      /\ pool'.expanding = pool.expanding
      /\ pool'.thread = pool.thread /\ pool'.doing = do /\ pool'.runningCount = pool.runningCount
  BY <1>1, Zenon DEF Pools
<1> QED BY <1>2, <1>3, <1>4, <1>5, WorkKept DEF IInv

(* ReleaseWorkerHandles keeps the invariant.                               *)
LEMMA ReleaseWorkerHandlesKeepsIInv ==
  ASSUME PoolAssumption, IInv, NEW w \in Workers, ReleaseWorkerHandles(w)
  PROVE  IInv'
<1> DEFINE th == [pool.thread EXCEPT ![w] = "stopping"]
           C == pool.clear \ {w}
           I == pool.idle \ {w}
           T == pool.timeout \ {w}
           W == pool.workers \ {w}
<1>1. pool \in Pools /\ pool' = [pool EXCEPT !.thread = th, !.clear = C, !.idle = I, !.timeout = T, !.workers = W]
  BY DEF ReleaseWorkerHandles, IInv, Sound
<1>2. /\ th \in [Workers -> {"none", "starting", "looping", "stopping", "failed", "deleted"}]
      /\ C \subseteq Workers /\ I \subseteq Workers /\ T \subseteq Workers /\ W \subseteq Workers
  BY <1>1 DEF Pools
<1>3. th[w] = "stopping" /\ \A v \in Workers : v # w => th[v] = pool.thread[v]
  BY <1>1 DEF Pools
<1>4. /\ pool.thread[w] = "looping" /\ pool.doing[w] = "loop" /\ pool.runningCount[w] = 0 /\ w \in pool.clear
  BY DEF ReleaseWorkerHandles, InLoop, MayBeFreed
<1> HIDE DEF th, C, I, T, W
<1>5. pool' \in Pools
  BY <1>1, <1>2, Zenon DEF Pools
<1>6. /\ pool'.workers = W /\ pool'.idle = I /\ pool'.timeout = T /\ pool'.clear = C
      /\ pool'.adding = pool.adding /\ pool'.create = pool.create /\ pool'.expanding = pool.expanding
      /\ pool'.thread = th /\ pool'.doing = pool.doing /\ pool'.runningCount = pool.runningCount
  BY <1>1, Zenon DEF Pools
<1>7. Fits(pool')
  BY <1>5, <1>6, StillFits DEF IInv, W
<1>8. CountsStarting(pool')
  <2>1. Starting(pool') = Starting(pool) /\ Failed(pool') = Failed(pool)
    BY <1>3, <1>4, <1>6 DEF Starting, Failed
  <2> QED BY <1>6, <2>1, SameStarting DEF IInv
<1>9. w \notin pool.adding
  BY <1>4 DEF IInv, Sound, AddsOne
<1>10. AddsOne(pool')
  BY <1>6 DEF IInv, Sound, AddsOne, W, C
<1>11. LoopsOK(pool')
  BY <1>3, <1>4, <1>6, <1>9 DEF IInv, Sound, LoopsOK, C, I, T, W
<1> QED BY <1>5, <1>7, <1>8, <1>10, <1>11 DEF IInv, Sound

(* RestoreWorker keeps the invariant.                                      *)
LEMMA RestoreWorkerKeepsIInv ==
  ASSUME IInv, NEW w \in Workers, RestoreWorker(w)
  PROVE  IInv'
<1> DEFINE C == pool.clear \ {w}
           p == [pool EXCEPT !.clear = C, !.suspended = FALSE]
           T == p.timeout \cup {w}
           I == p.idle \cup {w}
           q == [p EXCEPT !.timeout = T]
           r == [p EXCEPT !.idle = I]
<1>1. pool \in Pools /\ C \subseteq Workers
  BY DEF IInv, Sound, Pools
<1>2. pool.thread[w] = "looping" /\ w \in pool.clear
  BY DEF RestoreWorker, InLoop
<1>3. pool' = IF p.state[w] = "blocked" THEN q ELSE NotifiedOfTasks(r)
  BY Zenon DEF RestoreWorker
<1> HIDE DEF q, r, I, T
<1>4. p \in Pools
  <2> HIDE DEF C
  <2> QED BY <1>1, Zenon DEF Pools
<1>5. /\ p.workers = pool.workers /\ p.idle = pool.idle /\ p.timeout = pool.timeout /\ p.clear = C
      /\ p.adding = pool.adding /\ p.create = pool.create /\ p.expanding = pool.expanding
      /\ p.thread = pool.thread /\ p.doing = pool.doing /\ p.runningCount = pool.runningCount
  <2> HIDE DEF C
  <2> QED BY <1>1, Zenon DEF Pools
<1>6. I \subseteq Workers /\ T \subseteq Workers
  BY <1>1, <1>5 DEF I, T, Pools
<1> HIDE DEF p
<1>7. Sound(q)
  <2>1. q \in Pools
    BY <1>4, <1>6, Zenon DEF q, Pools
  <2>2. /\ q.workers = p.workers /\ q.idle = p.idle /\ q.timeout = T /\ q.clear = p.clear
        /\ q.adding = p.adding /\ q.create = p.create /\ q.expanding = p.expanding
        /\ q.thread = p.thread /\ q.doing = p.doing /\ q.runningCount = p.runningCount
    BY <1>4, <1>6, Zenon DEF q, Pools
  <2>3. \A v \in q.idle \cup q.timeout \cup q.clear : pool.thread[v] = "looping"
    BY <1>1, <1>2, <1>5, <2>2 DEF IInv, Sound, LoopsOK, Pools, T, C
  <2>4. q.adding \cap q.clear = {}
    BY <1>5, <2>2 DEF IInv, Sound, AddsOne, C
  <2> QED BY <1>5, <2>1, <2>2, <2>3, <2>4, SetsKept DEF IInv
<1>8. Sound(r)
  <2>1. r \in Pools
    BY <1>4, <1>6, Zenon DEF r, Pools
  <2>2. /\ r.workers = p.workers /\ r.idle = I /\ r.timeout = p.timeout /\ r.clear = p.clear
        /\ r.adding = p.adding /\ r.create = p.create /\ r.expanding = p.expanding
        /\ r.thread = p.thread /\ r.doing = p.doing /\ r.runningCount = p.runningCount
    BY <1>4, <1>6, Zenon DEF r, Pools
  <2>3. \A v \in r.idle \cup r.timeout \cup r.clear : pool.thread[v] = "looping"
    BY <1>1, <1>2, <1>5, <2>2 DEF IInv, Sound, LoopsOK, Pools, I, C
  <2>4. r.adding \cap r.clear = {}
    BY <1>5, <2>2 DEF IInv, Sound, AddsOne, C
  <2> QED BY <1>5, <2>1, <2>2, <2>3, <2>4, SetsKept DEF IInv
<1> QED BY <1>3, <1>7, <1>8, NotifiedOfTasksFacts DEF IInv

(* ThreadExits keeps the invariant.                                        *)
LEMMA ThreadExitsKeepsIInv ==
  ASSUME PoolAssumption, IInv, NEW w \in Workers, ThreadExits(w)
  PROVE  IInv'
<1> DEFINE th == [pool.thread EXCEPT ![w] = "none"]
           st == [pool.state EXCEPT ![w] = "idle"]
           S == pool.signals \ {w}
           C == pool.clear \ {w}
           R == pool.rested \ {w}
<1>1. pool \in Pools /\ pool' = [pool EXCEPT !.thread = th, !.state = st, !.signals = S, !.clear = C, !.rested = R]
  BY DEF ThreadExits, IInv, Sound
<1>2. /\ th \in [Workers -> {"none", "starting", "looping", "stopping", "failed", "deleted"}]
      /\ st \in [Workers -> {"idle", "running", "blocked"}]
      /\ S \subseteq Workers /\ C \subseteq Workers /\ R \subseteq Workers
  BY <1>1 DEF Pools
<1>3. th[w] = "none" /\ \A v \in Workers : v # w => th[v] = pool.thread[v]
  BY <1>1 DEF Pools
<1>4. pool.thread[w] = "stopping"
  BY DEF ThreadExits
<1> HIDE DEF th, st, S, C, R
<1>5. pool' \in Pools
  BY <1>1, <1>2, Zenon DEF Pools
<1>6. /\ pool'.workers = pool.workers /\ pool'.idle = pool.idle /\ pool'.timeout = pool.timeout /\ pool'.clear = C
      /\ pool'.adding = pool.adding /\ pool'.create = pool.create /\ pool'.expanding = pool.expanding
      /\ pool'.thread = th /\ pool'.doing = pool.doing /\ pool'.runningCount = pool.runningCount
  BY <1>1, Zenon DEF Pools
<1>7. Fits(pool')
  BY <1>5, <1>6, StillFits DEF IInv
<1>8. CountsStarting(pool')
  <2>1. Starting(pool') = Starting(pool) /\ Failed(pool') = Failed(pool)
    BY <1>3, <1>4, <1>6 DEF Starting, Failed
  <2> QED BY <1>6, <2>1, SameStarting DEF IInv
<1>9. AddsOne(pool')
  BY <1>6 DEF IInv, Sound, AddsOne, C
<1>10. LoopsOK(pool')
  BY <1>3, <1>4, <1>6 DEF IInv, Sound, LoopsOK, C
<1> QED BY <1>5, <1>7, <1>8, <1>9, <1>10 DEF IInv, Sound

----------------------------------------------------------------------------
(* The theorems. *)

(* The invariant holds at the start.                                       *)
LEMMA InitEstablishesIInv ==
  ASSUME PoolAssumption
  PROVE  Init => IInv
<1> SUFFICES ASSUME Init PROVE IInv
  OBVIOUS
<1>1. PICK created \in SUBSET Workers :
        /\ Cardinality(created) <= 1
        /\ pool = [workers |-> created, idle |-> {}, timeout |-> {}, signals |-> {}, clear |-> {},
                   adding |-> {}, rested |-> {}, expanding |-> Cardinality(created), create |-> 0,
                   tasks |-> 0, executed |-> 0,
                   suspended |-> FALSE, expandTimer |-> FALSE, dispatch |-> FALSE, needChecking |-> FALSE,
                   manager |-> "starting", posting |-> "no",
                   thread |-> [w \in Workers |-> IF w \in created THEN "starting" ELSE "none"],
                   state |-> [w \in Workers |-> "idle"], doing |-> [w \in Workers |-> "loop"],
                   runningCount |-> [w \in Workers |-> 0]]
  BY Zenon DEF Init
<1>2. IsFiniteSet(created) /\ Cardinality(created) \in Nat
  BY FS_Subset, FS_CardinalityType DEF PoolAssumption
<1> DEFINE th == [w \in Workers |-> IF w \in created THEN "starting" ELSE "none"]
           st == [w \in Workers |-> "idle"]
           do == [w \in Workers |-> "loop"]
           rc == [w \in Workers |-> 0]
<1>3. /\ pool.workers = created /\ pool.idle = {} /\ pool.timeout = {} /\ pool.clear = {}
      /\ pool.adding = {} /\ pool.expanding = Cardinality(created) /\ pool.create = 0
      /\ pool.thread = th /\ pool.doing = do /\ pool.runningCount = rc
  BY <1>1, Zenon
<1>4. /\ th \in [Workers -> {"none", "starting", "looping", "stopping", "failed", "deleted"}]
      /\ st \in [Workers -> {"idle", "running", "blocked"}]
      /\ do \in [Workers -> {"loop", "dequeued", "performing", "leaving"}]
      /\ rc \in [Workers -> Nat] /\ 0 \in Nat /\ 0 \in 0..MaxTasks
  BY DEF PoolAssumption
<1>5. /\ \A w \in Workers : th[w] = IF w \in created THEN "starting" ELSE "none"
      /\ \A w \in Workers : do[w] = "loop" /\ rc[w] = 0
  OBVIOUS
<1> HIDE DEF th, st, do, rc
<1>6. pool \in Pools
  BY <1>1, <1>2, <1>4, Zenon DEF Pools, th, st, do, rc
<1>7. Fits(pool)
  <2>1. pool.workers \cup pool.adding = created
    BY <1>3
  <2> QED BY <1>1, <1>2, <1>3, <2>1 DEF Fits, PoolAssumption
<1>8. CountsStarting(pool)
  <2>1. Starting(pool) = created
    BY <1>3, <1>5 DEF Starting
  <2> QED BY <1>2, <1>3, <2>1 DEF CountsStarting
<1>9. AddsOne(pool) /\ LoopsOK(pool)
  BY <1>3, <1>5 DEF AddsOne, LoopsOK
<1> QED BY <1>6, <1>7, <1>8, <1>9 DEF IInv, Sound

(* Every step keeps the invariant.                                         *)
LEMMA NextKeepsIInv ==
  ASSUME PoolAssumption
  PROVE  IInv /\ [Next]_pool => IInv'
<1> SUFFICES ASSUME IInv, [Next]_pool PROVE IInv'
  OBVIOUS
<1>1. CASE EnqueueTask \/ NotifyEarly \/ NeedChecking
  BY <1>1, EnqueueTaskKeepsIInv, NotifyEarlyKeepsIInv, NeedCheckingKeepsIInv
<1>2. CASE HandleInited \/ StartLoop \/ Dispatch \/ ExpandTimer
  BY <1>2, HandleInitedKeepsIInv, StartLoopKeepsIInv, DispatchKeepsIInv, ExpandTimerKeepsIInv
<1>3. ASSUME NEW w \in Workers, WorkerConstructor(w) \/ NotifyWorkerAdded(w)
      PROVE  IInv'
  BY <1>3, WorkerConstructorKeepsIInv, NotifyWorkerAddedKeepsIInv
<1>4. CASE NotifyShrink \/ NotifyShrinkByInBackground
  BY <1>4, NotifyShrinkKeepsIInv, NotifyShrinkByInBackgroundKeepsIInv
<1>5. ASSUME NEW w \in Workers, BlockWorker(w) \/ CreateRuntimeFails(w) \/ PrepareFails(w)
      PROVE  IInv'
  BY <1>5, BlockWorkerKeepsIInv, CreateRuntimeFailsKeepsIInv, PrepareFailsKeepsIInv
<1>6. ASSUME NEW w \in Workers, WorkerStep(w)
      PROVE  IInv'
  BY <1>6, WorkerCreatedKeepsIInv, DequeueTaskKeepsIInv, StartTaskKeepsIInv, EndTaskKeepsIInv, LeaveTaskKeepsIInv,
     ReleaseWorkerHandlesKeepsIInv, RestoreWorkerKeepsIInv, ThreadExitsKeepsIInv DEF WorkerStep
<1>7. ASSUME NEW w \in Workers, Rest(w) \/ TaskResultCallback(w)
      PROVE  IInv'
  BY <1>7, RestKeepsIInv, TaskResultCallbackKeepsIInv
<1>8. CASE pool' = pool
  BY <1>8 DEF IInv
<1> QED BY <1>1, <1>2, <1>3, <1>4, <1>5, <1>6, <1>7, <1>8 DEF Next, MonitorStep, Balance

(* The sets of workers, the life of their threads and the counts agree,    *)
(* however many workers there are and whatever the bounds.                 *)
THEOREM InductiveInvariant ==
  ASSUME PoolAssumption
  PROVE  Spec => []IInv
<1>1. Init => IInv
  BY InitEstablishesIInv
<1>2. IInv /\ [Next]_pool => IInv'
  BY NextKeepsIInv
<1> QED BY <1>1, <1>2, PTL DEF Spec

(* IInv implies the types. *)
LEMMA IInvImpliesTypeOK ==
  ASSUME IInv PROVE TypeOK
<1>1. pool \in Pools
  BY DEF IInv, Sound
<1>2. \A f \in {"workers", "idle", "timeout", "signals", "clear", "adding", "rested"} : pool[f] \subseteq Workers
  BY <1>1 DEF Pools
<1>3. \A f \in {"suspended", "expandTimer", "dispatch", "needChecking"} : pool[f] \in BOOLEAN
  BY <1>1, Zenon DEF Pools
<1>4. pool.expanding \in Nat /\ pool.create \in Nat /\ pool.tasks \in Nat /\ pool.executed \in 0..MaxTasks
  BY <1>1 DEF Pools
<1>5. /\ pool.manager \in {"starting", "inited", "running"}
      /\ pool.posting \in {"no", "notify", "flag"}
      /\ pool.thread \in [Workers -> {"none", "starting", "looping", "stopping", "failed", "deleted"}]
      /\ pool.state \in [Workers -> {"idle", "running", "blocked"}]
      /\ pool.doing \in [Workers -> {"loop", "dequeued", "performing", "leaving"}]
      /\ pool.runningCount \in [Workers -> Nat]
  BY <1>1 DEF Pools
<1> QED BY <1>2, <1>3, <1>4, <1>5 DEF TypeOK

(* pool keeps to its type: no count runs below zero, although expansion,   *)
(* creation and the settling of promises decrement them apart from where   *)
(* they are incremented.                                                   *)
THEOREM TypeCorrectness ==
  ASSUME PoolAssumption
  PROVE  Spec => []TypeOK
<1>1. IInv => TypeOK
  BY IInvImpliesTypeOK
<1> QED BY <1>1, InductiveInvariant, PTL

(* What IInv says of the size of the pool, of workers that are released    *)
(* and of expandingCount_.                                                 *)
LEMMA IInvImpliesSafety ==
  ASSUME PoolAssumption, IInv
  PROVE  BoundedPool /\ ReleasedWorkersAreFree /\ ExpandingIsExact
<1>1. BoundedPool
  <2>1. Cardinality(pool.workers \cup pool.adding) \in Nat /\ pool.create \in Nat
    BY SizeFacts DEF IInv, Sound, Pools
  <2>2. MaxThreads + ExtraThreads \in Nat
    BY DEF PoolAssumption
  <2> QED BY <2>1, <2>2 DEF IInv, Sound, Fits, BoundedPool
<1>2. ReleasedWorkersAreFree
  BY DEF IInv, Sound, LoopsOK, ReleasedWorkersAreFree
<1>3. ExpandingIsExact
  BY DEF IInv, Sound, CountsStarting, Starting, Failed, Failures, ExpandingIsExact
<1> QED BY <1>1, <1>2, <1>3

(* There are never more workers than the maximum and the replacements of   *)
(* blocked ones, although expansion decides, creates and announces in      *)
(* three steps and workers go away in between.                             *)
THEOREM PoolStaysBounded ==
  ASSUME PoolAssumption
  PROVE  Spec => []BoundedPool
<1>1. IInv => BoundedPool
  BY IInvImpliesSafety
<1> QED BY <1>1, InductiveInvariant, PTL

(* A worker whose thread ends has nothing to do and nobody can find it.    *)
THEOREM ReleaseIsSafe ==
  ASSUME PoolAssumption
  PROVE  Spec => []ReleasedWorkersAreFree
<1>1. IInv => ReleasedWorkersAreFree
  BY IInvImpliesSafety
<1> QED BY <1>1, InductiveInvariant, PTL

(* expandingCount_ is the number of workers under construction, unless one *)
(* has failed.                                                             *)
THEOREM ExpandingCountIsExact ==
  ASSUME PoolAssumption
  PROVE  Spec => []ExpandingIsExact
<1>1. IInv => ExpandingIsExact
  BY IInvImpliesSafety
<1> QED BY <1>1, InductiveInvariant, PTL
=============================================================================
