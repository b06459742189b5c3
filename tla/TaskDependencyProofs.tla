----------------------- MODULE TaskDependencyProofs -----------------------
(***************************************************************************)
(* Theorems about TaskDependency, for every number of tasks and workers.   *)
(***************************************************************************)
EXTENDS TaskDependency, SequenceTheorems, FiniteSetTheorems, TLAPS

(* A task that is queued, pending or with a worker has been executed, and  *)
(* a thread that is busy is busy with a task.                              *)
ExecutedOK ==
  /\ \A i \in DOMAIN taskQueue : taskState[taskQueue[i]] # "notFound"
  /\ \A t \in pendingTaskInfos : taskState[t] # "notFound"
  /\ \A w \in Workers : worker[w].pc # "idle" => taskState[worker[w].task] # "notFound"

BusyOK ==
  /\ \A w \in Workers : worker[w].pc # "idle" => worker[w].task \in Tasks
  /\ host.op # "idle" => host.task \in Tasks

IInv ==
  /\ TypeOK
  /\ BusyOK
  /\ ExecutedOK
  /\ FlagCoversEdges
  /\ PerformedAfterPrerequisites

----------------------------------------------------------------------------
(* The sequence without its k-th element, element by element.              *)
LEMMA ErasingExact ==
  ASSUME NEW S, NEW s \in Seq(S), NEW k \in DOMAIN s
  PROVE  LET e == SubSeq(s, 1, k - 1) \o SubSeq(s, k + 1, Len(s))
         IN  /\ e \in Seq(S) /\ DOMAIN e = 1 .. Len(s) - 1
             /\ \A i \in 1 .. Len(s) - 1 : e[i] = IF i < k THEN s[i] ELSE s[i + 1]
<1> DEFINE a == SubSeq(s, 1, k - 1)
           b == SubSeq(s, k + 1, Len(s))
<1>1. Len(s) \in Nat /\ DOMAIN s = 1 .. Len(s) /\ k \in 1 .. Len(s)
  BY LenProperties
<1>2. \A j \in 1 .. Len(s) : s[j] \in S
  BY ElementOfSeq
<1>3. /\ a \in Seq(S) /\ Len(a) = k - 1
      /\ \A j \in 1 .. k - 1 : a[j] = s[j]
  BY <1>1, <1>2, SubSeqProperties
<1>4. /\ b \in Seq(S) /\ Len(b) = Len(s) - k
      /\ \A j \in 1 .. Len(s) - k : b[j] = s[j + k]
  <2>1. \A j \in k + 1 .. Len(s) : s[j] \in S
    BY <1>1, <1>2
  <2>2. /\ Len(s) - (k + 1) + 1 = Len(s) - k
        /\ IF k + 1 <= Len(s) THEN Len(s) - k = Len(s) - (k + 1) + 1 ELSE Len(s) - k = 0
    BY <1>1
  <2>3. \A j \in 1 .. Len(s) - k : k + 1 + j - 1 = j + k
    BY <1>1
  <2>4. k + 1 \in Int /\ Len(s) \in Int
    BY <1>1
  <2>5. /\ b \in Seq(S)
        /\ Len(b) = IF k + 1 <= Len(s) THEN Len(s) - (k + 1) + 1 ELSE 0
        /\ \A j \in 1 .. Len(s) - (k + 1) + 1 : b[j] = s[k + 1 + j - 1]
    BY <2>1, <2>4, SubSeqProperties
  <2> HIDE DEF b
  <2> QED BY <2>2, <2>3, <2>5
<1> HIDE DEF a, b
<1>5. /\ a \o b \in Seq(S) /\ Len(a \o b) = Len(a) + Len(b)
      /\ \A j \in 1 .. Len(a) + Len(b) :
           (a \o b)[j] = IF j <= Len(a) THEN a[j] ELSE b[j - Len(a)]
  BY <1>3, <1>4, ConcatProperties
<1>6. Len(a) + Len(b) = Len(s) - 1
  BY <1>1, <1>3, <1>4
<1>7. DOMAIN (a \o b) = 1 .. Len(s) - 1
  BY <1>5, <1>6, LenProperties
<1>8. ASSUME NEW i \in 1 .. Len(s) - 1
      PROVE  (a \o b)[i] = IF i < k THEN s[i] ELSE s[i + 1]
  <2>1. CASE i < k
    BY <2>1, <1>1, <1>3, <1>5, <1>6
  <2>2. CASE ~(i < k)
    <3>1. i - (k - 1) \in 1 .. Len(s) - k /\ i - (k - 1) + k = i + 1 /\ ~(i <= k - 1)
      BY <2>2, <1>1
    <3> QED BY <2>2, <3>1, <1>3, <1>4, <1>5, <1>6
  <2> QED BY <2>1, <2>2
<1> QED BY <1>5, <1>7, <1>8 DEF a, b

(* A sequence without its k-th element: nothing new comes in.              *)
LEMMA Erasing ==
  ASSUME NEW S, NEW s \in Seq(S), NEW k \in DOMAIN s
  PROVE  LET e == SubSeq(s, 1, k - 1) \o SubSeq(s, k + 1, Len(s))
         IN  e \in Seq(S) /\ \A i \in DOMAIN e : \E j \in DOMAIN s : e[i] = s[j]
<1> DEFINE e == SubSeq(s, 1, k - 1) \o SubSeq(s, k + 1, Len(s))
<1>1. Len(s) \in Nat /\ DOMAIN s = 1 .. Len(s) /\ k \in 1 .. Len(s)
  BY LenProperties
<1>2. /\ e \in Seq(S) /\ DOMAIN e = 1 .. Len(s) - 1
      /\ \A i \in 1 .. Len(s) - 1 : e[i] = IF i < k THEN s[i] ELSE s[i + 1]
  BY ErasingExact
<1> HIDE DEF e
<1>3. ASSUME NEW i \in DOMAIN e PROVE \E j \in DOMAIN s : e[i] = s[j]
  <2>1. i \in DOMAIN s /\ i + 1 \in DOMAIN s
    BY <1>1, <1>2
  <2>2. e[i] = s[i] \/ e[i] = s[i + 1]
    BY <1>2
  <2> QED BY <2>1, <2>2
<1> QED BY <1>2, <1>3 DEF e

(* What is left of the queue when a task has been erased. *)
LEMMA ErasingFromQueue ==
  ASSUME taskQueue \in Seq(Tasks), NEW t, Queued(t)
  PROVE  /\ WithoutQueued(t) \in Seq(Tasks)
         /\ \A i \in DOMAIN WithoutQueued(t) :
              \E j \in DOMAIN taskQueue : WithoutQueued(t)[i] = taskQueue[j]
<1>1. Position(t) \in DOMAIN taskQueue
  BY DEF Queued, Position
<1> QED BY <1>1, Erasing DEF WithoutQueued

(* addDependency that is accepted: the edges and the flags are set together. *)
LEMMA AddDependencyKeepsIInv ==
  ASSUME NEW t \in Tasks, NEW S \in SUBSET Tasks, IInv, AddDependency(t, S)
  PROVE  IInv'
<1> USE DEF AddDependency, HostIsIdle
<1>a. /\ DOMAIN dependTaskInfos' \subseteq DOMAIN dependTaskInfos \cup {t}
      /\ \A x \in DOMAIN dependTaskInfos' \ {t} :
           x \in DOMAIN dependTaskInfos /\ dependTaskInfos'[x] = dependTaskInfos[x]
      /\ t \in DOMAIN dependTaskInfos' => dependTaskInfos'[t] \subseteq Tasks
  <2>1. DependsOn(t) \subseteq Tasks
    BY DEF IInv, TypeOK, DependsOn
  <2>2. \/ dependTaskInfos' = dependTaskInfos
        \/ \E R \in SUBSET Tasks : dependTaskInfos' = Depend(t, R)
    BY <2>1 DEF StoreTaskDependency
  <2>3. CASE dependTaskInfos' = dependTaskInfos
    BY <2>3 DEF IInv, TypeOK
  <2>4. CASE \E R \in SUBSET Tasks : dependTaskInfos' = Depend(t, R)
    BY <2>4 DEF Depend
  <2> QED BY <2>2, <2>3, <2>4
<1>b. /\ dependentTaskInfos' \in [Tasks -> SUBSET Tasks]
      /\ \A p \in Tasks \ S : dependentTaskInfos'[p] = dependentTaskInfos[p]
  BY DEF IInv, TypeOK, StoreTaskDependency
<1>c. hasDependency' = [x \in Tasks |-> hasDependency[x] \/ x \in S \cup {t}]
  OBVIOUS
<1>1. TypeOK'
  <2>1. hasDependency' \in [Tasks -> BOOLEAN]
    BY <1>c DEF IInv, TypeOK
  <2>2. \A x \in DOMAIN dependTaskInfos' : dependTaskInfos'[x] \subseteq Tasks
    BY <1>a DEF IInv, TypeOK
  <2>3. DOMAIN dependTaskInfos' \subseteq Tasks
    BY <1>a DEF IInv, TypeOK
  <2> QED BY <1>b, <2>1, <2>2, <2>3 DEF IInv, TypeOK
<1>2. BusyOK'
  BY DEF IInv, BusyOK, TypeOK, graph
<1>3. ExecutedOK'
  BY DEF IInv, BusyOK, ExecutedOK, TypeOK, graph
<1>4. FlagCoversEdges'
  BY <1>a, <1>b, <1>c DEF IInv, FlagCoversEdges, IsDependend, DependsOn
<1>5. PerformedAfterPrerequisites'
  <2>1. ASSUME NEW w \in Workers, worker[w].pc \in {"ready", "running"}
        PROVE  worker[w].task # t
    BY <2>1 DEF IInv, ExecutedOK
  <2> QED BY <2>1, <1>a DEF IInv, PerformedAfterPrerequisites, IsDependend, DependsOn
<1> QED BY <1>1, <1>2, <1>3, <1>4, <1>5 DEF IInv

(* addDependency that finds a circle: the waiters were stored before it. *)
LEMMA AddDependencyFailsKeepsIInv ==
  ASSUME NEW t \in Tasks, NEW S \in SUBSET Tasks, IInv, AddDependencyFails(t, S)
  PROVE  IInv'
<1> USE DEF AddDependencyFails, HostIsIdle
<1>1. TypeOK'
  BY DEF IInv, BusyOK, TypeOK, graph
<1>2. BusyOK'
  BY DEF IInv, BusyOK, TypeOK, graph
<1>3. ExecutedOK'
  BY DEF IInv, BusyOK, ExecutedOK, TypeOK, graph
<1>4. FlagCoversEdges'
  BY DEF IInv, BusyOK, FlagCoversEdges, IsDependend, DependsOn, TypeOK, graph
<1>5. PerformedAfterPrerequisites'
  BY DEF IInv, BusyOK, ExecutedOK, PerformedAfterPrerequisites, IsDependend, DependsOn, TypeOK, graph
<1> QED BY <1>1, <1>2, <1>3, <1>4, <1>5 DEF IInv

(* removeDependency: the edge goes, and the flags that are needed stay. *)
LEMMA RemoveDependencyKeepsIInv ==
  ASSUME NEW t \in Tasks, NEW p \in Tasks, IInv, RemoveDependency(t, p)
  PROVE  IInv'
<1> USE DEF RemoveDependency, HostIsIdle
<1> DEFINE dependent == [dependentTaskInfos EXCEPT ![p] = @ \ {t}]
<1>a. /\ DOMAIN dependTaskInfos' = DOMAIN dependTaskInfos
      /\ \A x \in DOMAIN dependTaskInfos' :
           /\ dependTaskInfos'[x] \subseteq dependTaskInfos[x]
  BY DEF WithoutEdge
<1>b. /\ dependentTaskInfos' \in [Tasks -> SUBSET Tasks]
      /\ \A x \in Tasks : dependentTaskInfos'[x] \subseteq dependentTaskInfos[x]
  BY DEF IInv, TypeOK
<1>1. TypeOK'
  <2>1. \A x, f, g : StillHasDependency(x, f, g) \in BOOLEAN
    BY DEF StillHasDependency
  <2>2. \/ hasDependency' = hasDependency
        \/ hasDependency' = [x \in Tasks |->
             IF x \in {t, p}
             THEN StillHasDependency(x, WithoutEdge(t, p), dependent)
             ELSE hasDependency[x]]
    OBVIOUS
  <2>3. hasDependency' \in [Tasks -> BOOLEAN]
    BY <2>1, <2>2 DEF IInv, TypeOK
  <2> QED BY <1>a, <1>b, <2>3 DEF IInv, TypeOK
<1>2. BusyOK'
  BY DEF IInv, BusyOK, TypeOK, graph
<1>3. ExecutedOK'
  BY DEF IInv, BusyOK, ExecutedOK, TypeOK, graph
<1>4. FlagCoversEdges'
  <2>1. CASE p \in DependsOn(t)
    <3>1. /\ dependTaskInfos' = WithoutEdge(t, p)
          /\ dependentTaskInfos' = dependent
          /\ hasDependency' = [x \in Tasks |->
               IF x \in {t, p}
               THEN StillHasDependency(x, dependTaskInfos', dependentTaskInfos')
               ELSE hasDependency[x]]
      BY <2>1
    <3>2. ASSUME NEW x \in Tasks,
                 \/ x \in DOMAIN dependTaskInfos' /\ dependTaskInfos'[x] # {}
                 \/ dependentTaskInfos'[x] # {}
          PROVE  hasDependency'[x]
      <4>1. hasDependency[x]
        BY <3>2, <1>a, <1>b DEF IInv, FlagCoversEdges, IsDependend, DependsOn
      <4> QED BY <3>1, <3>2, <4>1 DEF StillHasDependency
    <3> QED BY <3>2 DEF FlagCoversEdges, IsDependend, DependsOn
  <2>2. CASE p \notin DependsOn(t)
    BY <2>2, <1>a, <1>b DEF IInv, FlagCoversEdges, IsDependend, DependsOn
  <2> QED BY <2>1, <2>2
<1>5. PerformedAfterPrerequisites'
  BY <1>a DEF IInv, PerformedAfterPrerequisites, IsDependend, DependsOn
<1> QED BY <1>1, <1>2, <1>3, <1>4, <1>5 DEF IInv

(* taskpool.execute: a new task is queued for the workers. *)
LEMMA ExecuteKeepsIInv ==
  ASSUME NEW t \in Tasks, IInv, Execute(t)
  PROVE  IInv'
<1> USE DEF Execute, HostIsIdle
<1>1. TypeOK'
  BY DEF IInv, BusyOK, TypeOK, graph
<1>2. BusyOK'
  BY DEF IInv, BusyOK, TypeOK, graph
<1>3. ExecutedOK'
  BY DEF IInv, BusyOK, ExecutedOK, TypeOK, graph
<1>4. FlagCoversEdges'
  BY DEF IInv, BusyOK, FlagCoversEdges, IsDependend, DependsOn, TypeOK, graph
<1>5. PerformedAfterPrerequisites'
  BY DEF IInv, BusyOK, ExecutedOK, PerformedAfterPrerequisites, IsDependend, DependsOn, TypeOK, graph
<1> QED BY <1>1, <1>2, <1>3, <1>4, <1>5 DEF IInv

(* The release of a Task object erases edges and nothing else of it. *)
LEMMA ReleaseTaskDataKeepsIInv ==
  ASSUME NEW t \in Tasks, IInv, ReleaseTaskData(t)
  PROVE  IInv'
<1> USE DEF ReleaseTaskData, HostIsIdle
<1>1. TypeOK'
  BY DEF IInv, BusyOK, TypeOK, graph
<1>2. BusyOK'
  BY DEF IInv, BusyOK, TypeOK, graph
<1>3. ExecutedOK'
  BY DEF IInv, BusyOK, ExecutedOK, TypeOK, graph
<1>4. FlagCoversEdges'
  BY DEF IInv, BusyOK, FlagCoversEdges, IsDependend, DependsOn, TypeOK, graph
<1>5. PerformedAfterPrerequisites'
  BY DEF IInv, BusyOK, ExecutedOK, PerformedAfterPrerequisites, IsDependend, DependsOn, TypeOK, graph
<1> QED BY <1>1, <1>2, <1>3, <1>4, <1>5 DEF IInv

(* The host thread takes up a result. *)
LEMMA HandleTaskResultKeepsIInv ==
  ASSUME NEW t \in Tasks, IInv, HandleTaskResult(t)
  PROVE  IInv'
<1> USE DEF HandleTaskResult, Notifying, HostIdle, HostIsIdle
<1>1. TypeOK'
  BY DEF IInv, BusyOK, TypeOK, graph
<1>2. BusyOK'
  BY DEF IInv, BusyOK, TypeOK, graph
<1>3. ExecutedOK'
  BY DEF IInv, BusyOK, ExecutedOK, TypeOK, graph
<1>4. FlagCoversEdges'
  BY DEF IInv, BusyOK, FlagCoversEdges, IsDependend, DependsOn, TypeOK, graph
<1>5. PerformedAfterPrerequisites'
  BY DEF IInv, BusyOK, ExecutedOK, PerformedAfterPrerequisites, IsDependend, DependsOn, TypeOK, graph
<1> QED BY <1>1, <1>2, <1>3, <1>4, <1>5 DEF IInv

(* The first critical section of cancel. *)
LEMMA CancelTaskKeepsIInv ==
  ASSUME NEW t \in Tasks, IInv, CancelTask(t)
  PROVE  IInv'
<1> USE DEF CancelTask, HostIsIdle
<1>1. TypeOK'
  BY DEF IInv, BusyOK, TypeOK, graph
<1>2. BusyOK'
  BY DEF IInv, BusyOK, TypeOK, graph
<1>3. ExecutedOK'
  BY DEF IInv, BusyOK, ExecutedOK, TypeOK, graph
<1>4. FlagCoversEdges'
  BY DEF IInv, BusyOK, FlagCoversEdges, IsDependend, DependsOn, TypeOK, graph
<1>5. PerformedAfterPrerequisites'
  BY DEF IInv, BusyOK, ExecutedOK, PerformedAfterPrerequisites, IsDependend, DependsOn, TypeOK, graph
<1> QED BY <1>1, <1>2, <1>3, <1>4, <1>5 DEF IInv

(* The second one, which may take the task out of the queue. *)
LEMMA CancelInnerKeepsIInv ==
  ASSUME NEW t \in Tasks, IInv, CancelInner(t)
  PROVE  IInv'
<1> USE DEF CancelInner, HostIsIdle
<1>a. PICK f \in BOOLEAN, e \in SUBSET (Tasks \X Tasks) :
        \/ host' = [op |-> "drop", task |-> t, found |-> f, edges |-> e, next |-> None]
        \/ host' = [op |-> "cancel", task |-> t, found |-> f, edges |-> e, next |-> None]
  <2>1. CASE host' = [op |-> "drop", task |-> t, found |-> t \in pendingTaskInfos,
                      edges |-> WaitersOf(t, dependentTaskInfos), next |-> None]
    <3>1. WaitersOf(t, dependentTaskInfos) \in SUBSET (Tasks \X Tasks)
      BY DEF IInv, TypeOK, WaitersOf
    <3>2. (t \in pendingTaskInfos) \in BOOLEAN
      OBVIOUS
    <3> QED BY <2>1, <3>1, <3>2, Zenon
  <2>2. CASE host' = [HostIdle EXCEPT !.op = "cancel", !.task = t]
    <3>1. host' = [op |-> "cancel", task |-> t, found |-> FALSE, edges |-> {}, next |-> None]
      BY <2>2 DEF HostIdle
    <3>2. FALSE \in BOOLEAN /\ {} \in SUBSET (Tasks \X Tasks)
      OBVIOUS
    <3> QED BY <3>1, <3>2, Zenon
  <2> QED BY <2>1, <2>2
<1>b. /\ host'.task = t
      /\ host' \in [op : {"idle", "notify", "drop", "cancel"},
                    task : Tasks \cup {None}, found : BOOLEAN,
                    edges : SUBSET (Tasks \X Tasks), next : Tasks \cup {None}]
  BY <1>a
<1>1. TypeOK'
  <2>1. /\ DOMAIN dependTaskInfos' \subseteq Tasks
        /\ \A x \in DOMAIN dependTaskInfos' : dependTaskInfos'[x] \subseteq Tasks
    BY DEF IInv, TypeOK, graph
  <2>2. dependentTaskInfos' \in [Tasks -> SUBSET Tasks]
    BY DEF IInv, TypeOK, graph
  <2> QED BY <1>b, <2>1, <2>2 DEF IInv, TypeOK
<1>2. BusyOK'
  BY <1>b DEF IInv, BusyOK
<1>3. ExecutedOK'
  BY DEF IInv, BusyOK, ExecutedOK, TypeOK, graph
<1>4. FlagCoversEdges'
  BY DEF IInv, BusyOK, FlagCoversEdges, IsDependend, DependsOn, TypeOK, graph
<1>5. PerformedAfterPrerequisites'
  BY DEF IInv, BusyOK, ExecutedOK, PerformedAfterPrerequisites, IsDependend, DependsOn, TypeOK, graph
<1> QED BY <1>1, <1>2, <1>3, <1>4, <1>5 DEF IInv

(* A worker takes a task, which depends on nothing or is to be parked. *)
LEMMA DequeueKeepsIInv ==
  ASSUME NEW w \in Workers, IInv, Dequeue(w)
  PROVE  IInv'
<1> USE DEF Dequeue, NoWork, HostIsIdle
<1>1. TypeOK'
  BY DEF IInv, BusyOK, TypeOK, graph
<1>2. BusyOK'
  BY DEF IInv, BusyOK, TypeOK, graph
<1>3. ExecutedOK'
  BY DEF IInv, BusyOK, ExecutedOK, TypeOK, graph
<1>4. FlagCoversEdges'
  BY DEF IInv, BusyOK, FlagCoversEdges, IsDependend, DependsOn, TypeOK, graph
<1>5. PerformedAfterPrerequisites'
  BY DEF IInv, BusyOK, ExecutedOK, PerformedAfterPrerequisites, IsDependend, DependsOn, TypeOK, graph
<1> QED BY <1>1, <1>2, <1>3, <1>4, <1>5 DEF IInv

(* A worker parks the task it must not perform. *)
LEMMA EnqueuePendingTaskInfoKeepsIInv ==
  ASSUME NEW w \in Workers, IInv, EnqueuePendingTaskInfo(w)
  PROVE  IInv'
<1> USE DEF EnqueuePendingTaskInfo, NoWork, HostIsIdle
<1>1. TypeOK'
  BY DEF IInv, BusyOK, TypeOK, graph
<1>2. BusyOK'
  BY DEF IInv, BusyOK, TypeOK, graph
<1>3. ExecutedOK'
  BY DEF IInv, BusyOK, ExecutedOK, TypeOK, graph
<1>4. FlagCoversEdges'
  BY DEF IInv, BusyOK, FlagCoversEdges, IsDependend, DependsOn, TypeOK, graph
<1>5. PerformedAfterPrerequisites'
  BY DEF IInv, BusyOK, ExecutedOK, PerformedAfterPrerequisites, IsDependend, DependsOn, TypeOK, graph
<1> QED BY <1>1, <1>2, <1>3, <1>4, <1>5 DEF IInv

(* A worker performs a task that depends on nothing. *)
LEMMA PerformTaskKeepsIInv ==
  ASSUME NEW w \in Workers, IInv, PerformTask(w)
  PROVE  IInv'
<1> USE DEF PerformTask, NoWork, HostIsIdle
<1>1. TypeOK'
  BY DEF IInv, BusyOK, TypeOK, graph
<1>2. BusyOK'
  BY DEF IInv, BusyOK, TypeOK, graph
<1>3. ExecutedOK'
  BY DEF IInv, BusyOK, ExecutedOK, TypeOK, graph
<1>4. FlagCoversEdges'
  BY DEF IInv, BusyOK, FlagCoversEdges, IsDependend, DependsOn, TypeOK, graph
<1>5. PerformedAfterPrerequisites'
  BY DEF IInv, BusyOK, ExecutedOK, PerformedAfterPrerequisites, IsDependend, DependsOn, TypeOK, graph
<1> QED BY <1>1, <1>2, <1>3, <1>4, <1>5 DEF IInv

(* A worker hands the result to the host thread. *)
LEMMA NotifyTaskResultKeepsIInv ==
  ASSUME NEW w \in Workers, IInv, NotifyTaskResult(w)
  PROVE  IInv'
<1> USE DEF NotifyTaskResult, NoWork, HostIsIdle
<1>1. TypeOK'
  BY DEF IInv, BusyOK, TypeOK, graph
<1>2. BusyOK'
  BY DEF IInv, BusyOK, TypeOK, graph
<1>3. ExecutedOK'
  BY DEF IInv, BusyOK, ExecutedOK, TypeOK, graph
<1>4. FlagCoversEdges'
  BY DEF IInv, BusyOK, FlagCoversEdges, IsDependend, DependsOn, TypeOK, graph
<1>5. PerformedAfterPrerequisites'
  BY DEF IInv, BusyOK, ExecutedOK, PerformedAfterPrerequisites, IsDependend, DependsOn, TypeOK, graph
<1> QED BY <1>1, <1>2, <1>3, <1>4, <1>5 DEF IInv

(* The host thread takes the finished task from one that waits for it. *)
LEMMA RemoveDependencyByIdKeepsIInv ==
  ASSUME NEW d \in Tasks, IInv, RemoveDependencyById(d)
  PROVE  IInv'
<1> USE DEF RemoveDependencyById, WithoutEdge, HostIsIdle
<1>1. TypeOK'
  BY DEF IInv, BusyOK, TypeOK, graph
<1>2. BusyOK'
  BY DEF IInv, BusyOK, TypeOK, graph
<1>3. ExecutedOK'
  BY DEF IInv, BusyOK, ExecutedOK, TypeOK, graph
<1>4. FlagCoversEdges'
  BY DEF IInv, BusyOK, FlagCoversEdges, IsDependend, DependsOn, TypeOK, graph
<1>5. PerformedAfterPrerequisites'
  BY DEF IInv, BusyOK, ExecutedOK, PerformedAfterPrerequisites, IsDependend, DependsOn, TypeOK, graph
<1> QED BY <1>1, <1>2, <1>3, <1>4, <1>5 DEF IInv

(* The host thread queues a parked task that waits for nothing more. *)
LEMMA EnqueueIfPendingKeepsIInv ==
  ASSUME IInv, EnqueueIfPending
  PROVE  IInv'
<1> USE DEF EnqueueIfPending, HostIsIdle
<1>1. TypeOK'
  <2>1. host.next \in Tasks /\ taskQueue \in Seq(Tasks)
    BY DEF IInv, TypeOK
  <2>2. taskQueue' \in Seq(Tasks)
    BY <2>1
  <2> QED BY <2>2 DEF IInv, TypeOK, graph
<1>2. BusyOK'
  BY DEF IInv, BusyOK, TypeOK, graph
<1>3. ExecutedOK'
  <2>1. taskQueue \in Seq(Tasks)
    BY DEF IInv, TypeOK
  <2>2. CASE host.next \in pendingTaskInfos /\ taskQueue' = Append(taskQueue, host.next)
    <3>1. \A i \in DOMAIN taskQueue' :
            \/ taskQueue'[i] = host.next
            \/ i \in DOMAIN taskQueue /\ taskQueue'[i] = taskQueue[i]
      BY <2>1, <2>2
    <3> QED BY <3>1, <2>2 DEF IInv, ExecutedOK
  <2>3. CASE UNCHANGED taskQueue
    BY <2>3 DEF IInv, ExecutedOK
  <2> QED BY <2>2, <2>3
<1>4. FlagCoversEdges'
  BY DEF IInv, BusyOK, FlagCoversEdges, IsDependend, DependsOn, TypeOK, graph
<1>5. PerformedAfterPrerequisites'
  BY DEF IInv, BusyOK, ExecutedOK, PerformedAfterPrerequisites, IsDependend, DependsOn, TypeOK, graph
<1> QED BY <1>1, <1>2, <1>3, <1>4, <1>5 DEF IInv

(* The host thread has told all the waiters. *)
LEMMA AllNotifiedKeepsIInv ==
  ASSUME IInv, AllNotified
  PROVE  IInv'
<1> USE DEF AllNotified, HostIdle, HostIsIdle
<1>1. TypeOK'
  BY DEF IInv, BusyOK, TypeOK, graph
<1>2. BusyOK'
  BY DEF IInv, BusyOK, TypeOK, graph
<1>3. ExecutedOK'
  BY DEF IInv, BusyOK, ExecutedOK, TypeOK, graph
<1>4. FlagCoversEdges'
  BY DEF IInv, BusyOK, FlagCoversEdges, IsDependend, DependsOn, TypeOK, graph
<1>5. PerformedAfterPrerequisites'
  BY DEF IInv, BusyOK, ExecutedOK, PerformedAfterPrerequisites, IsDependend, DependsOn, TypeOK, graph
<1> QED BY <1>1, <1>2, <1>3, <1>4, <1>5 DEF IInv

(* A cancellation drops a task that waits for the cancelled one. *)
LEMMA DropDependentKeepsIInv ==
  ASSUME NEW p \in Tasks, NEW d \in Tasks, IInv, DropDependent(p, d)
  PROVE  IInv'
<1> USE DEF DropDependent, WithoutEdge, HostIsIdle
<1>1. TypeOK'
  BY DEF IInv, BusyOK, TypeOK, graph
<1>2. BusyOK'
  BY DEF IInv, BusyOK, TypeOK, graph
<1>3. ExecutedOK'
  BY DEF IInv, BusyOK, ExecutedOK, TypeOK, graph
<1>4. FlagCoversEdges'
  BY DEF IInv, BusyOK, FlagCoversEdges, IsDependend, DependsOn, TypeOK, graph
<1>5. PerformedAfterPrerequisites'
  BY DEF IInv, BusyOK, ExecutedOK, PerformedAfterPrerequisites, IsDependend, DependsOn, TypeOK, graph
<1> QED BY <1>1, <1>2, <1>3, <1>4, <1>5 DEF IInv

(* It takes that task out of the queue. *)
LEMMA DropQueuedKeepsIInv ==
  ASSUME IInv, DropQueued
  PROVE  IInv'
<1> USE DEF DropQueued, HostIsIdle
<1>1. TypeOK'
  <2>1. host.next \in Tasks /\ taskQueue \in Seq(Tasks)
    BY DEF IInv, TypeOK
  <2>2. taskQueue' \in Seq(Tasks)
    BY <2>1, ErasingFromQueue
  <2>3. host' \in [op : {"idle", "notify", "drop", "cancel"},
                  task : Tasks \cup {None}, found : BOOLEAN,
                  edges : SUBSET (Tasks \X Tasks), next : Tasks \cup {None}]
    <3>1. WaitersOf(host.next, dependentTaskInfos) \in SUBSET (Tasks \X Tasks)
      BY <2>1 DEF IInv, TypeOK, WaitersOf
    <3>2. PICK e \in SUBSET (Tasks \X Tasks) :
            host' = [host EXCEPT !.edges = e, !.next = None]
      <4>1. host.edges \cup WaitersOf(host.next, dependentTaskInfos)
              \in SUBSET (Tasks \X Tasks)
        BY <3>1 DEF IInv, TypeOK
      <4> QED BY <4>1, Zenon
    <3> QED BY <3>2 DEF IInv, TypeOK
  <2>4. promise' \in [Tasks -> {"none", "open", "settled", "abandoned"}]
    BY <2>1 DEF IInv, TypeOK
  <2>5. currentTaskInfo' \subseteq Tasks
    BY DEF IInv, TypeOK
  <2> QED BY <2>2, <2>3, <2>4, <2>5 DEF IInv, TypeOK, graph
<1>2. BusyOK'
  BY DEF IInv, BusyOK, TypeOK, graph
<1>3. ExecutedOK'
  <2>1. taskQueue \in Seq(Tasks)
    BY DEF IInv, TypeOK
  <2>2. \A i \in DOMAIN taskQueue' : \E j \in DOMAIN taskQueue : taskQueue'[i] = taskQueue[j]
    BY <2>1, ErasingFromQueue
  <2> QED BY <2>2 DEF IInv, ExecutedOK
<1>4. FlagCoversEdges'
  BY DEF IInv, BusyOK, FlagCoversEdges, IsDependend, DependsOn, TypeOK, graph
<1>5. PerformedAfterPrerequisites'
  BY DEF IInv, BusyOK, ExecutedOK, PerformedAfterPrerequisites, IsDependend, DependsOn, TypeOK, graph
<1> QED BY <1>1, <1>2, <1>3, <1>4, <1>5 DEF IInv

(* It has dropped them all. *)
LEMMA AllDroppedKeepsIInv ==
  ASSUME IInv, AllDropped
  PROVE  IInv'
<1> USE DEF AllDropped, HostIsIdle
<1>1. TypeOK'
  BY DEF IInv, BusyOK, TypeOK, graph
<1>2. BusyOK'
  BY DEF IInv, BusyOK, TypeOK, graph
<1>3. ExecutedOK'
  BY DEF IInv, BusyOK, ExecutedOK, TypeOK, graph
<1>4. FlagCoversEdges'
  BY DEF IInv, BusyOK, FlagCoversEdges, IsDependend, DependsOn, TypeOK, graph
<1>5. PerformedAfterPrerequisites'
  BY DEF IInv, BusyOK, ExecutedOK, PerformedAfterPrerequisites, IsDependend, DependsOn, TypeOK, graph
<1> QED BY <1>1, <1>2, <1>3, <1>4, <1>5 DEF IInv

(* The host thread rejects a cancelled task. *)
LEMMA RejectCancelledKeepsIInv ==
  ASSUME IInv, RejectCancelled
  PROVE  IInv'
<1> USE DEF RejectCancelled, HostIdle, HostIsIdle
<1>1. TypeOK'
  <2>1. host.task \in Tasks /\ taskQueue \in Seq(Tasks)
    BY DEF IInv, TypeOK, BusyOK
  <2>2. taskQueue' \in Seq(Tasks)
    BY <2>1, ErasingFromQueue
  <2>3. /\ promise' \in [Tasks -> {"none", "open", "settled", "abandoned"}]
        /\ cancelMessage' \in [Tasks -> {None, "waiting", "running"}]
    BY <2>1 DEF IInv, TypeOK
  <2>4. currentTaskInfo' \subseteq Tasks
    BY DEF IInv, TypeOK
  <2> QED BY <2>2, <2>3, <2>4 DEF IInv, TypeOK, graph
<1>2. BusyOK'
  BY DEF IInv, BusyOK, TypeOK, graph
<1>3. ExecutedOK'
  <2>1. taskQueue \in Seq(Tasks)
    BY DEF IInv, TypeOK
  <2>2. \A i \in DOMAIN taskQueue' : \E j \in DOMAIN taskQueue : taskQueue'[i] = taskQueue[j]
    BY <2>1, ErasingFromQueue
  <2> QED BY <2>2 DEF IInv, ExecutedOK
<1>4. FlagCoversEdges'
  BY DEF IInv, BusyOK, FlagCoversEdges, IsDependend, DependsOn, TypeOK, graph
<1>5. PerformedAfterPrerequisites'
  BY DEF IInv, BusyOK, ExecutedOK, PerformedAfterPrerequisites, IsDependend, DependsOn, TypeOK, graph
<1> QED BY <1>1, <1>2, <1>3, <1>4, <1>5 DEF IInv

----------------------------------------------------------------------------
(* At the start no task depends on another and nothing is queued. *)
LEMMA InitEstablishesIInv == Init => IInv
<1> SUFFICES ASSUME Init PROVE IInv
  OBVIOUS
<1> USE DEF Init, NoWork, HostIdle
<1>1. TypeOK
  <2>1. PICK e : e = {}
    OBVIOUS
  <2>2. dependentTaskInfos = [t \in Tasks |-> e] /\ e \in SUBSET Tasks
    BY <2>1
  <2>3. host \in [op : {"idle", "notify", "drop", "cancel"},
                  task : Tasks \cup {None}, found : BOOLEAN,
                  edges : SUBSET (Tasks \X Tasks), next : Tasks \cup {None}]
    OBVIOUS
  <2>4. DOMAIN dependTaskInfos = {}
    OBVIOUS
  <2>5. taskQueue \in Seq(Tasks)
    OBVIOUS
  <2> QED BY <2>2, <2>3, <2>4, <2>5 DEF TypeOK
<1>2. BusyOK
  BY DEF BusyOK
<1>3. ExecutedOK
  BY DEF ExecutedOK
<1>4. FlagCoversEdges
  BY DEF FlagCoversEdges, IsDependend, DependsOn
<1>5. PerformedAfterPrerequisites
  BY DEF PerformedAfterPrerequisites
<1> QED BY <1>1, <1>2, <1>3, <1>4, <1>5 DEF IInv

(* The invariant is about the variables only. *)
LEMMA StutteringKeepsIInv == IInv /\ UNCHANGED vars => IInv'
BY DEF vars, graph, IInv, TypeOK, BusyOK, ExecutedOK, FlagCoversEdges,
       PerformedAfterPrerequisites, IsDependend, DependsOn

(* Whatever the clients, the workers and the cancelling threads do, and in *)
(* whatever order, no reachable state leaves IInv.                         *)
THEOREM InductiveInvariant == Spec => []IInv
<1>1. IInv /\ [Next]_vars => IInv'
  <2> SUFFICES ASSUME IInv, [Next]_vars PROVE IInv'
    OBVIOUS
  <2>1. CASE UNCHANGED vars
    BY <2>1, StutteringKeepsIInv
  <2>2. ASSUME NEW t \in Tasks, NEW S \in SUBSET Tasks,
               AddDependency(t, S) \/ AddDependencyFails(t, S)
        PROVE  IInv'
    BY <2>2, AddDependencyKeepsIInv, AddDependencyFailsKeepsIInv
  <2>3. ASSUME NEW t \in Tasks, NEW p \in Tasks, RemoveDependency(t, p)
        PROVE  IInv'
    BY <2>3, RemoveDependencyKeepsIInv
  <2>4. ASSUME NEW t \in Tasks,
               \/ Execute(t) \/ ReleaseTaskData(t) \/ HandleTaskResult(t)
               \/ CancelTask(t) \/ CancelInner(t)
        PROVE  IInv'
    BY <2>4, ExecuteKeepsIInv, ReleaseTaskDataKeepsIInv, HandleTaskResultKeepsIInv,
       CancelTaskKeepsIInv, CancelInnerKeepsIInv
  <2>5. ASSUME NEW w \in Workers, Dequeue(w) \/ WorkerStep(w)
        PROVE  IInv'
    BY <2>5, DequeueKeepsIInv, EnqueuePendingTaskInfoKeepsIInv, PerformTaskKeepsIInv,
       NotifyTaskResultKeepsIInv DEF WorkerStep
  <2>6. CASE HostStep
    BY <2>6, RemoveDependencyByIdKeepsIInv, EnqueueIfPendingKeepsIInv,
       AllNotifiedKeepsIInv, DropDependentKeepsIInv, DropQueuedKeepsIInv,
       AllDroppedKeepsIInv, RejectCancelledKeepsIInv DEF HostStep
  <2> QED BY <2>1, <2>2, <2>3, <2>4, <2>5, <2>6 DEF Next
<1> QED BY <1>1, InitEstablishesIInv, PTL DEF Spec

(* Every variable keeps its type.                                          *)
THEOREM TypeCorrectness == Spec => []TypeOK
<1>1. IInv => TypeOK
  BY DEF IInv
<1> QED BY <1>1, InductiveInvariant, PTL

(* GetTaskByPriority never hands out a task that still waits for another,  *)
(* and no dependency is added under a task that a worker performs.         *)
THEOREM PrerequisitesComeFirst == Spec => []PerformedAfterPrerequisites
<1>1. IInv => PerformedAfterPrerequisites
  BY DEF IInv
<1> QED BY <1>1, InductiveInvariant, PTL

(* addDependency, removeDependency, the results, the cancellations and the *)
(* release of tasks never leave an edge at a task whose flag is clear.     *)
THEOREM FlagsCoverEdges == Spec => []FlagCoversEdges
<1>1. IInv => FlagCoversEdges
  BY DEF IInv
<1> QED BY <1>1, InductiveInvariant, PTL

----------------------------------------------------------------------------
(* Where a task that has been executed is. *)

(* A worker has the task, or the host thread has just found it pending     *)
(* while it cancels it.                                                    *)
Held(t) == \E w \in Workers : worker[w].task = t
Found(t) == host.found /\ host.task = t

HandedOutOK ==
  /\ \A i, j \in DOMAIN taskQueue : taskQueue[i] = taskQueue[j] => i = j
  /\ \A w \in Workers : worker[w].pc = "idle" => worker[w].task = None
  /\ \A w, v \in Workers : worker[w].task # None /\ worker[w].task = worker[v].task => w = v

ApartOK ==
  \A t \in Tasks :
    /\ Queued(t) => ~Held(t) /\ t \notin pendingTaskInfos /\ t \notin results /\ ~Found(t)
    /\ Held(t) => t \notin pendingTaskInfos /\ t \notin results /\ ~Found(t)
    /\ t \in pendingTaskInfos => t \notin results /\ ~Found(t)
    /\ t \in results => ~Found(t)

OpenOK ==
  \A t \in Tasks :
    promise[t] = "open" <=> \/ Queued(t) \/ Held(t) \/ t \in pendingTaskInfos
                            \/ t \in results \/ Found(t)

(* A task that no worker performs yet can still be cancelled in the queue. *)
NotTaken(t) ==
  \/ Queued(t) \/ t \in pendingTaskInfos \/ Found(t)
  \/ \E w \in Workers : worker[w].task = t /\ worker[w].pc # "running"
WaitingOK ==
  \A t \in Tasks : NotTaken(t) =>
    /\ taskState[t] \in {"waiting", "canceled"}
    /\ t \in currentTaskInfo
    /\ cancelMessage[t] \in {None, "waiting"}

FoundOK ==
  host.found => /\ host.op \in {"drop", "cancel"} /\ host.task \in Tasks
                /\ cancelMessage[host.task] = "waiting" /\ cancelMessage[host.task] # None

StateOK ==
  \A t \in Tasks :
    /\ taskState[t] = "notFound" => promise[t] = "none"
    /\ cancelMessage[t] # None => taskState[t] \in {"canceled", "finished"}

PlacesInv == HandedOutOK /\ ApartOK /\ OpenOK /\ WaitingOK /\ FoundOK /\ StateOK

(* What is left of a queue without repetitions.                            *)
LEMMA ErasedIsGone ==
  ASSUME taskQueue \in Seq(Tasks), HandedOutOK, NEW t, Queued(t)
  PROVE  LET e == WithoutQueued(t) IN
         /\ \A i, j \in DOMAIN e : e[i] = e[j] => i = j
         /\ \A x : (\E i \in DOMAIN e : e[i] = x) <=> Queued(x) /\ x # t
<1> DEFINE k == Position(t)
           e == WithoutQueued(t)
<1>1. k \in DOMAIN taskQueue /\ taskQueue[k] = t
  BY DEF Queued, Position
<1>2. /\ DOMAIN taskQueue = 1 .. Len(taskQueue) /\ Len(taskQueue) \in Nat
      /\ \A i, j \in DOMAIN taskQueue : taskQueue[i] = taskQueue[j] => i = j
  BY LenProperties DEF HandedOutOK
<1>3. /\ DOMAIN e = 1 .. Len(taskQueue) - 1
      /\ \A i \in 1 .. Len(taskQueue) - 1 :
           e[i] = IF i < k THEN taskQueue[i] ELSE taskQueue[i + 1]
  BY <1>1, ErasingExact DEF WithoutQueued
<1> HIDE DEF k, e
<1>4. ASSUME NEW i \in DOMAIN e, NEW j \in DOMAIN e, e[i] = e[j]
      PROVE  i = j
  <2> DEFINE At(n) == IF n < k THEN n ELSE n + 1
  <2>1. At(i) \in DOMAIN taskQueue /\ At(j) \in DOMAIN taskQueue
    BY <1>1, <1>2, <1>3
  <2>2. e[i] = taskQueue[At(i)] /\ e[j] = taskQueue[At(j)]
    BY <1>3
  <2>3. At(i) = At(j)
    BY <1>2, <1>4, <2>1, <2>2
  <2> QED BY <1>1, <1>2, <1>3, <2>3
<1>5. ASSUME NEW i \in DOMAIN e
      PROVE  Queued(e[i]) /\ e[i] # t
  BY <1>1, <1>2, <1>3 DEF Queued
<1>6. ASSUME NEW x, Queued(x), x # t
      PROVE  \E i \in DOMAIN e : e[i] = x
  <2>1. PICK j \in DOMAIN taskQueue : taskQueue[j] = x
    BY <1>6 DEF Queued
  <2>2. CASE j < k
    BY <1>1, <1>2, <1>3, <2>1, <2>2
  <2>3. CASE ~(j < k)
    <3>1. j - 1 \in DOMAIN e /\ ~(j - 1 < k) /\ (j - 1) + 1 = j
      BY <1>1, <1>2, <1>3, <1>6, <2>1, <2>3
    <3> QED BY <1>3, <2>1, <3>1
  <2> QED BY <2>2, <2>3
<1> QED BY <1>4, <1>5, <1>6 DEF e

(* What is added to a queue, and what is taken from it.                    *)
LEMMA AppendedToQueue ==
  ASSUME taskQueue \in Seq(Tasks), HandedOutOK, NEW t \in Tasks, ~Queued(t),
         taskQueue' = Append(taskQueue, t)
  PROVE  /\ \A i, j \in DOMAIN taskQueue' : taskQueue'[i] = taskQueue'[j] => i = j
         /\ \A x : Queued(x)' <=> Queued(x) \/ x = t
<1>1. /\ Len(taskQueue) \in Nat /\ DOMAIN taskQueue = 1 .. Len(taskQueue)
      /\ \A i, j \in DOMAIN taskQueue : taskQueue[i] = taskQueue[j] => i = j
  BY LenProperties DEF HandedOutOK
<1>2. /\ taskQueue' \in Seq(Tasks) /\ Len(taskQueue') = Len(taskQueue) + 1
      /\ \A i \in 1 .. Len(taskQueue) : taskQueue'[i] = taskQueue[i]
      /\ taskQueue'[Len(taskQueue) + 1] = t
  BY AppendProperties
<1>3. DOMAIN taskQueue' = 1 .. Len(taskQueue) + 1
  BY <1>2, LenProperties
<1>4. \A i \in DOMAIN taskQueue : taskQueue[i] # t
  BY DEF Queued
<1>5. \A i, j \in DOMAIN taskQueue' : taskQueue'[i] = taskQueue'[j] => i = j
  BY <1>1, <1>2, <1>3, <1>4
<1>6. \A x : Queued(x)' <=> Queued(x) \/ x = t
  BY <1>1, <1>2, <1>3 DEF Queued
<1> QED BY <1>5, <1>6

LEMMA TakenFromQueue ==
  ASSUME taskQueue \in Seq(Tasks), HandedOutOK, taskQueue # <<>>,
         taskQueue' = Tail(taskQueue)
  PROVE  /\ Head(taskQueue) \in Tasks /\ Queued(Head(taskQueue))
         /\ \A i, j \in DOMAIN taskQueue' : taskQueue'[i] = taskQueue'[j] => i = j
         /\ \A x : Queued(x)' <=> Queued(x) /\ x # Head(taskQueue)
<1>1. /\ Len(taskQueue) \in Nat /\ DOMAIN taskQueue = 1 .. Len(taskQueue)
      /\ \A i, j \in DOMAIN taskQueue : taskQueue[i] = taskQueue[j] => i = j
  BY LenProperties DEF HandedOutOK
<1>2. /\ Head(taskQueue) = taskQueue[1] /\ Head(taskQueue) \in Tasks
      /\ taskQueue' \in Seq(Tasks) /\ Len(taskQueue') = Len(taskQueue) - 1
      /\ \A i \in 1 .. Len(taskQueue) - 1 : taskQueue'[i] = taskQueue[i + 1]
  BY HeadTailProperties
<1>3. Len(taskQueue) >= 1
  BY <1>1, EmptySeq
<1>4. DOMAIN taskQueue' = 1 .. Len(taskQueue) - 1
  BY <1>2, LenProperties
<1>5. \A i, j \in DOMAIN taskQueue' : taskQueue'[i] = taskQueue'[j] => i = j
  BY <1>1, <1>2, <1>4
<1>6. ASSUME NEW x, Queued(x), x # Head(taskQueue) PROVE Queued(x)'
  <2>1. PICK j \in DOMAIN taskQueue : taskQueue[j] = x
    BY <1>6 DEF Queued
  <2>2. j - 1 \in DOMAIN taskQueue' /\ taskQueue'[j - 1] = x
    BY <1>1, <1>2, <1>4, <1>6, <2>1
  <2> QED BY <2>2 DEF Queued
<1>7. ASSUME NEW x, Queued(x)' PROVE Queued(x) /\ x # Head(taskQueue)
  BY <1>1, <1>2, <1>4, <1>7 DEF Queued
<1>8. Queued(Head(taskQueue))
  BY <1>1, <1>2, <1>3 DEF Queued
<1> QED BY <1>2, <1>5, <1>6, <1>7, <1>8

----------------------------------------------------------------------------
(* What leaves every task where it is leaves the places as they are.       *)
LEMMA PlacesKept ==
  ASSUME HandedOutOK, ApartOK, OpenOK,
         UNCHANGED <<taskQueue, worker, pendingTaskInfos, results, promise>>,
         host'.found = host.found, host.found => host'.task = host.task
  PROVE  /\ HandedOutOK' /\ ApartOK' /\ OpenOK'
         /\ \A x \in Tasks : NotTaken(x)' <=> NotTaken(x)
<1>1. \A x \in Tasks : /\ Queued(x)' <=> Queued(x)
                       /\ Held(x)' <=> Held(x)
                       /\ Found(x)' <=> Found(x)
                       /\ NotTaken(x)' <=> NotTaken(x)
  BY DEF Queued, Held, Found, NotTaken
<1>2. HandedOutOK'
  BY DEF HandedOutOK
<1>3. ApartOK'
  BY <1>1 DEF ApartOK
<1>4. OpenOK'
  BY <1>1 DEF OpenOK
<1> QED BY <1>1, <1>2, <1>3, <1>4

(* Dependencies, notifications and what else touches the tables only.      *)
LEMMA TablesKeepPlaces ==
  ASSUME PlacesInv,
         UNCHANGED <<taskQueue, worker, pendingTaskInfos, results, promise,
                     taskState, currentTaskInfo, cancelMessage>>,
         host'.found = host.found,
         host.found => host'.task = host.task /\ host'.op \in {"drop", "cancel"}
  PROVE  PlacesInv'
<1>1. /\ HandedOutOK' /\ ApartOK' /\ OpenOK'
      /\ \A x \in Tasks : NotTaken(x)' <=> NotTaken(x)
  BY PlacesKept DEF PlacesInv
<1>2. WaitingOK'
  BY <1>1 DEF PlacesInv, WaitingOK
<1>3. FoundOK' /\ StateOK'
  BY DEF PlacesInv, FoundOK, StateOK
<1> QED BY <1>1, <1>2, <1>3 DEF PlacesInv

LEMMA AddDependencyKeepsPlaces ==
  ASSUME NEW t \in Tasks, NEW S \in SUBSET Tasks, PlacesInv,
         AddDependency(t, S) \/ AddDependencyFails(t, S)
  PROVE  PlacesInv'
BY TablesKeepPlaces DEF AddDependency, AddDependencyFails, PlacesInv, FoundOK

LEMMA RemoveDependencyKeepsPlaces ==
  ASSUME NEW t \in Tasks, NEW p \in Tasks, PlacesInv, RemoveDependency(t, p)
  PROVE  PlacesInv'
BY TablesKeepPlaces DEF RemoveDependency, PlacesInv, FoundOK

LEMMA RemoveDependencyByIdKeepsPlaces ==
  ASSUME NEW d \in Tasks, IInv, PlacesInv, RemoveDependencyById(d)
  PROVE  PlacesInv'
<1>1. ~host.found
  BY DEF PlacesInv, FoundOK, RemoveDependencyById
<1>2. host'.found = host.found
  BY DEF RemoveDependencyById, IInv, TypeOK
<1> QED BY <1>1, <1>2, TablesKeepPlaces DEF RemoveDependencyById

LEMMA AllNotifiedKeepsPlaces ==
  ASSUME IInv, PlacesInv, AllNotified
  PROVE  PlacesInv'
<1>1. host.found = FALSE
  BY DEF PlacesInv, FoundOK, AllNotified, IInv, TypeOK
<1>2. host'.found = host.found
  BY <1>1 DEF AllNotified, HostIdle
<1> QED BY <1>1, <1>2, TablesKeepPlaces DEF AllNotified, graph

LEMMA AllDroppedKeepsPlaces ==
  ASSUME IInv, PlacesInv, AllDropped
  PROVE  PlacesInv'
<1>1. host'.found = host.found /\ host'.task = host.task /\ host'.op = "cancel"
  BY DEF AllDropped, IInv, TypeOK
<1> QED BY <1>1, TablesKeepPlaces DEF AllDropped, graph

(* execute puts a task that is nowhere into the queue.                     *)
LEMMA ExecuteKeepsPlaces ==
  ASSUME NEW t \in Tasks, IInv, PlacesInv, Execute(t)
  PROVE  PlacesInv'
<1>1. promise[t] # "open" /\ cancelMessage[t] = None
  BY DEF Execute, PlacesInv, StateOK
<1>2. /\ ~Queued(t) /\ ~Held(t) /\ t \notin pendingTaskInfos /\ t \notin results /\ ~Found(t)
  BY <1>1 DEF PlacesInv, OpenOK
<1>3. /\ \A i, j \in DOMAIN taskQueue' : taskQueue'[i] = taskQueue'[j] => i = j
      /\ \A x : Queued(x)' <=> Queued(x) \/ x = t
  BY <1>2, AppendedToQueue DEF Execute, PlacesInv, IInv, TypeOK
<1>4. /\ UNCHANGED <<worker, pendingTaskInfos, results, host, cancelMessage>>
      /\ \A x \in Tasks : /\ promise'[x] = IF x = t THEN "open" ELSE promise[x]
                          /\ taskState'[x] = IF x = t THEN "waiting" ELSE taskState[x]
      /\ currentTaskInfo' = currentTaskInfo \cup {t}
  BY DEF Execute, IInv, TypeOK
<1>5. \A x \in Tasks : /\ Held(x)' <=> Held(x)
                       /\ Found(x)' <=> Found(x)
                       /\ NotTaken(x)' <=> NotTaken(x) \/ x = t
  BY <1>3, <1>4 DEF Held, Found, NotTaken
<1>6. HandedOutOK'
  BY <1>3, <1>4 DEF PlacesInv, HandedOutOK
<1>7. ApartOK'
  BY <1>2, <1>3, <1>4, <1>5 DEF PlacesInv, ApartOK
<1>8. OpenOK'
  BY <1>2, <1>3, <1>4, <1>5 DEF PlacesInv, OpenOK
<1>9. WaitingOK'
  BY <1>1, <1>4, <1>5, TaskConstants DEF PlacesInv, WaitingOK
<1>10. FoundOK' /\ StateOK'
  BY <1>1, <1>4 DEF PlacesInv, FoundOK, StateOK
<1> QED BY <1>6, <1>7, <1>8, <1>9, <1>10 DEF PlacesInv

(* A task that is released is nowhere.                                     *)
LEMMA ReleaseTaskDataKeepsPlaces ==
  ASSUME NEW t \in Tasks, IInv, PlacesInv, ReleaseTaskData(t)
  PROVE  PlacesInv'
<1>1. /\ ~Queued(t) /\ ~Held(t) /\ t \notin pendingTaskInfos /\ t \notin results /\ ~Found(t)
  BY DEF ReleaseTaskData, PlacesInv, OpenOK
<1>2. /\ UNCHANGED <<taskQueue, worker, pendingTaskInfos, results, promise, host>>
      /\ \A x \in Tasks :
           /\ cancelMessage'[x] = IF x = t THEN None ELSE cancelMessage[x]
           /\ taskState'[x] = IF x = t THEN "released" ELSE taskState[x]
      /\ currentTaskInfo' = currentTaskInfo \ {t}
  BY <1>1 DEF ReleaseTaskData, IInv, TypeOK
<1>3. /\ HandedOutOK' /\ ApartOK' /\ OpenOK'
      /\ \A x \in Tasks : NotTaken(x)' <=> NotTaken(x)
  BY <1>2, PlacesKept DEF PlacesInv
<1>4. ~NotTaken(t)
  BY <1>1 DEF NotTaken, Held
<1>5. WaitingOK'
  BY <1>2, <1>3, <1>4 DEF PlacesInv, WaitingOK
<1>6. FoundOK' /\ StateOK'
  BY <1>1, <1>2 DEF PlacesInv, FoundOK, StateOK, Found
<1> QED BY <1>3, <1>5, <1>6 DEF PlacesInv

(* A task whose result is handled has been only there.                     *)
LEMMA HandleTaskResultKeepsPlaces ==
  ASSUME NEW t \in Tasks, IInv, PlacesInv, HandleTaskResult(t)
  PROVE  PlacesInv'
<1>1. /\ ~Queued(t) /\ ~Held(t) /\ t \notin pendingTaskInfos /\ t \in results
      /\ ~host.found /\ promise[t] = "open"
  BY DEF HandleTaskResult, PlacesInv, OpenOK, ApartOK, FoundOK, HostIsIdle
<1>2. /\ UNCHANGED <<taskQueue, worker, pendingTaskInfos, cancelMessage>>
      /\ \A x \in Tasks : /\ promise'[x] = IF x = t THEN "settled" ELSE promise[x]
                          /\ taskState'[x] = IF x = t THEN "finished" ELSE taskState[x]
      /\ currentTaskInfo' = currentTaskInfo \ {t} /\ results' = results \ {t}
      /\ ~host'.found
  BY DEF HandleTaskResult, IInv, TypeOK, HostIdle, Notifying
<1>3. \A x \in Tasks : /\ Queued(x)' <=> Queued(x)
                       /\ Held(x)' <=> Held(x)
                       /\ ~Found(x)' /\ ~Found(x)
                       /\ NotTaken(x)' <=> NotTaken(x)
  BY <1>1, <1>2 DEF Queued, Held, Found, NotTaken
<1>4. HandedOutOK' /\ ApartOK' /\ OpenOK'
  <2>1. HandedOutOK'
    BY <1>2 DEF PlacesInv, HandedOutOK
  <2>2. ApartOK'
    BY <1>1, <1>2, <1>3 DEF PlacesInv, ApartOK
  <2>3. OpenOK'
    BY <1>1, <1>2, <1>3 DEF PlacesInv, OpenOK
  <2> QED BY <2>1, <2>2, <2>3
<1>5. ~NotTaken(t)
  BY <1>1, <1>3 DEF NotTaken, Held
<1>6. WaitingOK'
  BY <1>2, <1>3, <1>5 DEF PlacesInv, WaitingOK
<1>7. FoundOK' /\ StateOK'
  BY <1>1, <1>2 DEF PlacesInv, FoundOK, StateOK
<1> QED BY <1>4, <1>6, <1>7 DEF PlacesInv

(* cancel, on whatever thread, does not touch a task that is cancelled.    *)
LEMMA CancelTaskKeepsPlaces ==
  ASSUME NEW t \in Tasks, IInv, PlacesInv, CancelTask(t)
  PROVE  PlacesInv'
<1>1. /\ UNCHANGED <<taskQueue, worker, pendingTaskInfos, results, promise, host, currentTaskInfo>>
      /\ \A x \in Tasks :
           /\ cancelMessage'[x] = IF x = t THEN taskState[t] ELSE cancelMessage[x]
           /\ taskState'[x] = IF x = t THEN "canceled" ELSE taskState[x]
      /\ taskState[t] \in {"waiting", "running"}
  BY DEF CancelTask, IInv, TypeOK
<1>2. /\ HandedOutOK' /\ ApartOK' /\ OpenOK'
      /\ \A x \in Tasks : NotTaken(x)' <=> NotTaken(x)
  BY <1>1, PlacesKept DEF PlacesInv
<1>3. WaitingOK'
  BY <1>1, <1>2 DEF PlacesInv, WaitingOK
<1>4. cancelMessage[t] = None
  BY <1>1 DEF PlacesInv, StateOK
<1>5. FoundOK'
  <2>1. host.found => host.task \in Tasks /\ host.task # t
    BY <1>4 DEF PlacesInv, FoundOK
  <2> QED BY <1>1, <2>1 DEF PlacesInv, FoundOK
<1>6. StateOK'
  BY <1>1 DEF PlacesInv, StateOK
<1> QED BY <1>2, <1>3, <1>5, <1>6 DEF PlacesInv

(* A pending task that is cancelled is taken out of the pending ones, and  *)
(* the host thread remembers that it found it there.                       *)
LEMMA CancelInnerKeepsPlaces ==
  ASSUME NEW t \in Tasks, IInv, PlacesInv, CancelInner(t)
  PROVE  PlacesInv'
<1>1. /\ UNCHANGED <<taskState, taskQueue, worker, results, promise, currentTaskInfo, cancelMessage>>
      /\ host'.task = t /\ cancelMessage[t] # None /\ ~host.found
      /\ \/ /\ pendingTaskInfos' = pendingTaskInfos \ {t}
            /\ host'.found <=> t \in pendingTaskInfos
            /\ host'.op = "drop"
         \/ pendingTaskInfos' = pendingTaskInfos /\ ~host'.found
  <2>1. /\ UNCHANGED <<taskState, taskQueue, worker, results, promise, currentTaskInfo, cancelMessage>>
        /\ cancelMessage[t] # None /\ ~host.found
    BY DEF CancelInner, HostIsIdle, PlacesInv, FoundOK
  <2>2. CASE hasDependency[t]
    <3>1. /\ pendingTaskInfos' = pendingTaskInfos \ {t}
          /\ host' = [op |-> "drop", task |-> t, found |-> t \in pendingTaskInfos,
                      edges |-> WaitersOf(t, dependentTaskInfos), next |-> None]
      BY <2>2 DEF CancelInner
    <3>2. host'.task = t /\ host'.op = "drop"
      BY <3>1
    <3>3. host'.found <=> t \in pendingTaskInfos
      BY <3>1, Zenon
    <3> QED BY <2>1, <3>1, <3>2, <3>3
  <2>3. CASE ~hasDependency[t]
    BY <2>1, <2>3 DEF CancelInner, HostIdle
  <2> QED BY <2>2, <2>3
<1>2. \A x \in Tasks :
        /\ Queued(x)' <=> Queued(x)
        /\ Held(x)' <=> Held(x)
        /\ ~Found(x)
        /\ x # t => (x \in pendingTaskInfos' <=> x \in pendingTaskInfos) /\ ~Found(x)'
        /\ \/ ~(t \in pendingTaskInfos') /\ (Found(t)' <=> t \in pendingTaskInfos)
           \/ (t \in pendingTaskInfos' <=> t \in pendingTaskInfos) /\ ~Found(t)'
  BY <1>1 DEF Queued, Held, Found
<1>3. \A x \in Tasks : NotTaken(x)' <=> NotTaken(x)
  BY <1>1, <1>2 DEF NotTaken
<1>4. HandedOutOK'
  BY <1>1 DEF PlacesInv, HandedOutOK
<1>5. ApartOK'
  BY <1>1, <1>2 DEF PlacesInv, ApartOK
<1>6. OpenOK'
  BY <1>1, <1>2 DEF PlacesInv, OpenOK
<1>7. WaitingOK'
  BY <1>1, <1>3 DEF PlacesInv, WaitingOK
<1>8. FoundOK'
  <2>1. t \in pendingTaskInfos => cancelMessage[t] = "waiting"
    BY <1>1 DEF PlacesInv, WaitingOK, NotTaken
  <2> QED BY <1>1, <2>1 DEF FoundOK
<1>9. StateOK'
  BY <1>1 DEF PlacesInv, StateOK
<1> QED BY <1>4, <1>5, <1>6, <1>7, <1>8, <1>9 DEF PlacesInv

(* The worker takes the task that has waited longest.                      *)
LEMMA DequeueKeepsPlaces ==
  ASSUME NEW w \in Workers, IInv, PlacesInv, Dequeue(w)
  PROVE  PlacesInv'
<1> DEFINE t == Head(taskQueue)
<1>1. /\ t \in Tasks /\ Queued(t)
      /\ \A i, j \in DOMAIN taskQueue' : taskQueue'[i] = taskQueue'[j] => i = j
      /\ \A x : Queued(x)' <=> Queued(x) /\ x # t
  BY TakenFromQueue DEF Dequeue, PlacesInv, IInv, TypeOK
<1> HIDE DEF t
<1>2. /\ UNCHANGED <<taskState, pendingTaskInfos, results, promise, currentTaskInfo, cancelMessage, host>>
      /\ worker[w].task = None
      /\ worker'[w].task = t /\ worker'[w].pc \in {"parking", "ready"}
      /\ \A v \in Workers : v # w => worker'[v] = worker[v]
  BY DEF Dequeue, IInv, TypeOK, NoWork, t
<1>3. ~Held(t)
  BY <1>1 DEF PlacesInv, ApartOK
<1>4. \A x \in Tasks : /\ Held(x)' <=> Held(x) \/ x = t
                       /\ Found(x)' <=> Found(x)
                       /\ NotTaken(x)' <=> NotTaken(x)
  <2>1. ASSUME NEW x \in Tasks PROVE Held(x)' <=> Held(x) \/ x = t
    BY <1>2, TaskConstants DEF Held
  <2>2. ASSUME NEW x \in Tasks PROVE NotTaken(x)' <=> NotTaken(x)
    BY <1>1, <1>2, TaskConstants DEF NotTaken, Found
  <2> QED BY <1>2, <2>1, <2>2 DEF Found
<1>5. HandedOutOK'
  BY <1>1, <1>2, <1>3 DEF PlacesInv, HandedOutOK, Held
<1>6. ApartOK'
  BY <1>1, <1>2, <1>4 DEF PlacesInv, ApartOK
<1>7. OpenOK'
  BY <1>1, <1>2, <1>4 DEF PlacesInv, OpenOK
<1>8. WaitingOK'
  BY <1>2, <1>4 DEF PlacesInv, WaitingOK
<1>9. FoundOK' /\ StateOK'
  BY <1>2 DEF PlacesInv, FoundOK, StateOK
<1> QED BY <1>5, <1>6, <1>7, <1>8, <1>9 DEF PlacesInv

(* ... and parks it if it waits for another one.                           *)
LEMMA EnqueuePendingTaskInfoKeepsPlaces ==
  ASSUME NEW w \in Workers, IInv, PlacesInv, EnqueuePendingTaskInfo(w)
  PROVE  PlacesInv'
<1> DEFINE t == worker[w].task
<1>1. /\ t \in Tasks /\ Held(t) /\ worker[w].pc # "running"
      /\ \A v \in Workers : v # w => worker[v].task # t
  BY TaskConstants DEF EnqueuePendingTaskInfo, IInv, BusyOK, Held, PlacesInv, HandedOutOK
<1> HIDE DEF t
<1>2. /\ UNCHANGED <<taskState, taskQueue, results, promise, currentTaskInfo, cancelMessage, host>>
      /\ worker[w].task = t /\ worker'[w].task = None /\ worker'[w].pc = "idle"
      /\ \A v \in Workers : v # w => worker'[v] = worker[v]
      /\ pendingTaskInfos' = pendingTaskInfos \cup {t}
  BY DEF EnqueuePendingTaskInfo, IInv, TypeOK, NoWork, t
<1>3. \A x \in Tasks : /\ Queued(x)' <=> Queued(x)
                       /\ Held(x)' <=> Held(x) /\ x # t
                       /\ Found(x)' <=> Found(x)
                       /\ NotTaken(x)' <=> NotTaken(x)
  <2>1. ASSUME NEW x \in Tasks PROVE Held(x)' <=> Held(x) /\ x # t
    BY <1>1, <1>2, TaskConstants DEF Held
  <2>2. ASSUME NEW x \in Tasks PROVE NotTaken(x)' <=> NotTaken(x)
    BY <1>1, <1>2, TaskConstants DEF NotTaken, Found, Queued
  <2> QED BY <1>2, <2>1, <2>2 DEF Found, Queued
<1>4. HandedOutOK'
  BY <1>1, <1>2 DEF PlacesInv, HandedOutOK
<1>5. ApartOK'
  BY <1>1, <1>2, <1>3 DEF PlacesInv, ApartOK
<1>6. OpenOK'
  BY <1>1, <1>2, <1>3 DEF PlacesInv, OpenOK
<1>7. WaitingOK'
  BY <1>2, <1>3 DEF PlacesInv, WaitingOK
<1>8. FoundOK' /\ StateOK'
  BY <1>2 DEF PlacesInv, FoundOK, StateOK
<1> QED BY <1>4, <1>5, <1>6, <1>7, <1>8 DEF PlacesInv

(* The worker goes on with the task it has.                                *)
LEMMA PerformTaskKeepsPlaces ==
  ASSUME NEW w \in Workers, IInv, PlacesInv, PerformTask(w)
  PROVE  PlacesInv'
<1> DEFINE t == worker[w].task
<1>1. /\ t \in Tasks /\ Held(t) /\ ~Queued(t) /\ t \notin pendingTaskInfos /\ ~Found(t)
      /\ \A v \in Workers : v # w => worker[v].task # t
  BY TaskConstants DEF PerformTask, IInv, BusyOK, Held, PlacesInv, HandedOutOK, ApartOK
<1> HIDE DEF t
<1>2. /\ UNCHANGED <<taskQueue, pendingTaskInfos, results, promise, currentTaskInfo, cancelMessage, host>>
      /\ worker[w].task = t /\ worker[w].pc = "ready" /\ worker'[w].task = t /\ worker'[w].pc = "running"
      /\ \A v \in Workers : v # w => worker'[v] = worker[v]
      /\ \A x \in Tasks : taskState'[x] =
           IF x = t /\ taskState[x] # "canceled" THEN "running" ELSE taskState[x]
  BY DEF PerformTask, IInv, TypeOK, t
<1>3. \A x \in Tasks : /\ Queued(x)' <=> Queued(x)
                       /\ Held(x)' <=> Held(x)
                       /\ Found(x)' <=> Found(x)
                       /\ NotTaken(x)' => NotTaken(x) /\ x # t
  <2>1. ASSUME NEW x \in Tasks PROVE Held(x)' <=> Held(x)
    BY <1>1, <1>2 DEF Held
  <2>2. ASSUME NEW x \in Tasks, NotTaken(x)' PROVE NotTaken(x) /\ x # t
    BY <1>1, <1>2, <2>2 DEF NotTaken, Found, Queued
  <2> QED BY <1>2, <2>1, <2>2 DEF Found, Queued
<1>4. HandedOutOK'
  BY <1>1, <1>2 DEF PlacesInv, HandedOutOK
<1>5. ApartOK'
  BY <1>2, <1>3 DEF PlacesInv, ApartOK
<1>6. OpenOK'
  BY <1>2, <1>3 DEF PlacesInv, OpenOK
<1>7. WaitingOK'
  BY <1>2, <1>3 DEF PlacesInv, WaitingOK
<1>8. FoundOK'
  BY <1>2 DEF PlacesInv, FoundOK
<1>9. StateOK'
  <2>1. taskState[t] \in {"waiting", "canceled"}
    BY <1>1, <1>2 DEF PlacesInv, WaitingOK, NotTaken
  <2> QED BY <1>1, <1>2, <2>1 DEF PlacesInv, StateOK
<1> QED BY <1>4, <1>5, <1>6, <1>7, <1>8, <1>9 DEF PlacesInv

LEMMA NotifyTaskResultKeepsPlaces ==
  ASSUME NEW w \in Workers, IInv, PlacesInv, NotifyTaskResult(w)
  PROVE  PlacesInv'
<1> DEFINE t == worker[w].task
<1>1. /\ t \in Tasks /\ Held(t) /\ worker[w].pc = "running"
      /\ \A v \in Workers : v # w => worker[v].task # t
  BY TaskConstants DEF NotifyTaskResult, IInv, BusyOK, Held, PlacesInv, HandedOutOK
<1> HIDE DEF t
<1>2. /\ UNCHANGED <<taskState, taskQueue, pendingTaskInfos, promise, currentTaskInfo, cancelMessage, host>>
      /\ worker[w].task = t /\ worker'[w].task = None /\ worker'[w].pc = "idle"
      /\ \A v \in Workers : v # w => worker'[v] = worker[v]
      /\ results' = results \cup {t}
  BY DEF NotifyTaskResult, IInv, TypeOK, NoWork, t
<1>3. \A x \in Tasks : /\ Queued(x)' <=> Queued(x)
                       /\ Held(x)' <=> Held(x) /\ x # t
                       /\ Found(x)' <=> Found(x)
                       /\ NotTaken(x)' => NotTaken(x)
  <2>1. ASSUME NEW x \in Tasks PROVE Held(x)' <=> Held(x) /\ x # t
    BY <1>1, <1>2, TaskConstants DEF Held
  <2>2. ASSUME NEW x \in Tasks, NotTaken(x)' PROVE NotTaken(x)
    BY <1>1, <1>2, <2>2, TaskConstants DEF NotTaken, Found, Queued
  <2> QED BY <1>2, <2>1, <2>2 DEF Found, Queued
<1>4. HandedOutOK'
  BY <1>1, <1>2 DEF PlacesInv, HandedOutOK
<1>5. ApartOK'
  BY <1>1, <1>2, <1>3 DEF PlacesInv, ApartOK
<1>6. OpenOK'
  BY <1>1, <1>2, <1>3 DEF PlacesInv, OpenOK
<1>7. WaitingOK'
  BY <1>2, <1>3 DEF PlacesInv, WaitingOK
<1>8. FoundOK' /\ StateOK'
  BY <1>2 DEF PlacesInv, FoundOK, StateOK
<1> QED BY <1>4, <1>5, <1>6, <1>7, <1>8 DEF PlacesInv

(* The last of those a task waited for puts it back into the queue.        *)
LEMMA EnqueueIfPendingKeepsPlaces ==
  ASSUME IInv, PlacesInv, EnqueueIfPending
  PROVE  PlacesInv'
<1> DEFINE d == host.next
<1>1. /\ d \in Tasks /\ host.found = FALSE /\ host'.found = FALSE /\ host'.task = host.task
      /\ UNCHANGED <<taskState, worker, results, promise, currentTaskInfo, cancelMessage>>
  BY DEF EnqueueIfPending, IInv, TypeOK, PlacesInv, FoundOK
<1>2. CASE d \notin pendingTaskInfos
  BY <1>1, <1>2, TablesKeepPlaces DEF EnqueueIfPending
<1>3. CASE d \in pendingTaskInfos
  <2>1. ~Queued(d) /\ ~Held(d) /\ d \notin results
    BY <1>1, <1>3 DEF PlacesInv, ApartOK
  <2>2. taskQueue' = Append(taskQueue, d) /\ pendingTaskInfos' = pendingTaskInfos \ {d}
    BY <1>3 DEF EnqueueIfPending
  <2>3. /\ \A i, j \in DOMAIN taskQueue' : taskQueue'[i] = taskQueue'[j] => i = j
        /\ \A x : Queued(x)' <=> Queued(x) \/ x = d
    BY <1>1, <2>1, <2>2, AppendedToQueue DEF PlacesInv, IInv, TypeOK
  <2> HIDE DEF d
  <2>4. \A x \in Tasks : /\ Held(x)' <=> Held(x)
                         /\ ~Found(x)' /\ ~Found(x)
                         /\ NotTaken(x)' <=> NotTaken(x)
    BY <1>1, <1>3, <2>2, <2>3 DEF Held, Found, NotTaken
  <2>5. HandedOutOK'
    BY <1>1, <2>3 DEF PlacesInv, HandedOutOK
  <2>6. ApartOK'
    BY <1>1, <2>1, <2>2, <2>3, <2>4 DEF PlacesInv, ApartOK
  <2>7. OpenOK'
    BY <1>1, <1>3, <2>2, <2>3, <2>4 DEF PlacesInv, OpenOK
  <2>8. WaitingOK'
    BY <1>1, <2>4 DEF PlacesInv, WaitingOK
  <2>9. FoundOK' /\ StateOK'
    BY <1>1 DEF PlacesInv, FoundOK, StateOK
  <2> QED BY <2>5, <2>6, <2>7, <2>8, <2>9 DEF PlacesInv
<1> QED BY <1>2, <1>3

(* Those who wait for a cancelled task are given up: a pending one ...     *)
LEMMA DropDependentKeepsPlaces ==
  ASSUME NEW p \in Tasks, NEW d \in Tasks, IInv, PlacesInv, DropDependent(p, d)
  PROVE  PlacesInv'
<1>1. /\ UNCHANGED <<taskState, taskQueue, worker, results, currentTaskInfo, cancelMessage>>
      /\ pendingTaskInfos' = pendingTaskInfos \ {d}
      /\ \A x \in Tasks : promise'[x] =
           IF x = d /\ d \in pendingTaskInfos THEN "abandoned" ELSE promise[x]
      /\ host'.found = host.found /\ host'.task = host.task /\ host'.op = "drop"
  BY DEF DropDependent, IInv, TypeOK
<1>2. d \in pendingTaskInfos =>
        /\ ~Queued(d) /\ ~Held(d) /\ d \notin results /\ ~Found(d)
        /\ promise[d] = "open"
  BY DEF PlacesInv, ApartOK, OpenOK
<1>3. \A x \in Tasks : /\ Queued(x)' <=> Queued(x)
                       /\ Held(x)' <=> Held(x)
                       /\ Found(x)' <=> Found(x)
                       /\ NotTaken(x)' => NotTaken(x)
  BY <1>1 DEF Queued, Held, Found, NotTaken
<1>4. HandedOutOK'
  BY <1>1 DEF PlacesInv, HandedOutOK
<1>5. ApartOK'
  BY <1>1, <1>3 DEF PlacesInv, ApartOK
<1>6. OpenOK'
  BY <1>1, <1>2, <1>3 DEF PlacesInv, OpenOK
<1>7. WaitingOK'
  BY <1>1, <1>3 DEF PlacesInv, WaitingOK
<1>8. FoundOK' /\ StateOK'
  BY <1>1, <1>2 DEF PlacesInv, FoundOK, StateOK
<1> QED BY <1>4, <1>5, <1>6, <1>7, <1>8 DEF PlacesInv

(* What an erasure from the queue leaves of the places of the others.      *)
LEMMA ErasedKeepsPlaces ==
  ASSUME NEW t \in Tasks, IInv, PlacesInv, Queued(t),
         taskQueue' = WithoutQueued(t),
         currentTaskInfo' = currentTaskInfo \ {t},
         UNCHANGED <<taskState, worker, pendingTaskInfos, results>>,
         \A x \in Tasks : x # t => promise'[x] = promise[x] /\ cancelMessage'[x] = cancelMessage[x],
         promise'[t] \in {"settled", "abandoned"}, cancelMessage'[t] \in {None, cancelMessage[t]},
         \A x \in Tasks : Found(x)' <=> Found(x)
  PROVE  HandedOutOK' /\ ApartOK' /\ OpenOK' /\ WaitingOK' /\ StateOK'
<1>1. /\ ~Held(t) /\ t \notin pendingTaskInfos /\ t \notin results /\ ~Found(t)
      /\ promise[t] = "open"
  BY DEF PlacesInv, ApartOK, OpenOK
<1>2. /\ \A i, j \in DOMAIN taskQueue' : taskQueue'[i] = taskQueue'[j] => i = j
      /\ \A x : Queued(x)' <=> Queued(x) /\ x # t
  <2>1. LET e == WithoutQueued(t) IN
        /\ \A i, j \in DOMAIN e : e[i] = e[j] => i = j
        /\ \A x : (\E i \in DOMAIN e : e[i] = x) <=> Queued(x) /\ x # t
    BY ErasedIsGone DEF PlacesInv, IInv, TypeOK
  <2>2. \A x : Queued(x)' <=> \E i \in DOMAIN taskQueue' : taskQueue'[i] = x
    BY DEF Queued
  <2> QED BY <2>1, <2>2
<1>3. \A x \in Tasks : Held(x)' <=> Held(x)
  BY DEF Held
<1>4. \A x \in Tasks : NotTaken(x)' => NotTaken(x) /\ x # t
  BY <1>1, <1>2 DEF NotTaken, Held
<1>5. HandedOutOK'
  BY <1>2 DEF PlacesInv, HandedOutOK
<1>6. ApartOK'
  BY <1>2, <1>3 DEF PlacesInv, ApartOK
<1>7. OpenOK'
  <2>1. ASSUME NEW x \in Tasks, x # t PROVE OpenOK!(x)'
    BY <2>1, <1>2, <1>3 DEF PlacesInv, OpenOK
  <2>2. OpenOK!(t)'
    BY <1>1, <1>2, <1>3
  <2> QED BY <2>1, <2>2 DEF OpenOK
<1>8. WaitingOK'
  BY <1>4 DEF PlacesInv, WaitingOK
<1>9. StateOK'
  <2>1. ASSUME NEW x \in Tasks, x # t PROVE StateOK!(x)'
    BY <2>1 DEF PlacesInv, StateOK
  <2>2. StateOK!(t)'
    BY <1>1 DEF PlacesInv, StateOK
  <2> QED BY <2>1, <2>2 DEF StateOK
<1> QED BY <1>5, <1>6, <1>7, <1>8, <1>9

(* ... and one that was still in the queue.                                *)
LEMMA DropQueuedKeepsPlaces ==
  ASSUME IInv, PlacesInv, DropQueued
  PROVE  PlacesInv'
<1> DEFINE d == host.next
<1>1. /\ d \in Tasks
      /\ host'.found = host.found /\ host'.task = host.task /\ host'.op = "drop"
      /\ UNCHANGED <<taskState, worker, pendingTaskInfos, results, cancelMessage>>
  BY DEF DropQueued, IInv, TypeOK
<1>2. \A x \in Tasks : Found(x)' <=> Found(x)
  BY <1>1 DEF Found
<1>3. FoundOK'
  BY <1>1 DEF PlacesInv, FoundOK
<1>4. CASE d \in currentTaskInfo /\ Queued(d)
  <2>1. /\ taskQueue' = WithoutQueued(d) /\ currentTaskInfo' = currentTaskInfo \ {d}
        /\ promise' = [promise EXCEPT ![d] = "abandoned"]
    BY <1>4 DEF DropQueued
  <2>2. /\ \A x \in Tasks : x # d => promise'[x] = promise[x]
        /\ promise'[d] = "abandoned"
    BY <1>1, <2>1 DEF IInv, TypeOK
  <2> HIDE DEF d
  <2>3. HandedOutOK' /\ ApartOK' /\ OpenOK' /\ WaitingOK' /\ StateOK'
    BY <1>1, <1>2, <1>4, <2>1, <2>2, ErasedKeepsPlaces
  <2> QED BY <1>3, <2>3 DEF PlacesInv
<1>5. CASE ~(d \in currentTaskInfo /\ Queued(d))
  BY <1>1, <1>5, TablesKeepPlaces DEF DropQueued
<1> QED BY <1>4, <1>5

(* The promise of a cancelled task is rejected if it was still waiting.    *)
LEMMA RejectCancelledKeepsPlaces ==
  ASSUME IInv, PlacesInv, RejectCancelled
  PROVE  PlacesInv'
<1> DEFINE t == host.task
<1>1. /\ t \in Tasks /\ host' = HostIdle /\ ~host'.found
      /\ UNCHANGED <<taskState, worker, pendingTaskInfos, results>>
      /\ \A x \in Tasks : cancelMessage'[x] = IF x = t THEN None ELSE cancelMessage[x]
  BY DEF RejectCancelled, IInv, TypeOK, BusyOK, HostIdle
<1>2. host.found = Found(t) /\ \A x \in Tasks : ~Found(x)' /\ (x # t => ~Found(x))
  BY <1>1 DEF Found, IInv, TypeOK
<1>3. FoundOK'
  BY <1>1 DEF FoundOK
<1>4. host.found => cancelMessage[t] = "waiting" /\ t \in currentTaskInfo
  BY <1>1, <1>2 DEF PlacesInv, FoundOK, WaitingOK, NotTaken
<1>5. CASE StillWaiting(t) /\ Queued(t)
  <2>1. ~Found(t)
    BY <1>1, <1>5 DEF PlacesInv, ApartOK
  <2>2. /\ taskQueue' = WithoutQueued(t) /\ currentTaskInfo' = currentTaskInfo \ {t}
        /\ promise' = [promise EXCEPT ![t] = "settled"]
    BY <1>5 DEF RejectCancelled
  <2>3. /\ \A x \in Tasks : x # t => promise'[x] = promise[x]
        /\ promise'[t] = "settled"
    BY <1>1, <2>2 DEF IInv, TypeOK
  <2> HIDE DEF t
  <2>4. HandedOutOK' /\ ApartOK' /\ OpenOK' /\ WaitingOK' /\ StateOK'
    BY <1>1, <1>2, <1>5, <2>1, <2>2, <2>3, ErasedKeepsPlaces
  <2> QED BY <1>3, <2>4 DEF PlacesInv
<1>6. CASE StillWaiting(t) /\ ~Queued(t)
  <2>1. /\ Found(t) /\ ~Held(t) /\ t \notin pendingTaskInfos /\ t \notin results
        /\ promise[t] = "open"
    BY <1>1, <1>2, <1>6 DEF StillWaiting, PlacesInv, ApartOK, OpenOK
  <2>2. /\ taskQueue' = taskQueue /\ currentTaskInfo' = currentTaskInfo \ {t}
        /\ \A x \in Tasks : promise'[x] = IF x = t THEN "settled" ELSE promise[x]
    BY <1>6 DEF RejectCancelled, IInv, TypeOK
  <2> HIDE DEF t
  <2>3. \A x \in Tasks : /\ Queued(x)' <=> Queued(x)
                         /\ Held(x)' <=> Held(x)
                         /\ NotTaken(x)' => NotTaken(x) /\ x # t
    BY <1>1, <1>2, <1>6, <2>1, <2>2 DEF Queued, Held, NotTaken
  <2>4. HandedOutOK'
    BY <1>1, <2>2 DEF PlacesInv, HandedOutOK
  <2>5. ApartOK'
    BY <1>1, <1>2, <2>3 DEF PlacesInv, ApartOK
  <2>6. OpenOK'
    BY <1>1, <1>2, <1>6, <2>1, <2>2, <2>3 DEF PlacesInv, OpenOK
  <2>7. WaitingOK'
    BY <1>1, <2>2, <2>3 DEF PlacesInv, WaitingOK
  <2>8. StateOK'
    BY <1>1, <2>1, <2>2 DEF PlacesInv, StateOK
  <2> QED BY <1>3, <2>4, <2>5, <2>6, <2>7, <2>8 DEF PlacesInv
<1>7. CASE ~StillWaiting(t)
  <2>1. ~host.found
    BY <1>4, <1>7 DEF StillWaiting
  <2>2. UNCHANGED <<taskQueue, promise, currentTaskInfo>>
    BY <1>7 DEF RejectCancelled
  <2>3. host'.found = host.found
    BY <1>1, <2>1 DEF IInv, TypeOK, HostIdle
  <2>4. /\ HandedOutOK' /\ ApartOK' /\ OpenOK'
        /\ \A x \in Tasks : NotTaken(x)' <=> NotTaken(x)
    BY <1>1, <2>1, <2>2, <2>3, PlacesKept DEF PlacesInv
  <2>5. WaitingOK'
    BY <1>1, <2>2, <2>4 DEF PlacesInv, WaitingOK
  <2>6. StateOK'
    BY <1>1, <2>2 DEF PlacesInv, StateOK
  <2> QED BY <1>3, <2>4, <2>5, <2>6 DEF PlacesInv
<1> QED BY <1>5, <1>6, <1>7

(* Initially nothing has been executed.                                    *)
LEMMA InitEstablishesPlaces == Init => PlacesInv
<1> SUFFICES ASSUME Init PROVE PlacesInv
  OBVIOUS
<1> USE DEF Init, NoWork, HostIdle
<1>1. \A t \in Tasks : ~Queued(t) /\ ~Held(t) /\ ~Found(t)
  BY TaskConstants DEF Queued, Held, Found
<1>2. HandedOutOK
  BY DEF HandedOutOK
<1>3. ApartOK /\ OpenOK
  BY <1>1 DEF ApartOK, OpenOK
<1>4. WaitingOK
  BY TaskConstants, <1>1 DEF WaitingOK, NotTaken
<1>5. FoundOK /\ StateOK
  BY DEF FoundOK, StateOK
<1> QED BY <1>2, <1>3, <1>4, <1>5 DEF PlacesInv

LEMMA StutteringKeepsPlaces == PlacesInv /\ UNCHANGED vars => PlacesInv'
BY DEF vars, PlacesInv, HandedOutOK, ApartOK, OpenOK, WaitingOK, FoundOK, StateOK,
       Queued, Held, Found, NotTaken

LEMMA NextKeepsPlaces == IInv /\ PlacesInv /\ [Next]_vars => PlacesInv'
<1> SUFFICES ASSUME IInv, PlacesInv, [Next]_vars PROVE PlacesInv'
  OBVIOUS
<1>1. CASE UNCHANGED vars
  BY <1>1, StutteringKeepsPlaces
<1>2. ASSUME NEW t \in Tasks, NEW S \in SUBSET Tasks,
             AddDependency(t, S) \/ AddDependencyFails(t, S)
      PROVE  PlacesInv'
  BY <1>2, AddDependencyKeepsPlaces
<1>3. ASSUME NEW t \in Tasks, NEW p \in Tasks, RemoveDependency(t, p)
      PROVE  PlacesInv'
  BY <1>3, RemoveDependencyKeepsPlaces
<1>4. ASSUME NEW t \in Tasks,
             \/ Execute(t) \/ ReleaseTaskData(t) \/ HandleTaskResult(t)
             \/ CancelTask(t) \/ CancelInner(t)
      PROVE  PlacesInv'
  BY <1>4, ExecuteKeepsPlaces, ReleaseTaskDataKeepsPlaces, HandleTaskResultKeepsPlaces,
     CancelTaskKeepsPlaces, CancelInnerKeepsPlaces
<1>5. ASSUME NEW w \in Workers, Dequeue(w) \/ WorkerStep(w)
      PROVE  PlacesInv'
  BY <1>5, DequeueKeepsPlaces, EnqueuePendingTaskInfoKeepsPlaces, PerformTaskKeepsPlaces,
     NotifyTaskResultKeepsPlaces DEF WorkerStep
<1>6. CASE HostStep
  BY <1>6, RemoveDependencyByIdKeepsPlaces, EnqueueIfPendingKeepsPlaces,
     AllNotifiedKeepsPlaces, DropDependentKeepsPlaces, DropQueuedKeepsPlaces,
     AllDroppedKeepsPlaces, RejectCancelledKeepsPlaces DEF HostStep
<1> QED BY <1>1, <1>2, <1>3, <1>4, <1>5, <1>6 DEF Next

(* A set whose elements are all the same has one element or none.          *)
LEMMA AtMostOne ==
  ASSUME NEW S, \A x, y \in S : x = y
  PROVE  Cardinality(S) = Here(S # {})
<1>1. CASE S = {}
  BY <1>1, FS_EmptySet DEF Here
<1>2. CASE S # {}
  <2>1. PICK x \in S : TRUE
    BY <1>2
  <2>2. S = {x}
    BY <2>1
  <2> QED BY <1>2, <2>2, FS_Singleton DEF Here
<1> QED BY <1>1, <1>2

LEMMA OnePlaceFollows == IInv /\ PlacesInv => OnePlace
<1> SUFFICES ASSUME IInv, PlacesInv, NEW t \in Tasks PROVE OnePlace!(t)
  BY DEF OnePlace
<1>1. Cardinality(Occurrences(t)) = Here(Queued(t))
  <2>1. \A i, j \in Occurrences(t) : i = j
    BY DEF Occurrences, PlacesInv, HandedOutOK
  <2>2. Occurrences(t) # {} <=> Queued(t)
    BY DEF Occurrences, Queued
  <2> QED BY <2>1, <2>2, AtMostOne DEF Here
<1>2. Cardinality(Holders(t)) = Here(Held(t))
  <2>1. \A v, w \in Holders(t) : v = w
    BY TaskConstants DEF Holders, PlacesInv, HandedOutOK
  <2>2. Holders(t) # {} <=> Held(t)
    BY DEF Holders, Held
  <2> QED BY <2>1, <2>2, AtMostOne DEF Here
<1>3. OnePlace!(t) <=>
        Here(Queued(t)) + Here(Held(t)) + Here(t \in pendingTaskInfos) + Here(t \in results)
          + Here(Found(t)) = Here(promise[t] = "open")
  BY <1>1, <1>2 DEF Found
<1>4. /\ Queued(t) => ~Held(t) /\ t \notin pendingTaskInfos /\ t \notin results /\ ~Found(t)
      /\ Held(t) => t \notin pendingTaskInfos /\ t \notin results /\ ~Found(t)
      /\ t \in pendingTaskInfos => t \notin results /\ ~Found(t)
      /\ t \in results => ~Found(t)
  BY DEF PlacesInv, ApartOK
<1>5. promise[t] = "open" <=> \/ Queued(t) \/ Held(t) \/ t \in pendingTaskInfos
                              \/ t \in results \/ Found(t)
  BY DEF PlacesInv, OpenOK
<1> QED BY <1>3, <1>4, <1>5 DEF Here

(* An execution is neither lost nor performed twice: between the queue,    *)
(* the pending tasks, the workers, the results and the cancellation it is  *)
(* in one place until its promise is settled or given up, and in none      *)
(* after that.                                                             *)
THEOREM ExecutionsAreAtOnePlace == Spec => []OnePlace
<1>1. IInv /\ PlacesInv /\ [Next]_vars => PlacesInv'
  BY NextKeepsPlaces
<1> QED BY <1>1, InductiveInvariant, InitEstablishesPlaces, OnePlaceFollows, PTL DEF Spec

----------------------------------------------------------------------------
(* Who waits for whom. *)

(* What the tasks of S wait for is the smallest set that contains S and,   *)
(* with a task, those it depends on.                                       *)
Closed(C) == \A y \in C : DependsOn(y) \subseteq C

LEMMA DependsOnTasks ==
  ASSUME TypeOK, NEW t PROVE DependsOn(t) \subseteq Tasks
BY DEF TypeOK, DependsOn

LEMMA UpstreamIsSmallest ==
  ASSUME TypeOK, NEW S \in SUBSET Tasks
  PROVE  /\ S \subseteq Upstream(S) /\ Upstream(S) \subseteq Tasks /\ Closed(Upstream(S))
         /\ \A C \in SUBSET Tasks : S \subseteq C /\ Closed(C) => Upstream(S) \subseteq C
<1>1. S \subseteq Upstream(S) /\ Upstream(S) \subseteq Tasks
  BY DEF Upstream
<1>2. \A C \in SUBSET Tasks : S \subseteq C /\ Closed(C) => Upstream(S) \subseteq C
  BY DEF Upstream, Closed
<1>3. ASSUME NEW y \in Upstream(S), NEW z \in DependsOn(y)
      PROVE  z \in Upstream(S)
  <2>1. z \in Tasks
    BY DependsOnTasks
  <2>2. ASSUME NEW C \in SUBSET Tasks, S \subseteq C, \A x \in C : DependsOn(x) \subseteq C
        PROVE  z \in C
    BY <2>2, <1>2 DEF Closed
  <2> QED BY <2>1, <2>2 DEF Upstream
<1> QED BY <1>1, <1>2, <1>3 DEF Closed

(* A task is not upstream of itself if some closed set says so.            *)
LEMMA ApartByClosedSet ==
  ASSUME NEW t, NEW C \in SUBSET Tasks, DependsOn(t) \subseteq C, Closed(C), t \notin C
  PROVE  t \notin Upstream(DependsOn(t))
BY DEF Upstream, Closed

(* Nothing comes to be upstream of itself when edges go.                   *)
LEMMA FewerEdges ==
  ASSUME TypeOK, Acyclic, \A x \in Tasks : DependsOn(x)' \subseteq DependsOn(x)
  PROVE  Acyclic'
<1> SUFFICES ASSUME NEW t \in Tasks PROVE t \notin Upstream(DependsOn(t))'
  BY DEF Acyclic
<1> DEFINE C == Upstream(DependsOn(t))
<1>1. C \in SUBSET Tasks /\ DependsOn(t) \subseteq C /\ Closed(C)
  BY UpstreamIsSmallest, DependsOnTasks
<1>2. t \notin C
  BY DEF Acyclic
<1> HIDE DEF C
<1>3. DependsOn(t)' \subseteq C /\ \A y \in C : DependsOn(y)' \subseteq C
  BY <1>1 DEF Closed
<1> QED BY <1>1, <1>2, <1>3 DEF Upstream

(* A task that waited for nobody gets the edges to S: those it comes to    *)
(* wait for do not wait for it.                                            *)
LEMMA NewEdges ==
  ASSUME TypeOK, Acyclic, NEW t \in Tasks, NEW S \in SUBSET Tasks,
         t \notin S, ~Circular(t, S),
         DependsOn(t)' = S, \A x \in Tasks \ {t} : DependsOn(x)' = DependsOn(x),
         DependsOn(t) = {}
  PROVE  Acyclic'
<1> DEFINE D == UNION {DependsOn(p) : p \in S}
           W == S \cup Upstream(D)
<1>1. D \in SUBSET Tasks
  BY DependsOnTasks
<1>2. D \subseteq Upstream(D) /\ Upstream(D) \subseteq Tasks /\ Closed(Upstream(D))
  BY <1>1, UpstreamIsSmallest
<1>3. t \notin W /\ W \in SUBSET Tasks /\ S \subseteq W /\ Closed(W)
  <2>1. t \notin Upstream(D)
    BY DEF Circular
  <2>2. \A p \in S : DependsOn(p) \subseteq D
    OBVIOUS
  <2> HIDE DEF D
  <2> QED BY <1>2, <2>1, <2>2 DEF Closed
<1> HIDE DEF D, W
<1> SUFFICES ASSUME NEW x \in Tasks PROVE x \notin Upstream(DependsOn(x))'
  BY DEF Acyclic
<1>4. CASE x = t
  <2>1. \A y \in W : DependsOn(y)' \subseteq W
    BY <1>3 DEF Closed
  <2> QED BY <1>3, <1>4, <2>1 DEF Upstream
<1>5. CASE x # t
  <2> DEFINE U == Upstream(DependsOn(x))
             C == IF t \in U THEN U \cup W ELSE U
  <2>1. U \in SUBSET Tasks /\ DependsOn(x) \subseteq U /\ Closed(U) /\ x \notin U
    BY UpstreamIsSmallest, DependsOnTasks DEF Acyclic
  <2>2. t \in U => x \notin W
    <3>1. ASSUME x \in W PROVE U \subseteq W
      BY <3>1, <1>3, UpstreamIsSmallest, DependsOnTasks DEF Closed
    <3> QED BY <3>1, <1>3
  <2> HIDE DEF U
  <2>3. C \in SUBSET Tasks /\ x \notin C /\ DependsOn(x)' \subseteq C
    BY <1>3, <1>5, <2>1, <2>2
  <2>4. \A y \in C : DependsOn(y)' \subseteq C
    BY <1>3, <2>1 DEF Closed
  <2> HIDE DEF C
  <2> QED BY <2>3, <2>4 DEF Upstream
<1> QED BY <1>4, <1>5

LEMMA EdgesUnchanged ==
  ASSUME Acyclic, UNCHANGED dependTaskInfos
  PROVE  Acyclic'
BY DEF Acyclic, Upstream, DependsOn

(* addDependency, for clients that add to a task once.                     *)
LEMMA AddDependencyKeepsAcyclic ==
  ASSUME "again" \notin Uses, NEW t \in Tasks, NEW S \in SUBSET Tasks,
         TypeOK, Acyclic, AddDependency(t, S)
  PROVE  Acyclic'
<1>1. t \notin DOMAIN dependTaskInfos /\ t \notin S
  BY DEF AddDependency
<1>2. CASE Circular(t, S)
  BY <1>1, <1>2, EdgesUnchanged DEF AddDependency, StoreTaskDependency
<1>3. CASE ~Circular(t, S)
  <2>1. dependTaskInfos' = Depend(t, S)
    BY <1>1, <1>3 DEF AddDependency, StoreTaskDependency
  <2>2. /\ DependsOn(t)' = S /\ DependsOn(t) = {}
        /\ \A x \in Tasks \ {t} : DependsOn(x)' = DependsOn(x)
    BY <1>1, <2>1 DEF DependsOn, Depend
  <2> QED BY <1>1, <1>3, <2>2, NewEdges
<1> QED BY <1>2, <1>3

(* Every other step leaves the edges, or takes some of them away.          *)
LEMMA OtherStepsKeepAcyclic ==
  ASSUME TypeOK, Acyclic,
         \/ \E x, p : dependTaskInfos' = WithoutEdge(x, p)
         \/ \E x : dependTaskInfos' = [y \in DOMAIN dependTaskInfos \ {x} |-> dependTaskInfos[y]]
         \/ dependTaskInfos' = dependTaskInfos
  PROVE  Acyclic'
<1>1. \A x \in Tasks : DependsOn(x)' \subseteq DependsOn(x)
  BY DEF DependsOn, WithoutEdge
<1> QED BY <1>1, FewerEdges

LEMMA NextKeepsAcyclic ==
  ASSUME "again" \notin Uses, TypeOK, Acyclic, [Next]_vars
  PROVE  Acyclic'
<1>1. ASSUME NEW t \in Tasks, NEW S \in SUBSET Tasks, AddDependency(t, S)
      PROVE  Acyclic'
  BY <1>1, AddDependencyKeepsAcyclic
<1>2. ASSUME \/ \E t \in Tasks, S \in SUBSET Tasks : AddDependencyFails(t, S)
             \/ \E t, p \in Tasks : RemoveDependency(t, p)
             \/ \E t \in Tasks : \/ Execute(t) \/ ReleaseTaskData(t) \/ HandleTaskResult(t)
                                 \/ CancelTask(t) \/ CancelInner(t)
             \/ \E w \in Workers : Dequeue(w) \/ WorkerStep(w)
             \/ HostStep
             \/ UNCHANGED vars
      PROVE  Acyclic'
  <2>1. \/ \E x, p : dependTaskInfos' = WithoutEdge(x, p)
        \/ \E x : dependTaskInfos' = [y \in DOMAIN dependTaskInfos \ {x} |-> dependTaskInfos[y]]
        \/ dependTaskInfos' = dependTaskInfos
    <3>1. CASE \/ \E t \in Tasks, S \in SUBSET Tasks : AddDependencyFails(t, S)
               \/ \E t, p \in Tasks : RemoveDependency(t, p)
      BY <3>1 DEF AddDependencyFails, RemoveDependency, graph
    <3>2. CASE \E t \in Tasks : \/ Execute(t) \/ HandleTaskResult(t) \/ CancelTask(t)
      BY <3>2 DEF Execute, HandleTaskResult, CancelTask, graph
    <3>3. CASE \E t \in Tasks : ReleaseTaskData(t)
      BY <3>3 DEF ReleaseTaskData
    <3>4. CASE \E t \in Tasks : CancelInner(t)
      BY <3>4 DEF CancelInner, graph
    <3>5. CASE \E w \in Workers : Dequeue(w) \/ WorkerStep(w)
      BY <3>5 DEF Dequeue, WorkerStep, EnqueuePendingTaskInfo, PerformTask, NotifyTaskResult, graph
    <3>6. CASE HostStep
      BY <3>6 DEF HostStep, RemoveDependencyById, EnqueueIfPending, AllNotified, DropDependent,
                  DropQueued, AllDropped, RejectCancelled, graph
    <3>7. CASE UNCHANGED vars
      BY <3>7 DEF vars, graph
    <3> QED BY <1>2, <3>1, <3>2, <3>3, <3>4, <3>5, <3>6, <3>7
  <2> QED BY <2>1, OtherStepsKeepAcyclic
<1> QED BY <1>1, <1>2 DEF Next

LEMMA InitEstablishesAcyclic == Init => Acyclic
<1> SUFFICES ASSUME Init, NEW t \in Tasks PROVE t \notin Upstream(DependsOn(t))
  BY DEF Acyclic
<1>1. \A x : DependsOn(x) = {}
  BY DEF Init, DependsOn
<1> QED BY <1>1 DEF Upstream

(* Where dependencies are added to a task once, no task ever waits for     *)
(* itself, directly or through others, whatever is added, removed,         *)
(* cancelled and released, and in whatever order.                          *)
THEOREM NoTaskWaitsForItself ==
  ASSUME "again" \notin Uses
  PROVE  Spec => []Acyclic
<1>1. TypeOK /\ Acyclic /\ [Next]_vars => Acyclic'
  BY NextKeepsAcyclic
<1> QED BY <1>1, TypeCorrectness, InitEstablishesAcyclic, PTL DEF Spec
=============================================================================
