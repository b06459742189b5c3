---------------------------- MODULE RunnersProofs ----------------------------
(***************************************************************************)
(* Theorems about Runners, for every number of threads, workers and tasks  *)
(* and every capacity.                                                     *)
(***************************************************************************)
EXTENDS Runners, FiniteSetTheorems, SequenceTheorems, WellFoundedInduction, TLAPS

(* A thread or worker that is busy has a task to be busy with; only a      *)
(* sequence runner leaves the taskMutex_ locked between two steps.         *)
JobOK ==
  \A p \in Procs :
    /\ job[p].op # "idle" => job[p].task \in Tasks
    /\ job[p].op = "start" => job[p].next \in Tasks /\ Sequential

(* The thread or worker p carries the task x from one place to another.    *)
Carries(p, x) ==
  \/ job[p].op \in {"enqueue", "add", "unref", "trigger"} /\ job[p].task = x
  \/ job[p].op = "start" /\ job[p].next = x

(* A task is at one place: it waits in the runner, is queued, is performed, *)
(* has a result, or is carried by one thread or worker.                    *)
AtOnePlace(x) ==
  /\ x \in taskQueue => x \notin performing \cup results
  /\ x \in performing => x \notin results
  /\ InTasks(x) => x \notin taskQueue \cup performing \cup results
  /\ \A p \in Procs : Carries(p, x) =>
       /\ x \notin taskQueue \cup performing \cup results /\ ~InTasks(x)
       /\ \A q \in Procs : Carries(q, x) => p = q

PlacesOK ==
  /\ \A x \in Tasks : AtOnePlace(x)
  /\ \A i, j \in DOMAIN tasks : tasks[i] = tasks[j] => i = j

(* A task that has not been executed is nowhere.                           *)
ExecutedOK ==
  \A x \in Tasks : promise[x] = "none" =>
    /\ x \notin taskQueue \cup performing \cup results /\ ~InTasks(x)
    /\ \A p \in Procs : ~Carries(p, x)

(* A sequence runner runs its current task at most, and none while a       *)
(* thread starts the next one.                                             *)
SequenceOK ==
  Sequential =>
    /\ InFlight \subseteq {currentTaskId}
    /\ \A p \in Procs : job[p].op = "start" => InFlight = {} /\ \A q \in Procs : job[q].op = "start" => p = q

(* An asynchronous runner counts the tasks that run.                       *)
CountOK ==
  ~Sequential =>
    /\ IsFiniteSet(InFlight)
    /\ Cardinality(InFlight) <= runningCount
    /\ runningCount <= config.runningCapacity

IInv == TypeOK /\ JobOK /\ PlacesOK /\ ExecutedOK /\ SequenceOK /\ CountOK

----------------------------------------------------------------------------
(* What the provers need to know of jobs. *)

JobOps == {"idle", "enqueue", "add", "discard", "unref", "trigger", "start", "remove"}

(* What a job is made of.                                                  *)
LEMMA JobFields ==
  ASSUME NEW op \in JobOps, NEW x \in Tasks
  PROVE  /\ Job(op, x) \in Jobs
         /\ Job(op, x).op = op /\ Job(op, x).task = x /\ Job(op, x).next = None
BY DEF Job, Jobs, Idle, JobOps

(* What an idle thread is doing.                                           *)
LEMMA IdleFields ==
  /\ Idle \in Jobs /\ Idle.op = "idle" /\ Idle.task = None /\ Idle.next = None
BY DEF Idle, Jobs

(* Only the thread that acts gets another job.                             *)
LEMMA ThenAt ==
  ASSUME TypeOK, NEW p \in Procs, NEW n \in Jobs, Then(p, n)
  PROVE  /\ job' \in [Procs -> Jobs] /\ job'[p] = n
         /\ \A q \in Procs : q # p => job'[q] = job[q]
BY DEF TypeOK, Then

----------------------------------------------------------------------------
(* What the provers need to know of sequences. *)

(* The end of a sequence from its m-th element on.                         *)
LEMMA SuffixFacts ==
  ASSUME NEW S, NEW s \in Seq(S), NEW m \in 1..(Len(s) + 1)
  PROVE  LET u == SubSeq(s, m, Len(s)) IN
         /\ u \in Seq(S) /\ Len(u) = Len(s) - m + 1 /\ DOMAIN u = 1..(Len(s) - m + 1)
         /\ \A i \in DOMAIN u : m + i - 1 \in DOMAIN s /\ u[i] = s[m + i - 1]
<1> DEFINE u == SubSeq(s, m, Len(s))
<1>1. Len(s) \in Nat /\ DOMAIN s = 1..Len(s) /\ m \in Int /\ Len(s) \in Int
  BY LenProperties
<1>2. \A i \in m..Len(s) : s[i] \in S
  BY <1>1, ElementOfSeq
<1>3. /\ u \in Seq(S)
      /\ Len(u) = IF m <= Len(s) THEN Len(s) - m + 1 ELSE 0
      /\ \A i \in 1..(Len(s) - m + 1) : u[i] = s[m + i - 1]
  BY <1>1, <1>2, SubSeqProperties
<1> HIDE DEF u
<1>4. Len(u) = Len(s) - m + 1
  BY <1>1, <1>3
<1>5. DOMAIN u = 1..(Len(s) - m + 1)
  BY <1>3, <1>4, LenProperties
<1>6. \A i \in DOMAIN u : m + i - 1 \in DOMAIN s /\ u[i] = s[m + i - 1]
  BY <1>1, <1>3, <1>5
<1> QED BY <1>3, <1>4, <1>5, <1>6 DEF u

(* A list without its k-th element.                                        *)
LEMMA ErasingFacts ==
  ASSUME NEW S, NEW s \in Seq(S), NEW k \in DOMAIN s,
         \A i, j \in DOMAIN s : s[i] = s[j] => i = j
  PROVE  LET u == SubSeq(s, 1, k - 1) \o SubSeq(s, k + 1, Len(s)) IN
         /\ u \in Seq(S)
         /\ \A i, j \in DOMAIN u : u[i] = u[j] => i = j
         /\ \A i \in DOMAIN u : u[i] # s[k] /\ \E j \in DOMAIN s : u[i] = s[j]
         /\ \A j \in DOMAIN s : j # k => \E i \in DOMAIN u : u[i] = s[j]
<1> DEFINE a == SubSeq(s, 1, k - 1)
           b == SubSeq(s, k + 1, Len(s))
           u == a \o b
<1>1. Len(s) \in Nat /\ DOMAIN s = 1..Len(s) /\ k \in 1..Len(s)
  BY LenProperties
<1>2. /\ a \in Seq(S) /\ Len(a) = k - 1
      /\ \A j \in 1..(k - 1) : a[j] = s[j]
  <2>1. \A j \in 1..(k - 1) : s[j] \in S
    BY <1>1, ElementOfSeq
  <2>2. /\ a \in Seq(S)
        /\ Len(a) = IF 1 <= k - 1 THEN (k - 1) - 1 + 1 ELSE 0
        /\ \A j \in 1..((k - 1) - 1 + 1) : a[j] = s[1 + j - 1]
    BY <1>1, <2>1, SubSeqProperties
  <2> HIDE DEF a
  <2>3. \A j \in 1..(k - 1) : 1 + j - 1 = j
    BY <1>1
  <2> QED BY <1>1, <2>2, <2>3
<1>3. /\ b \in Seq(S) /\ Len(b) = Len(s) - k
      /\ \A j \in 1..(Len(s) - k) : b[j] = s[k + 1 + j - 1]
  <2>1. k + 1 \in 1..(Len(s) + 1)
    BY <1>1
  <2>2. /\ b \in Seq(S) /\ Len(b) = Len(s) - (k + 1) + 1 /\ DOMAIN b = 1..(Len(s) - (k + 1) + 1)
        /\ \A j \in DOMAIN b : b[j] = s[k + 1 + j - 1]
    BY <2>1, SuffixFacts
  <2> HIDE DEF b
  <2>3. Len(s) - (k + 1) + 1 = Len(s) - k
    BY <1>1
  <2> QED BY <2>2, <2>3
<1> HIDE DEF a, b
<1>4. /\ u \in Seq(S) /\ Len(u) = Len(a) + Len(b)
      /\ \A j \in 1..(Len(a) + Len(b)) : u[j] = IF j <= Len(a) THEN a[j] ELSE b[j - Len(a)]
  <2>1. a \in Seq(S) /\ b \in Seq(S)
    BY <1>2, <1>3
  <2> HIDE DEF a, b
  <2> QED BY <2>1, ConcatProperties
<1> HIDE DEF u
<1>5. DOMAIN u = 1..(Len(s) - 1)
  BY <1>1, <1>2, <1>3, <1>4, LenProperties
<1> DEFINE from(i) == IF i <= k - 1 THEN i ELSE i + 1
<1>6. ASSUME NEW i \in DOMAIN u
      PROVE  from(i) \in DOMAIN s /\ from(i) # k /\ u[i] = s[from(i)]
  <2>1. CASE i <= k - 1
    BY <2>1, <1>1, <1>2, <1>3, <1>4, <1>5
  <2>2. CASE i > k - 1
    <3>1. i - (k - 1) \in 1..(Len(s) - k) /\ k + 1 + (i - (k - 1)) - 1 = i + 1
      BY <2>2, <1>1, <1>5
    <3>2. u[i] = b[i - (k - 1)]
      BY <2>2, <1>1, <1>2, <1>3, <1>4, <1>5
    <3>3. u[i] = s[i + 1]
      BY <3>1, <3>2, <1>3
    <3> QED BY <2>2, <3>3, <1>1, <1>5
  <2> QED BY <2>1, <2>2, <1>1, <1>5
<1>7. \A i, j \in DOMAIN u : from(i) = from(j) => i = j
  BY <1>1, <1>5
<1>0. \A j \in DOMAIN s : j # k => \E i \in DOMAIN u : u[i] = s[j]
  <2>1. ASSUME NEW j \in DOMAIN s, j # k PROVE \E i \in DOMAIN u : from(i) = j
    <3> DEFINE i == IF j < k THEN j ELSE j - 1
    <3>1. i \in DOMAIN u /\ from(i) = j
      BY <2>1, <1>1, <1>5
    <3> QED BY <3>1
  <2> QED BY <2>1, <1>6
<1> HIDE DEF from
<1>8. \A i, j \in DOMAIN u : u[i] = u[j] => i = j
  BY <1>6, <1>7
<1>9. \A i \in DOMAIN u : u[i] # s[k] /\ \E j \in DOMAIN s : u[i] = s[j]
  BY <1>1, <1>6
<1> QED BY <1>0, <1>4, <1>8, <1>9 DEF u, a, b

(* A task that is taken out of the waiting ones. *)
LEMMA WithoutTaskFacts ==
  ASSUME TypeOK, PlacesOK, NEW x
  PROVE  /\ WithoutTask(x) \in Seq(Tasks)
         /\ \A i, j \in DOMAIN WithoutTask(x) : WithoutTask(x)[i] = WithoutTask(x)[j] => i = j
         /\ \A i \in DOMAIN WithoutTask(x) : WithoutTask(x)[i] # x /\ InTasks(WithoutTask(x)[i])
         /\ \A y : InTasks(y) /\ y # x => \E i \in DOMAIN WithoutTask(x) : WithoutTask(x)[i] = y
<1>1. CASE InTasks(x)
  <2>1. PositionOf(x) \in DOMAIN tasks /\ tasks[PositionOf(x)] = x
    BY <1>1 DEF InTasks, PositionOf
  <2> DEFINE k == PositionOf(x)
             u == SubSeq(tasks, 1, k - 1) \o SubSeq(tasks, k + 1, Len(tasks))
  <2>2. tasks \in Seq(Tasks) /\ \A i, j \in DOMAIN tasks : tasks[i] = tasks[j] => i = j
    BY DEF TypeOK, PlacesOK
  <2> HIDE DEF k
  <2>3. /\ u \in Seq(Tasks)
        /\ \A i, j \in DOMAIN u : u[i] = u[j] => i = j
        /\ \A i \in DOMAIN u : u[i] # tasks[k] /\ \E j \in DOMAIN tasks : u[i] = tasks[j]
        /\ \A j \in DOMAIN tasks : j # k => \E i \in DOMAIN u : u[i] = tasks[j]
    BY <2>1, <2>2, ErasingFacts DEF k
  <2>4. WithoutTask(x) = u /\ tasks[k] = x
    BY <1>1, <2>1 DEF WithoutTask, k
  <2> HIDE DEF u
  <2> QED BY <2>3, <2>4 DEF InTasks
<1>2. CASE ~InTasks(x)
  BY <1>2 DEF TypeOK, PlacesOK, WithoutTask, InTasks
<1> QED BY <1>1, <1>2

(* One more task waits, after the others. *)
LEMMA AppendFacts ==
  ASSUME NEW S, NEW s \in Seq(S), NEW x \in S,
         \A i, j \in DOMAIN s : s[i] = s[j] => i = j,
         \A i \in DOMAIN s : s[i] # x
  PROVE  /\ Append(s, x) \in Seq(S)
         /\ \A i, j \in DOMAIN Append(s, x) : Append(s, x)[i] = Append(s, x)[j] => i = j
         /\ \A i \in DOMAIN Append(s, x) :
              Append(s, x)[i] = x \/ \E j \in DOMAIN s : Append(s, x)[i] = s[j]
<1>1. Len(s) \in Nat /\ DOMAIN s = 1..Len(s)
  BY LenProperties
<1>2. /\ Append(s, x) \in Seq(S) /\ Len(Append(s, x)) = Len(s) + 1
      /\ \A i \in 1..Len(s) : Append(s, x)[i] = s[i]
      /\ Append(s, x)[Len(s) + 1] = x
  BY AppendProperties
<1>3. DOMAIN Append(s, x) = 1..(Len(s) + 1)
  BY <1>2, LenProperties
<1>4. \A i \in DOMAIN Append(s, x) : i \in DOMAIN s \/ i = Len(s) + 1
  BY <1>1, <1>3
<1> QED BY <1>1, <1>2, <1>4

(* The oldest of the waiting tasks goes. *)
LEMMA TailFacts ==
  ASSUME NEW S, NEW s \in Seq(S), s # <<>>,
         \A i, j \in DOMAIN s : s[i] = s[j] => i = j
  PROVE  /\ Tail(s) \in Seq(S) /\ Head(s) = s[1] /\ 1 \in DOMAIN s
         /\ \A i, j \in DOMAIN Tail(s) : Tail(s)[i] = Tail(s)[j] => i = j
         /\ \A i \in DOMAIN Tail(s) : Tail(s)[i] # Head(s) /\ \E j \in DOMAIN s : Tail(s)[i] = s[j]
         /\ \A j \in DOMAIN s : s[j] # Head(s) => \E i \in DOMAIN Tail(s) : Tail(s)[i] = s[j]
<1>1. Len(s) \in Nat /\ DOMAIN s = 1..Len(s) /\ Len(s) # 0
  BY LenProperties, EmptySeq
<1>2. /\ Tail(s) \in Seq(S) /\ Len(Tail(s)) = Len(s) - 1
      /\ \A i \in 1..(Len(s) - 1) : Tail(s)[i] = s[i + 1]
      /\ Head(s) = s[1]
  BY HeadTailProperties
<1>3. DOMAIN Tail(s) = 1..(Len(s) - 1)
  BY <1>2, LenProperties
<1>4. \A i \in DOMAIN Tail(s) : i + 1 \in DOMAIN s /\ i + 1 # 1 /\ Tail(s)[i] = s[i + 1]
  BY <1>1, <1>2, <1>3
<1>5. \A i, j \in DOMAIN Tail(s) : i + 1 = j + 1 => i = j
  BY <1>3
<1>6. \A j \in DOMAIN s : j # 1 => j - 1 \in DOMAIN Tail(s) /\ Tail(s)[j - 1] = s[j]
  BY <1>1, <1>2, <1>3
<1>7. \A j \in DOMAIN s : s[j] # Head(s) => \E i \in DOMAIN Tail(s) : Tail(s)[i] = s[j]
  BY <1>2, <1>6
<1> QED BY <1>1, <1>2, <1>4, <1>5, <1>7

----------------------------------------------------------------------------
(* Actions that leave tasks where they are, or move a few of them (M).     *)

Stays(x) ==
  /\ x \in taskQueue' => x \in taskQueue
  /\ x \in performing' => x \in performing
  /\ x \in results' => x \in results
  /\ InTasks(x)' => InTasks(x)
  /\ \A p \in Procs : Carries(p, x)' => Carries(p, x)
  /\ promise'[x] = "none" => promise[x] = "none"

(* Tasks of M come to one place, the others stay.                          *)
LEMMA PlacesKept ==
  ASSUME PlacesOK, ExecutedOK, NEW M,
         \A x \in M : AtOnePlace(x)' /\ promise'[x] # "none",
         \A x \in Tasks : x \notin M => Stays(x),
         (\A i, j \in DOMAIN tasks : tasks[i] = tasks[j] => i = j)'
  PROVE  PlacesOK' /\ ExecutedOK'
<1>1. ASSUME NEW x \in Tasks, x \notin M
      PROVE  AtOnePlace(x)'
  BY <1>1 DEF PlacesOK, AtOnePlace, Stays
<1>2. PlacesOK'
  BY <1>1 DEF PlacesOK
<1>3. ExecutedOK'
  BY DEF ExecutedOK, Stays
<1> QED BY <1>2, <1>3

(* One task comes to one place, the others stay.                           *)
LEMMA PlacesKeptBut ==
  ASSUME PlacesOK, ExecutedOK, NEW x,
         AtOnePlace(x)', promise'[x] # "none",
         \A y \in Tasks : y # x => Stays(y),
         (\A i, j \in DOMAIN tasks : tasks[i] = tasks[j] => i = j)'
  PROVE  PlacesOK' /\ ExecutedOK'
<1> DEFINE M == {x}
<1>1. \A y \in M : AtOnePlace(y)' /\ promise'[y] # "none"
  OBVIOUS
<1>2. \A y \in Tasks : y \notin M => Stays(y)
  OBVIOUS
<1> HIDE DEF M
<1> QED BY <1>1, <1>2, PlacesKept

(* All tasks stay where they are, or leave.                                *)
LEMMA PlacesShrink ==
  ASSUME PlacesOK, ExecutedOK, \A y \in Tasks : Stays(y),
         (\A i, j \in DOMAIN tasks : tasks[i] = tasks[j] => i = j)'
  PROVE  PlacesOK' /\ ExecutedOK'
<1> DEFINE M == {}
<1>1. \A y \in M : AtOnePlace(y)' /\ promise'[y] # "none"
  OBVIOUS
<1>2. \A y \in Tasks : y \notin M => Stays(y)
  OBVIOUS
<1> HIDE DEF M
<1> QED BY <1>1, <1>2, PlacesKept

(* The tasks that take up the capacity, one by one.                        *)
Flies(x) ==
  \/ x \in taskQueue \/ x \in performing \/ x \in results
  \/ \E p \in Procs : job[p].op \in {"enqueue", "unref", "trigger"} /\ job[p].task = x

(* The tasks in flight, one by one.                                        *)
LEMMA InFlightIs == \A x : x \in InFlight <=> Flies(x)
BY DEF InFlight, JobsOf, Flies

(* The same of the state after a step.                                     *)
LEMMA InFlightIsNext == \A x : x \in InFlight' <=> Flies(x)'
BY DEF InFlight, JobsOf, Flies

(* What is in flight is a task.                                            *)
LEMMA InFlightAreTasks ==
  ASSUME TypeOK, JobOK
  PROVE  InFlight \subseteq Tasks
<1>1. ASSUME NEW x, Flies(x)
      PROVE  x \in Tasks
  BY <1>1 DEF Flies, TypeOK, JobOK
<1> QED BY <1>1, InFlightIs

(* A step after which no more tasks are in flight keeps the counts right.  *)
LEMMA FlightKept ==
  ASSUME SequenceOK, CountOK, InFlight' \subseteq InFlight, runningCount \in Nat,
         config' = config, currentTaskId' = currentTaskId, runningCount' = runningCount,
         \A p \in Procs : job'[p].op = "start" => job[p].op = "start"
  PROVE  SequenceOK' /\ CountOK'
<1>1. SequenceOK'
  BY DEF SequenceOK, Sequential
<1>2. CountOK'
  <2>1. CASE Sequential
    BY <2>1 DEF CountOK, Sequential
  <2>2. CASE ~Sequential
    <3>1. /\ IsFiniteSet(InFlight) /\ Cardinality(InFlight) <= runningCount
          /\ runningCount <= config.runningCapacity
      BY <2>2 DEF CountOK
    <3>2. /\ IsFiniteSet(InFlight') /\ Cardinality(InFlight') <= Cardinality(InFlight)
          /\ Cardinality(InFlight) \in Nat /\ Cardinality(InFlight') \in Nat
      BY <3>1, FS_Subset, FS_CardinalityType
    <3>3. Cardinality(InFlight') <= runningCount
      BY <3>1, <3>2
    <3> QED BY <3>1, <3>2, <3>3 DEF CountOK, Sequential
  <2> QED BY <2>1, <2>2
<1> QED BY <1>1, <1>2

(* The other threads carry what they carried.                              *)
LEMMA CarriesElsewhere ==
  ASSUME TypeOK, NEW p \in Procs, NEW n \in Jobs, Then(p, n)
  PROVE  \A q \in Procs, x \in Tasks : q # p => (Carries(q, x)' <=> Carries(q, x))
BY ThenAt DEF Carries

(* Dropping a reference of the runner keeps the types.                     *)
LEMMA UnrefFacts ==
  ASSUME TypeOK, NEW left, Unref(left)
  PROVE  /\ refCount' \in Nat /\ alive' \in BOOLEAN
         /\ tasks' = left \/ tasks' = <<>>
BY DEF TypeOK, Unref, Less

(* A sequence runner that has no current task has none in flight.          *)
LEMMA NoneInFlight ==
  ASSUME TypeOK, JobOK, SequenceOK, Sequential, currentTaskId = None
  PROVE  InFlight = {}
BY InFlightAreTasks, RunnerConstants DEF SequenceOK

(* One task more or less in flight.                                        *)
LEMMA OneMore ==
  ASSUME NEW S, NEW T, NEW x, NEW n \in Nat, IsFiniteSet(S), Cardinality(S) <= n, T \subseteq S \cup {x}
  PROVE  IsFiniteSet(T) /\ Cardinality(T) <= n + 1
<1>1. /\ IsFiniteSet(S \cup {x}) /\ Cardinality(S) \in Nat
      /\ Cardinality(S \cup {x}) \in Nat /\ Cardinality(S \cup {x}) <= Cardinality(S) + 1
  BY FS_AddElement, FS_CardinalityType
<1>2. IsFiniteSet(T) /\ Cardinality(T) <= Cardinality(S \cup {x}) /\ Cardinality(T) \in Nat
  BY <1>1, FS_Subset, FS_CardinalityType
<1> QED BY <1>1, <1>2

(* A finite set that lost a member is smaller.                             *)
LEMMA OneLess ==
  ASSUME NEW S, NEW T, NEW x \in S, NEW n \in Nat, IsFiniteSet(S), Cardinality(S) <= n, T \subseteq S \ {x}
  PROVE  IsFiniteSet(T) /\ n > 0 /\ Cardinality(T) <= n - 1 /\ Cardinality(T) \in Nat
<1>1. /\ IsFiniteSet(S \ {x}) /\ Cardinality(S) \in Nat
      /\ Cardinality(S \ {x}) \in Nat /\ Cardinality(S \ {x}) = Cardinality(S) - 1
  BY FS_RemoveElement, FS_CardinalityType
<1>2. IsFiniteSet(T) /\ Cardinality(T) <= Cardinality(S \ {x}) /\ Cardinality(T) \in Nat
  BY <1>1, FS_Subset, FS_CardinalityType
<1> QED BY <1>1, <1>2

(* A thread that gets a proper job keeps JobOK.                            *)
LEMMA JobKept ==
  ASSUME TypeOK, JobOK, NEW p \in Procs, NEW n \in Jobs, Then(p, n), config' = config,
         n.op # "idle" => n.task \in Tasks,
         n.op = "start" => n.next \in Tasks /\ Sequential
  PROVE  JobOK'
BY ThenAt DEF JobOK, Sequential

(* So does a step that gives nobody a job.                                 *)
LEMMA JobUnchanged ==
  ASSUME JobOK, job' = job, config' = config
  PROVE  JobOK'
BY DEF JobOK, Sequential

----------------------------------------------------------------------------
(* execute *)

(* ExecuteSequence keeps the invariant.                                    *)
LEMMA ExecuteSequenceKeepsIInv ==
  ASSUME IInv, NEW t \in Threads, NEW x \in Tasks, ExecuteSequence(t, x)
  PROVE  IInv'
<1> USE DEF IInv
<1>1. /\ t \in Procs /\ job[t] = Idle /\ promise[x] = "none" /\ Sequential
      /\ \A p \in Procs : job[p].op # "start"
  BY DEF ExecuteSequence, Procs, Free, IsIdle, Executed, TaskMutexIsFree
<1>2. PICK n \in Jobs : /\ Then(t, n) /\ n.task = x
                        /\ \/ n.op = "enqueue" /\ currentTaskId = None /\ currentTaskId' = x
                           \/ n.op = "add" /\ currentTaskId' = currentTaskId
  BY JobFields DEF ExecuteSequence, JobOps
<1>3. /\ UNCHANGED <<config, alive, handles, tasks, runningCount, env, owner, taskState,
                     taskQueue, performing, results, cancelSignal, discardSignal>>
      /\ refCount' = refCount + 1 /\ promise' = [promise EXCEPT ![x] = "open"]
  BY DEF ExecuteSequence, placeVars
<1>4. /\ job' \in [Procs -> Jobs] /\ job'[t] = n
      /\ \A q \in Procs : q # t => job'[q] = job[q]
  BY <1>1, <1>2, ThenAt
<1>5. TypeOK'
  BY <1>2, <1>3, <1>4 DEF TypeOK
<1>6. JobOK'
  BY <1>1, <1>2, <1>3, JobKept
<1>7. PlacesOK' /\ ExecutedOK'
  <2>1. AtOnePlace(x)' /\ promise'[x] # "none"
    BY <1>1, <1>3, <1>4 DEF ExecutedOK, AtOnePlace, Carries, InTasks, TypeOK
  <2>2. ASSUME NEW y \in Tasks, y # x
        PROVE  Stays(y)
    BY <2>2, <1>2, <1>3, <1>4 DEF Stays, Carries, InTasks, TypeOK
  <2>3. (\A i, j \in DOMAIN tasks : tasks[i] = tasks[j] => i = j)'
    BY <1>3 DEF PlacesOK
  <2> QED BY <2>1, <2>2, <2>3, PlacesKeptBut
<1>8. SequenceOK' /\ CountOK'
  <2>1. \A p \in Procs : job'[p].op # "start"
    BY <1>1, <1>2, <1>4
  <2>2. InFlight' \subseteq {currentTaskId'}
    <3>1. CASE n.op = "enqueue"
      <4>1. InFlight = {}
        BY <3>1, <1>1, <1>2, NoneInFlight
      <4>2. \A y : Flies(y)' => y = x
        BY <4>1, <1>2, <1>3, <1>4, InFlightIs DEF Flies
      <4> QED BY <3>1, <1>2, <4>2, InFlightIsNext
    <3>2. CASE n.op = "add"
      <4>1. \A y : Flies(y)' => Flies(y)
        BY <3>2, <1>3, <1>4 DEF Flies
      <4> QED BY <3>2, <1>1, <1>2, <4>1, InFlightIs, InFlightIsNext DEF SequenceOK
    <3> QED BY <1>2, <3>1, <3>2
  <2> QED BY <1>1, <1>3, <2>1, <2>2 DEF SequenceOK, CountOK, Sequential
<1> QED BY <1>5, <1>6, <1>7, <1>8

(* AddTask keeps the invariant.                                            *)
LEMMA AddTaskKeepsIInv ==
  ASSUME IInv, NEW p \in Procs, AddTask(p)
  PROVE  IInv'
<1> USE DEF IInv
<1>1. PICK x \in Tasks :
      /\ job[p].task = x /\ job[p].op = "add" /\ Then(p, Idle) /\ tasks' = Append(tasks, x)
      /\ UNCHANGED <<config, alive, refCount, handles, currentTaskId, runningCount, env, owner, taskState,
                     promise, taskQueue, performing, results, cancelSignal, discardSignal>>
  BY DEF AddTask, Doing, JobOK, taskVars, placeVars
<1>2. Carries(p, x)
  BY <1>1 DEF Carries
<1>3. /\ job' \in [Procs -> Jobs] /\ job'[p] = Idle
      /\ \A q \in Procs : q # p => job'[q] = job[q]
  BY <1>1, IdleFields, ThenAt
<1>4. \A q \in Procs, y \in Tasks : Carries(q, y)' => Carries(q, y) /\ q # p
  BY <1>3, IdleFields DEF Carries
<1>5. /\ tasks' \in Seq(Tasks)
      /\ (\A i, j \in DOMAIN tasks : tasks[i] = tasks[j] => i = j)'
      /\ \A y : InTasks(y)' => InTasks(y) \/ y = x
  <2>1. ~InTasks(x)
    BY <1>1, <1>2 DEF PlacesOK, AtOnePlace
  <2> QED BY <2>1, <1>1, AppendFacts DEF PlacesOK, TypeOK, InTasks
<1>6. TypeOK'
  BY <1>1, <1>3, <1>5 DEF TypeOK
<1>7. JobOK'
  BY <1>1, IdleFields, JobKept
<1>8. PlacesOK' /\ ExecutedOK'
  <2>1. AtOnePlace(x)' /\ promise'[x] # "none"
    BY <1>1, <1>2, <1>4 DEF PlacesOK, ExecutedOK, AtOnePlace
  <2>2. ASSUME NEW y \in Tasks, y # x
        PROVE  Stays(y)
    BY <2>2, <1>1, <1>4, <1>5 DEF Stays
  <2> QED BY <2>1, <2>2, <1>5, PlacesKeptBut
<1>9. SequenceOK' /\ CountOK'
  <2>1. \A y : Flies(y)' => Flies(y)
    BY <1>1, <1>3, IdleFields DEF Flies
  <2>2. \A q \in Procs : job'[q].op = "start" => job[q].op = "start"
    BY <1>3, IdleFields
  <2> QED BY <2>1, <2>2, <1>1, InFlightIs, InFlightIsNext, FlightKept DEF TypeOK
<1> QED BY <1>6, <1>7, <1>8, <1>9

(* ExecuteAsync keeps the invariant.                                       *)
LEMMA ExecuteAsyncKeepsIInv ==
  ASSUME IInv, NEW t \in Threads, NEW x \in Tasks, ExecuteAsync(t, x)
  PROVE  IInv'
<1> USE DEF IInv
<1>1. /\ t \in Procs /\ job[t] = Idle /\ promise[x] = "none" /\ ~Sequential
      /\ UNCHANGED <<config, alive, handles, currentTaskId, env, owner,
                     taskQueue, performing, results, cancelSignal, discardSignal>>
      /\ refCount' = refCount + 1 /\ promise' = [promise EXCEPT ![x] = "open"]
  BY DEF ExecuteAsync, Procs, Free, IsIdle, Executed, placeVars
<1>2. /\ x \notin taskQueue \cup performing \cup results /\ ~InTasks(x)
      /\ \A p \in Procs : ~Carries(p, x)
  BY <1>1 DEF ExecutedOK
<1>3. tasks \in Seq(Tasks) /\ (\A i, j \in DOMAIN tasks : tasks[i] = tasks[j] => i = j)
  BY DEF TypeOK, PlacesOK
<1>4. CASE /\ HasRoom /\ runningCount' = runningCount + 1
           /\ Then(t, Job("enqueue", x)) /\ UNCHANGED <<tasks, taskState>>
  <2> DEFINE n == Job("enqueue", x)
  <2>1. n \in Jobs /\ n.op = "enqueue" /\ n.task = x
    BY JobFields DEF JobOps
  <2> HIDE DEF n
  <2>2. /\ job' \in [Procs -> Jobs] /\ job'[t] = n
        /\ \A q \in Procs : q # t => job'[q] = job[q]
    BY <1>1, <1>4, <2>1, ThenAt DEF n
  <2>3. TypeOK'
    BY <1>1, <1>4, <2>2 DEF TypeOK
  <2>4. JobOK'
    BY <1>1, <1>4, <2>1, JobKept DEF n
  <2>5. PlacesOK' /\ ExecutedOK'
    <3>1. \A q \in Procs : Carries(q, x)' => q = t
      BY <1>2, <2>2 DEF Carries
    <3>2. AtOnePlace(x)' /\ promise'[x] # "none"
      BY <1>1, <1>2, <1>4, <3>1 DEF AtOnePlace, InTasks, TypeOK
    <3>3. ASSUME NEW y \in Tasks, y # x
          PROVE  Stays(y)
      BY <3>3, <1>1, <1>4, <2>1, <2>2 DEF Stays, Carries, InTasks, TypeOK
    <3> QED BY <1>3, <1>4, <3>2, <3>3, PlacesKeptBut
  <2>6. SequenceOK' /\ CountOK'
    <3>1. \A y : Flies(y)' => Flies(y) \/ y = x
      BY <1>1, <2>1, <2>2 DEF Flies
    <3>2. InFlight' \subseteq InFlight \cup {x}
      BY <3>1, InFlightIs, InFlightIsNext
    <3>3. /\ IsFiniteSet(InFlight) /\ Cardinality(InFlight) <= runningCount
          /\ runningCount \in Nat
      BY <1>1 DEF CountOK, TypeOK
    <3>4. IsFiniteSet(InFlight') /\ Cardinality(InFlight') <= runningCount + 1
      BY <3>2, <3>3, OneMore
    <3>5. runningCount + 1 <= config.runningCapacity
      BY <1>4, <3>3, RunnerConstants DEF HasRoom, TypeOK, Config
    <3> QED BY <1>1, <1>4, <3>4, <3>5 DEF SequenceOK, CountOK, Sequential
  <2> QED BY <2>3, <2>4, <2>5, <2>6
<1>5. CASE /\ ~HasRoom /\ IsFull /\ tasks' = Append(Tail(tasks), x)
           /\ taskState' = [taskState EXCEPT ![Head(tasks)] = "canceled"]
           /\ Then(t, Job("discard", Head(tasks))) /\ UNCHANGED runningCount
  <2>1. tasks # <<>>
    BY <1>5, RunnerConstants DEF IsFull, TypeOK, Config
  <2>2. /\ Tail(tasks) \in Seq(Tasks) /\ Head(tasks) = tasks[1] /\ 1 \in DOMAIN tasks
        /\ \A i, j \in DOMAIN Tail(tasks) : Tail(tasks)[i] = Tail(tasks)[j] => i = j
        /\ \A i \in DOMAIN Tail(tasks) : Tail(tasks)[i] # Head(tasks) /\ \E j \in DOMAIN tasks : Tail(tasks)[i] = tasks[j]
    BY <1>3, <2>1, TailFacts
  <2>3. Head(tasks) \in Tasks
    BY <1>3, <2>2, ElementOfSeq, LenProperties
  <2> DEFINE n == Job("discard", Head(tasks))
  <2>4. n \in Jobs /\ n.op = "discard" /\ n.task = Head(tasks)
    BY <2>3, JobFields DEF JobOps
  <2> HIDE DEF n
  <2>5. /\ job' \in [Procs -> Jobs] /\ job'[t] = n
        /\ \A q \in Procs : q # t => job'[q] = job[q]
    BY <1>1, <1>5, <2>4, ThenAt DEF n
  <2>6. \A i \in DOMAIN Tail(tasks) : Tail(tasks)[i] # x
    BY <1>2, <2>2 DEF InTasks
  <2>7. /\ tasks' \in Seq(Tasks)
        /\ (\A i, j \in DOMAIN tasks : tasks[i] = tasks[j] => i = j)'
        /\ \A i \in DOMAIN tasks' : tasks'[i] = x \/ \E j \in DOMAIN Tail(tasks) : tasks'[i] = Tail(tasks)[j]
    BY <1>5, <2>2, <2>6, AppendFacts
  <2>8. \A y : InTasks(y)' => InTasks(y) \/ y = x
    BY <2>2, <2>7 DEF InTasks
  <2>9. TypeOK'
    BY <1>1, <1>5, <2>5, <2>7 DEF TypeOK
  <2>10. JobOK'
    BY <1>1, <1>5, <2>3, <2>4, JobKept DEF n
  <2>11. \A q \in Procs, y \in Tasks : Carries(q, y)' => Carries(q, y)
    BY <2>4, <2>5 DEF Carries
  <2>12. PlacesOK' /\ ExecutedOK'
    <3>1. AtOnePlace(x)' /\ promise'[x] # "none"
      BY <1>1, <1>2, <2>11 DEF AtOnePlace, TypeOK
    <3>2. ASSUME NEW y \in Tasks, y # x
          PROVE  Stays(y)
      BY <3>2, <1>1, <2>8, <2>11 DEF Stays, TypeOK
    <3> QED BY <2>7, <3>1, <3>2, PlacesKeptBut
  <2>13. SequenceOK' /\ CountOK'
    <3>1. \A y : Flies(y)' => Flies(y)
      BY <1>1, <2>4, <2>5 DEF Flies
    <3>2. \A q \in Procs : job'[q].op = "start" => job[q].op = "start"
      BY <2>4, <2>5
    <3> QED BY <3>1, <3>2, <1>1, <1>5, InFlightIs, InFlightIsNext, FlightKept DEF TypeOK
  <2> QED BY <2>9, <2>10, <2>12, <2>13
<1>6. CASE /\ ~HasRoom /\ ~IsFull /\ tasks' = Append(tasks, x)
           /\ UNCHANGED <<runningCount, taskState, job>>
  <2>1. /\ tasks' \in Seq(Tasks)
        /\ (\A i, j \in DOMAIN tasks : tasks[i] = tasks[j] => i = j)'
        /\ \A i \in DOMAIN tasks' : tasks'[i] = x \/ \E j \in DOMAIN tasks : tasks'[i] = tasks[j]
    BY <1>2, <1>3, <1>6, AppendFacts DEF InTasks
  <2>2. \A y : InTasks(y)' => InTasks(y) \/ y = x
    BY <2>1 DEF InTasks
  <2>3. TypeOK'
    BY <1>1, <1>6, <2>1 DEF TypeOK
  <2>4. JobOK'
    BY <1>1, <1>6, JobUnchanged
  <2>5. \A q \in Procs, y \in Tasks : Carries(q, y)' => Carries(q, y)
    BY <1>6 DEF Carries
  <2>6. PlacesOK' /\ ExecutedOK'
    <3>1. AtOnePlace(x)' /\ promise'[x] # "none"
      BY <1>1, <1>2, <2>5 DEF AtOnePlace, TypeOK
    <3>2. ASSUME NEW y \in Tasks, y # x
          PROVE  Stays(y)
      BY <3>2, <1>1, <2>2, <2>5 DEF Stays, TypeOK
    <3> QED BY <2>1, <3>1, <3>2, PlacesKeptBut
  <2>7. SequenceOK' /\ CountOK'
    <3>1. \A y : Flies(y)' => Flies(y)
      BY <1>1, <1>6 DEF Flies
    <3>2. \A q \in Procs : job'[q].op = "start" => job[q].op = "start"
      BY <1>6
    <3> QED BY <3>1, <3>2, <1>1, <1>6, InFlightIs, InFlightIsNext, FlightKept DEF TypeOK
  <2> QED BY <2>3, <2>4, <2>6, <2>7
<1> QED BY <1>4, <1>5, <1>6 DEF ExecuteAsync

(* A task that goes from one place in flight to the next.                  *)
LEMMA MoveKeepsIInv ==
  ASSUME IInv, NEW x \in Tasks, Flies(x), TypeOK', JobOK', AtOnePlace(x)',
         \A y \in Tasks : y # x => Stays(y),
         promise'[x] # "none",
         (\A i, j \in DOMAIN tasks : tasks[i] = tasks[j] => i = j)',
         \A y : Flies(y)' => Flies(y),
         config' = config, currentTaskId' = currentTaskId, runningCount' = runningCount,
         \A p \in Procs : job'[p].op = "start" => job[p].op = "start"
  PROVE  IInv'
<1>1. PlacesOK' /\ ExecutedOK'
  BY PlacesKeptBut DEF IInv
<1>2. SequenceOK' /\ CountOK'
  BY InFlightIs, InFlightIsNext, FlightKept DEF IInv, TypeOK
<1> QED BY <1>1, <1>2 DEF IInv

(* What an action may do to a runner that has been let go of.              *)
LEMMA ShrinkKeepsIInv ==
  ASSUME IInv, TypeOK', JobOK',
         \A y \in Tasks : Stays(y),
         (\A i, j \in DOMAIN tasks : tasks[i] = tasks[j] => i = j)',
         \A y : Flies(y)' => Flies(y),
         config' = config, currentTaskId' = currentTaskId, runningCount' = runningCount,
         \A p \in Procs : job'[p].op = "start" => job[p].op = "start"
  PROVE  IInv'
<1>1. PlacesOK' /\ ExecutedOK'
  BY PlacesShrink DEF IInv
<1>2. SequenceOK' /\ CountOK'
  BY InFlightIs, InFlightIsNext, FlightKept DEF IInv, TypeOK
<1> QED BY <1>1, <1>2 DEF IInv

(* EnqueueTaskId keeps the invariant.                                      *)
LEMMA EnqueueTaskIdKeepsIInv ==
  ASSUME IInv, NEW p \in Procs, EnqueueTaskId(p)
  PROVE  IInv'
<1> USE DEF IInv
<1>1. PICK x \in Tasks :
      /\ job[p].task = x /\ job[p].op = "enqueue" /\ Then(p, Idle) /\ taskQueue' = taskQueue \cup {x}
      /\ taskState' = [taskState EXCEPT ![x] = IF @ = "notFound" THEN "waiting" ELSE @]
      /\ UNCHANGED <<config, alive, refCount, handles, tasks, currentTaskId, runningCount, env, owner,
                     promise, performing, results, cancelSignal, discardSignal>>
  BY DEF EnqueueTaskId, Doing, JobOK, runnerVars
<1>2. Carries(p, x) /\ Flies(x) /\ promise[x] # "none"
  BY <1>1 DEF Carries, Flies, ExecutedOK
<1>3. /\ job' \in [Procs -> Jobs] /\ job'[p] = Idle
      /\ \A q \in Procs : q # p => job'[q] = job[q]
  BY <1>1, IdleFields, ThenAt
<1>4. \A q \in Procs, y \in Tasks : Carries(q, y)' => Carries(q, y) /\ q # p
  BY <1>3, IdleFields DEF Carries
<1>5. TypeOK'
  BY <1>1, <1>3 DEF TypeOK
<1>6. JobOK'
  BY <1>1, IdleFields, JobKept
<1>7. AtOnePlace(x)'
  BY <1>1, <1>2, <1>4 DEF PlacesOK, AtOnePlace, InTasks
<1>8. ASSUME NEW y \in Tasks, y # x
      PROVE  Stays(y)
  BY <1>8, <1>1, <1>4 DEF Stays, InTasks
<1>9. \A y : Flies(y)' => Flies(y)
  BY <1>1, <1>2, <1>3, IdleFields DEF Flies
<1>10. (\A i, j \in DOMAIN tasks : tasks[i] = tasks[j] => i = j)'
  BY <1>1 DEF PlacesOK
<1>11. \A q \in Procs : job'[q].op = "start" => job[q].op = "start"
  BY <1>3, IdleFields
<1> QED BY <1>1, <1>2, <1>5, <1>6, <1>7, <1>8, <1>9, <1>10, <1>11, MoveKeepsIInv

(* RejectError keeps the invariant.                                        *)
LEMMA RejectErrorKeepsIInv ==
  ASSUME IInv, NEW p \in Procs, RejectError(p)
  PROVE  IInv'
<1> USE DEF IInv
<1>1. /\ job[p].op = "discard" /\ job[p].task \in Tasks /\ Then(p, Idle)
      /\ UNCHANGED <<config, handles, currentTaskId, runningCount, env, owner, taskState, promise,
                     taskQueue, performing, results, cancelSignal>>
      /\ discardSignal' \subseteq Tasks
      /\ refCount' \in Nat /\ alive' \in BOOLEAN
      /\ tasks' = tasks \/ tasks' = <<>>
  BY UnrefFacts DEF RejectError, Doing, JobOK, taskVars, TypeOK
<1>2. /\ job' \in [Procs -> Jobs] /\ job'[p] = Idle
      /\ \A q \in Procs : q # p => job'[q] = job[q]
  BY <1>1, IdleFields, ThenAt
<1>3. TypeOK'
  BY <1>1, <1>2, EmptySeq DEF TypeOK
<1>4. JobOK'
  BY <1>1, IdleFields, JobKept
<1>5. /\ \A y : InTasks(y)' => InTasks(y)
      /\ (\A i, j \in DOMAIN tasks : tasks[i] = tasks[j] => i = j)'
  BY <1>1 DEF InTasks, PlacesOK
<1>6. \A y \in Tasks : Stays(y)
  BY <1>1, <1>2, <1>5, IdleFields DEF Stays, Carries
<1>7. \A y : Flies(y)' => Flies(y)
  BY <1>1, <1>2, IdleFields DEF Flies
<1>8. \A q \in Procs : job'[q].op = "start" => job[q].op = "start"
  BY <1>2, IdleFields
<1> QED BY <1>1, <1>3, <1>4, <1>5, <1>6, <1>7, <1>8, ShrinkKeepsIInv

----------------------------------------------------------------------------
(* The workers. *)

(* ShouldDeleteTask takes a task out of flight, or carries it to UnrefRunner. *)
LEMMA DropTaskKeepsIInv ==
  ASSUME IInv, NEW w \in Procs, NEW x \in Tasks, job[w] = Idle, DropTask(w, x),
         x \in taskQueue \/ x \in performing,
         x \notin taskQueue' \cup performing' \cup results',
         taskQueue' \subseteq taskQueue, performing' \subseteq performing,
         UNCHANGED <<config, alive, refCount, handles, tasks, currentTaskId, env, owner, taskState, promise,
                     results, cancelSignal, discardSignal>>
  PROVE  IInv'
<1> USE DEF IInv
<1>1. /\ ~InTasks(x) /\ \A p \in Procs : ~Carries(p, x)
  BY DEF PlacesOK, AtOnePlace
<1>2. Flies(x) /\ promise[x] # "none"
  BY DEF Flies, ExecutedOK
<1>3. (\A i, j \in DOMAIN tasks : tasks[i] = tasks[j] => i = j)'
  BY DEF PlacesOK
<1>4. CASE Sequential /\ Then(w, Job("unref", x)) /\ UNCHANGED runningCount
  <2> DEFINE n == Job("unref", x)
  <2>1. n \in Jobs /\ n.op = "unref" /\ n.task = x
    BY JobFields DEF JobOps
  <2> HIDE DEF n
  <2>2. /\ job' \in [Procs -> Jobs] /\ job'[w] = n
        /\ \A q \in Procs : q # w => job'[q] = job[q]
    BY <1>4, <2>1, ThenAt DEF n
  <2>3. TypeOK'
    BY <1>4, <2>2 DEF TypeOK
  <2>4. JobOK'
    BY <1>4, <2>1, JobKept DEF n
  <2>5. \A q \in Procs : Carries(q, x)' => q = w
    BY <1>1, <2>2 DEF Carries
  <2>6. AtOnePlace(x)'
    BY <1>1, <2>5 DEF AtOnePlace, InTasks
  <2>7. ASSUME NEW y \in Tasks, y # x
        PROVE  Stays(y)
    BY <2>7, <2>1, <2>2 DEF Stays, Carries, InTasks
  <2>8. \A y : Flies(y)' => Flies(y)
    BY <1>2, <2>1, <2>2 DEF Flies
  <2>9. \A q \in Procs : job'[q].op = "start" => job[q].op = "start"
    BY <2>1, <2>2
  <2> QED BY <1>2, <1>3, <1>4, <2>3, <2>4, <2>6, <2>7, <2>8, <2>9, MoveKeepsIInv
<1>5. CASE /\ ~Sequential /\ UNCHANGED job
           /\ runningCount' = IF alive THEN Less(runningCount) ELSE runningCount
  <2>1. /\ IsFiniteSet(InFlight) /\ Cardinality(InFlight) <= runningCount
        /\ runningCount <= config.runningCapacity /\ runningCount \in Nat
        /\ config.runningCapacity \in Nat
    BY <1>5, RunnerConstants DEF CountOK, TypeOK, Config
  <2>2. InFlight' \subseteq InFlight \ {x}
    <3>1. \A y : Flies(y)' => Flies(y) /\ y # x
      BY <1>1, <1>5 DEF Flies, Carries
    <3> QED BY <3>1, InFlightIs, InFlightIsNext
  <2>3. IsFiniteSet(InFlight') /\ runningCount > 0
        /\ Cardinality(InFlight') <= runningCount - 1 /\ Cardinality(InFlight') \in Nat
    BY <1>2, <2>1, <2>2, OneLess, InFlightIs
  <2>4. /\ runningCount' \in Nat /\ Cardinality(InFlight') <= runningCount'
        /\ runningCount' <= config.runningCapacity
    BY <1>5, <2>1, <2>3 DEF Less
  <2>5. TypeOK'
    BY <1>5, <2>4 DEF TypeOK
  <2>6. JobOK'
    BY <1>5, JobUnchanged
  <2>7. \A y \in Tasks : Stays(y)
    BY <1>5 DEF Stays, Carries, InTasks
  <2>8. PlacesOK' /\ ExecutedOK'
    BY <1>3, <2>7, PlacesShrink
  <2>9. SequenceOK' /\ CountOK'
    BY <1>5, <2>3, <2>4 DEF SequenceOK, CountOK, Sequential
  <2> QED BY <2>5, <2>6, <2>8, <2>9
<1> QED BY <1>4, <1>5 DEF DropTask

(* PerformTask keeps the invariant.                                        *)
LEMMA PerformTaskKeepsIInv ==
  ASSUME IInv, NEW w \in Workers, NEW x \in Tasks, PerformTask(w, x)
  PROVE  IInv'
<1> USE DEF IInv
<1>1. /\ w \in Procs /\ job[w] = Idle /\ x \in taskQueue /\ taskQueue' = taskQueue \ {x}
      /\ UNCHANGED <<config, alive, refCount, handles, tasks, currentTaskId, env, owner, promise,
                     results, cancelSignal, discardSignal>>
  BY DEF PerformTask, Procs, IsIdle
<1>2. /\ x \notin performing \cup results /\ ~InTasks(x) /\ \A p \in Procs : ~Carries(p, x)
  BY <1>1 DEF PlacesOK, AtOnePlace
<1>3. CASE UpdateTask(x) /\ UNCHANGED <<runningCount, job>>
  <2>1. /\ performing' = performing \cup {x}
        /\ taskState' = [taskState EXCEPT ![x] = IF @ = "canceled" THEN @ ELSE "running"]
    BY <1>3 DEF UpdateTask
  <2>2. TypeOK'
    BY <1>1, <1>3, <2>1 DEF TypeOK
  <2>3. JobOK'
    BY <1>1, <1>3, JobUnchanged
  <2>4. AtOnePlace(x)'
    BY <1>1, <1>2, <1>3, <2>1 DEF AtOnePlace, Carries, InTasks
  <2>5. ASSUME NEW y \in Tasks, y # x
        PROVE  Stays(y)
    BY <2>5, <1>1, <1>3, <2>1 DEF Stays, Carries, InTasks
  <2>6. \A y : Flies(y)' => Flies(y)
    BY <1>1, <1>3, <2>1 DEF Flies
  <2>7. Flies(x) /\ promise'[x] # "none"
    BY <1>1 DEF Flies, ExecutedOK
  <2>8. (\A i, j \in DOMAIN tasks : tasks[i] = tasks[j] => i = j)'
    BY <1>1 DEF PlacesOK
  <2>9. \A q \in Procs : job'[q].op = "start" => job[q].op = "start"
    BY <1>3
  <2> QED BY <1>1, <1>3, <2>2, <2>3, <2>4, <2>5, <2>6, <2>7, <2>8, <2>9, MoveKeepsIInv
<1>4. CASE DropTask(w, x) /\ UNCHANGED <<performing, taskState>>
  BY <1>1, <1>2, <1>4, DropTaskKeepsIInv
<1> QED BY <1>3, <1>4 DEF PerformTask

(* NotifyTaskResult keeps the invariant.                                   *)
LEMMA NotifyTaskResultKeepsIInv ==
  ASSUME IInv, NEW w \in Workers, NEW x \in Tasks, NotifyTaskResult(w, x)
  PROVE  IInv'
<1> USE DEF IInv
<1>1. /\ w \in Procs /\ job[w] = Idle /\ x \in performing /\ performing' = performing \ {x}
      /\ UNCHANGED <<config, alive, refCount, handles, tasks, currentTaskId, env, owner, taskState, promise,
                     taskQueue, cancelSignal, discardSignal>>
  BY DEF NotifyTaskResult, Procs, IsIdle, taskVars
<1>2. /\ x \notin taskQueue \cup results /\ ~InTasks(x) /\ \A p \in Procs : ~Carries(p, x)
  BY <1>1 DEF PlacesOK, AtOnePlace
<1>3. CASE results' = results \cup {x} /\ UNCHANGED <<runningCount, job>>
  <2>1. TypeOK'
    BY <1>1, <1>3 DEF TypeOK
  <2>2. JobOK'
    BY <1>1, <1>3, JobUnchanged
  <2>3. AtOnePlace(x)'
    BY <1>1, <1>2, <1>3 DEF AtOnePlace, Carries, InTasks
  <2>4. ASSUME NEW y \in Tasks, y # x
        PROVE  Stays(y)
    BY <2>4, <1>1, <1>3 DEF Stays, Carries, InTasks
  <2>5. \A y : Flies(y)' => Flies(y)
    BY <1>1, <1>3 DEF Flies
  <2>6. Flies(x) /\ promise'[x] # "none"
    BY <1>1 DEF Flies, ExecutedOK
  <2>7. (\A i, j \in DOMAIN tasks : tasks[i] = tasks[j] => i = j)'
    BY <1>1 DEF PlacesOK
  <2>8. \A q \in Procs : job'[q].op = "start" => job[q].op = "start"
    BY <1>3
  <2> QED BY <1>1, <1>3, <2>1, <2>2, <2>3, <2>4, <2>5, <2>6, <2>7, <2>8, MoveKeepsIInv
<1>4. CASE DropTask(w, x) /\ UNCHANGED results
  BY <1>1, <1>2, <1>4, DropTaskKeepsIInv
<1> QED BY <1>3, <1>4 DEF NotifyTaskResult

----------------------------------------------------------------------------
(* The end of a task. *)

(* A step that changes nothing but promises, states of tasks and messages. *)
LEMMA MessageKeepsIInv ==
  ASSUME IInv, TypeOK',
         \A x \in Tasks : promise'[x] = "none" => promise[x] = "none",
         UNCHANGED <<config, tasks, currentTaskId, runningCount, taskQueue, performing, job>>,
         results' \subseteq results
  PROVE  IInv'
<1>1. JobOK'
  BY JobUnchanged DEF IInv
<1>2. \A y \in Tasks : Stays(y)
  BY DEF Stays, Carries, InTasks
<1>3. \A y : Flies(y)' => Flies(y)
  BY DEF Flies
<1>4. (\A i, j \in DOMAIN tasks : tasks[i] = tasks[j] => i = j)'
  BY DEF IInv, PlacesOK
<1>5. \A q \in Procs : job'[q].op = "start" => job[q].op = "start"
  OBVIOUS
<1> QED BY <1>1, <1>2, <1>3, <1>4, <1>5, ShrinkKeepsIInv

(* Settling a promise keeps the types.                                     *)
LEMMA SettleFacts ==
  ASSUME TypeOK, NEW x \in Tasks, Settle(x)
  PROVE  /\ promise' \in [Tasks -> {"none", "open", "settled", "settledTwice"}]
         /\ \A y \in Tasks : promise'[y] = "none" => promise[y] = "none"
BY DEF TypeOK, Settle

(* HandleTaskResult keeps the invariant.                                   *)
LEMMA HandleTaskResultKeepsIInv ==
  ASSUME IInv, NEW t \in Threads, NEW x \in Tasks, HandleTaskResult(t, x)
  PROVE  IInv'
<1> USE DEF IInv
<1> DEFINE n == Job("unref", x)
<1>1. /\ t \in Procs /\ job[t] = Idle /\ x \in results /\ results' = results \ {x} /\ Then(t, n)
      /\ taskState' = [taskState EXCEPT ![x] = "finished"]
      /\ UNCHANGED <<config, alive, refCount, handles, tasks, currentTaskId, runningCount, env, owner,
                     taskQueue, performing, cancelSignal, discardSignal>>
  BY DEF HandleTaskResult, Procs, Free, IsIdle, runnerVars
<1>2. /\ promise' \in [Tasks -> {"none", "open", "settled", "settledTwice"}]
      /\ \A y \in Tasks : promise'[y] = "none" => promise[y] = "none"
  BY SettleFacts DEF HandleTaskResult
<1>3. /\ x \notin taskQueue \cup performing /\ ~InTasks(x) /\ \A p \in Procs : ~Carries(p, x)
  BY <1>1 DEF PlacesOK, AtOnePlace
<1>4. n \in Jobs /\ n.op = "unref" /\ n.task = x
  BY JobFields DEF JobOps
<1> HIDE DEF n
<1>5. /\ job' \in [Procs -> Jobs] /\ job'[t] = n
      /\ \A q \in Procs : q # t => job'[q] = job[q]
  BY <1>1, <1>4, ThenAt
<1>6. TypeOK'
  BY <1>1, <1>2, <1>5 DEF TypeOK
<1>7. JobOK'
  BY <1>1, <1>4, JobKept
<1>8. \A q \in Procs : Carries(q, x)' => q = t
  BY <1>3, <1>5 DEF Carries
<1>9. AtOnePlace(x)'
  BY <1>1, <1>3, <1>8 DEF AtOnePlace, InTasks
<1>10. ASSUME NEW y \in Tasks, y # x
       PROVE  Stays(y)
  BY <1>10, <1>1, <1>2, <1>4, <1>5 DEF Stays, Carries, InTasks
<1>11. \A y : Flies(y)' => Flies(y)
  BY <1>1, <1>4, <1>5 DEF Flies
<1>12. Flies(x) /\ promise'[x] # "none"
  BY <1>1, <1>2 DEF Flies, ExecutedOK
<1>13. (\A i, j \in DOMAIN tasks : tasks[i] = tasks[j] => i = j)'
  BY <1>1 DEF PlacesOK
<1>14. \A q \in Procs : job'[q].op = "start" => job[q].op = "start"
  BY <1>4, <1>5
<1> QED BY <1>1, <1>6, <1>7, <1>9, <1>10, <1>11, <1>12, <1>13, <1>14, MoveKeepsIInv

(* What a thread does after it has triggered the next task.                *)
LEMMA AfterTriggerFacts ==
  ASSUME TypeOK, NEW p \in Procs, job[p].task \in Tasks
  PROVE  /\ AfterTrigger(p) \in Jobs /\ AfterTrigger(p).op \in {"idle", "remove"}
         /\ AfterTrigger(p).op # "idle" => AfterTrigger(p).task \in Tasks
BY JobFields, IdleFields DEF AfterTrigger, JobOps

(* UnrefRunner keeps the invariant.                                        *)
LEMMA UnrefRunnerKeepsIInv ==
  ASSUME IInv, NEW p \in Procs, UnrefRunner(p)
  PROVE  IInv'
<1> USE DEF IInv
<1> DEFINE n == IF alive' THEN [job[p] EXCEPT !.op = "trigger"] ELSE AfterTrigger(p)
<1>1. /\ job[p].op = "unref" /\ job[p].task \in Tasks /\ job[p] \in Jobs /\ Then(p, n)
      /\ UNCHANGED <<config, handles, currentTaskId, runningCount, env, owner, taskState, promise,
                     taskQueue, performing, results, cancelSignal, discardSignal>>
  BY DEF UnrefRunner, Doing, JobOK, TypeOK, taskVars, placeVars
<1>2. /\ refCount' \in Nat /\ alive' \in BOOLEAN /\ (tasks' = tasks \/ tasks' = <<>>)
  BY UnrefFacts DEF UnrefRunner
<1>3. /\ n \in Jobs /\ n.op \in {"trigger", "idle", "remove"}
      /\ n.op # "idle" => n.task \in Tasks
      /\ n.op = "trigger" => n.task = job[p].task
  <2>1. CASE alive'
    BY <2>1, <1>1 DEF Jobs
  <2>2. CASE ~alive'
    BY <2>2, <1>1, AfterTriggerFacts
  <2> QED BY <2>1, <2>2
<1> HIDE DEF n
<1>4. /\ job' \in [Procs -> Jobs] /\ job'[p] = n
      /\ \A q \in Procs : q # p => job'[q] = job[q]
  BY <1>1, <1>3, ThenAt
<1>5. TypeOK'
  BY <1>1, <1>2, <1>4, EmptySeq DEF TypeOK
<1>6. JobOK'
  BY <1>1, <1>3, JobKept
<1>7. /\ \A y : InTasks(y)' => InTasks(y)
      /\ (\A i, j \in DOMAIN tasks : tasks[i] = tasks[j] => i = j)'
  BY <1>2 DEF InTasks, PlacesOK
<1>8. \A y \in Tasks : Stays(y)
  BY <1>1, <1>3, <1>4, <1>7 DEF Stays, Carries
<1>9. \A y : Flies(y)' => Flies(y)
  BY <1>1, <1>3, <1>4 DEF Flies
<1>10. \A q \in Procs : job'[q].op = "start" => job[q].op = "start"
  BY <1>3, <1>4
<1> QED BY <1>1, <1>5, <1>6, <1>7, <1>8, <1>9, <1>10, ShrinkKeepsIInv

(* The cancelled tasks at the front are finitely many tasks.               *)
LEMMA FrontCanceledFacts ==
  ASSUME TypeOK
  PROVE  /\ Cardinality(FrontCanceled) \in Nat
         /\ CountedOut(Cardinality(FrontCanceled)) \in Nat
         /\ {tasks[i] : i \in FrontCanceled} \subseteq Tasks
<1>1. tasks \in Seq(Tasks) /\ DOMAIN tasks = 1..Len(tasks) /\ Len(tasks) \in Nat
  BY LenProperties DEF TypeOK
<1>2. FrontCanceled \subseteq 1..Len(tasks)
  BY <1>1 DEF FrontCanceled
<1>3. IsFiniteSet(1..Len(tasks))
  BY <1>1, FS_Interval
<1>4. Cardinality(FrontCanceled) \in Nat
  BY <1>2, <1>3, FS_Subset, FS_CardinalityType
<1>5. CountedOut(Cardinality(FrontCanceled)) \in Nat
  BY <1>4 DEF TypeOK, CountedOut
<1>6. {tasks[i] : i \in FrontCanceled} \subseteq Tasks
  BY <1>1, <1>2, ElementOfSeq
<1> QED BY <1>4, <1>5, <1>6

(* TriggerTask keeps the invariant.                                        *)
LEMMA TriggerTaskKeepsIInv ==
  ASSUME IInv, NEW p \in Procs, TriggerTask(p)
  PROVE  IInv'
<1> USE DEF IInv
<1> DEFINE n == Cardinality(FrontCanceled)
<1>1. /\ job[p].op = "trigger" /\ job[p].task \in Tasks /\ Sequential
      /\ \A q \in Procs : job[q].op # "start"
      /\ UNCHANGED <<config, alive, handles, runningCount, env, owner, taskState, promise,
                     taskQueue, performing, results, discardSignal>>
  BY DEF TriggerTask, Doing, JobOK, TaskMutexIsFree, taskVars
<1>2. /\ n \in Nat /\ CountedOut(n) \in Nat
      /\ {tasks[i] : i \in FrontCanceled} \subseteq Tasks
  BY FrontCanceledFacts
<1>3. tasks \in Seq(Tasks) /\ DOMAIN tasks = 1..Len(tasks) /\ Len(tasks) \in Nat
  BY LenProperties DEF TypeOK
<1>4. PICK x \in Tasks : x = job[p].task /\ Carries(p, x)
  BY <1>1 DEF Carries
<1>5. /\ x \notin taskQueue \cup performing \cup results /\ \A q \in Procs : Carries(q, x) => q = p
  BY <1>4 DEF PlacesOK, AtOnePlace
<1>6. InFlight \subseteq {x}
  <2>1. Flies(x)
    BY <1>1, <1>4 DEF Flies
  <2> QED BY <2>1, <1>1, InFlightIs DEF SequenceOK
<1>7. ASSUME NEW m \in Jobs, Then(p, m), m.op \in {"idle", "start"}
      PROVE  InFlight' = {}
  <2>1. /\ job'[p] = m /\ \A q \in Procs : q # p => job'[q] = job[q]
    BY <1>7, ThenAt
  <2>2. \A y : Flies(y)' => Flies(y)
    BY <1>1, <1>7, <2>1 DEF Flies
  <2>3. ~Flies(x)'
    BY <1>1, <1>4, <1>5, <1>7, <2>1 DEF Flies, Carries
  <2> QED BY <1>6, <2>2, <2>3, InFlightIs, InFlightIsNext
<1>8. (refCount' = CountedOut(n) \/ refCount' = refCount) /\ cancelSignal' \subseteq Tasks
  <2>1. CASE cancelSignal' = cancelSignal \cup {y \in {tasks[i] : i \in FrontCanceled} : IsValid(y)}
    BY <2>1, <1>2 DEF TriggerTask, TypeOK
  <2>2. CASE UNCHANGED <<cancelSignal, refCount>>
    BY <2>2 DEF TypeOK
  <2> QED BY <2>1, <2>2 DEF TriggerTask
<1>9. CASE Then(p, Idle) /\ \/ tasks' = <<>> /\ currentTaskId' = None
                            \/ UNCHANGED <<tasks, currentTaskId>>
  <2>1. /\ job' \in [Procs -> Jobs] /\ job'[p] = Idle
        /\ \A q \in Procs : q # p => job'[q] = job[q]
    BY <1>9, IdleFields, ThenAt
  <2>2. TypeOK'
    BY <1>1, <1>2, <1>8, <1>9, <2>1, EmptySeq DEF TypeOK
  <2>3. JobOK'
    BY <1>1, <1>9, IdleFields, JobKept
  <2>4. /\ \A y : InTasks(y)' => InTasks(y)
        /\ (\A i, j \in DOMAIN tasks : tasks[i] = tasks[j] => i = j)'
    BY <1>9 DEF InTasks, PlacesOK
  <2>5. \A y \in Tasks : Stays(y)
    BY <1>1, <2>1, <2>4, IdleFields DEF Stays, Carries
  <2>6. PlacesOK' /\ ExecutedOK'
    BY <2>4, <2>5, PlacesShrink
  <2>7. InFlight' = {}
    BY <1>7, <1>9, IdleFields
  <2>8. \A q \in Procs : job'[q].op # "start"
    BY <1>1, <2>1, IdleFields
  <2>9. SequenceOK' /\ CountOK'
    BY <1>1, <2>7, <2>8 DEF SequenceOK, CountOK, Sequential
  <2> QED BY <2>2, <2>3, <2>6, <2>9
<1>10. CASE /\ n < Len(tasks) /\ tasks' = SubSeq(tasks, n + 2, Len(tasks))
            /\ Then(p, [Job("start", job[p].task) EXCEPT !.next = tasks[n + 1]])
            /\ UNCHANGED currentTaskId
  <2>1. n + 1 \in DOMAIN tasks /\ n + 2 \in 1..(Len(tasks) + 1)
    BY <1>2, <1>3, <1>10
  <2>2. PICK z \in Tasks : z = tasks[n + 1] /\ InTasks(z)
    BY <1>3, <2>1, ElementOfSeq DEF InTasks
  <2>3. /\ z \notin taskQueue \cup performing \cup results /\ promise[z] # "none"
        /\ \A q \in Procs : ~Carries(q, z)
    BY <2>2 DEF PlacesOK, AtOnePlace, ExecutedOK
  <2> DEFINE m == [Job("start", job[p].task) EXCEPT !.next = tasks[n + 1]]
  <2>4. m \in Jobs /\ m.op = "start" /\ m.task \in Tasks /\ m.next = z
    BY <1>1, <2>2 DEF Job, Jobs, Idle
  <2>5. Then(p, m)
    BY <1>10
  <2> HIDE DEF m
  <2>6. /\ job' \in [Procs -> Jobs] /\ job'[p] = m
        /\ \A q \in Procs : q # p => job'[q] = job[q]
    BY <2>4, <2>5, ThenAt
  <2>7. /\ tasks' \in Seq(Tasks)
        /\ \A i \in DOMAIN tasks' : n + 2 + i - 1 \in DOMAIN tasks /\ tasks'[i] = tasks[n + 2 + i - 1]
        /\ DOMAIN tasks' = 1..(Len(tasks) - (n + 2) + 1)
    <3> DEFINE k == n + 2
    <3>1. k \in 1..(Len(tasks) + 1) /\ tasks' = SubSeq(tasks, k, Len(tasks))
      BY <1>10, <2>1
    <3> HIDE DEF k
    <3>2. /\ tasks' \in Seq(Tasks) /\ DOMAIN tasks' = 1..(Len(tasks) - k + 1)
          /\ \A i \in DOMAIN tasks' : k + i - 1 \in DOMAIN tasks /\ tasks'[i] = tasks[k + i - 1]
      BY <1>3, <3>1, SuffixFacts
    <3> QED BY <3>2 DEF k
  <2>8. (\A i, j \in DOMAIN tasks : tasks[i] = tasks[j] => i = j)'
    <3>1. \A i, j \in DOMAIN tasks' : n + 2 + i - 1 = n + 2 + j - 1 => i = j
      BY <1>2, <1>3, <2>7
    <3> QED BY <2>7, <3>1 DEF PlacesOK
  <2>9. \A y : InTasks(y)' => InTasks(y)
    BY <2>7 DEF InTasks
  <2>10. ~InTasks(z)'
    <3>1. \A i \in DOMAIN tasks' : n + 2 + i - 1 # n + 1
      BY <1>2, <1>3, <2>7
    <3>2. \A i \in DOMAIN tasks' : tasks[n + 2 + i - 1] # tasks[n + 1]
      BY <2>1, <2>7, <3>1 DEF PlacesOK
    <3> QED BY <2>2, <2>7, <3>2 DEF InTasks
  <2>11. TypeOK'
    BY <1>1, <1>2, <1>8, <1>10, <2>6, <2>7 DEF TypeOK
  <2>12. JobOK'
    BY <1>1, <2>2, <2>4, <2>5, JobKept
  <2>13. PlacesOK' /\ ExecutedOK'
    <3>1. \A q \in Procs : Carries(q, z)' => q = p
      BY <2>3, <2>6 DEF Carries
    <3>2. AtOnePlace(z)' /\ promise'[z] # "none"
      BY <1>1, <2>3, <2>10, <3>1 DEF AtOnePlace
    <3>3. ASSUME NEW y \in Tasks, y # z
          PROVE  Stays(y)
      BY <3>3, <1>1, <2>4, <2>6, <2>9 DEF Stays, Carries
    <3> QED BY <2>8, <3>2, <3>3, PlacesKeptBut
  <2>14. InFlight' = {}
    BY <1>7, <2>4, <2>5
  <2>15. \A q \in Procs : job'[q].op = "start" => q = p
    BY <1>1, <2>6
  <2>16. SequenceOK' /\ CountOK'
    BY <1>1, <2>14, <2>15 DEF SequenceOK, CountOK, Sequential
  <2> QED BY <2>11, <2>12, <2>13, <2>16
<1> QED BY <1>9, <1>10 DEF TriggerTask

(* StartNext keeps the invariant.                                          *)
LEMMA StartNextKeepsIInv ==
  ASSUME IInv, NEW p \in Procs, StartNext(p)
  PROVE  IInv'
<1> USE DEF IInv
<1>1. PICK x \in Tasks :
      /\ job[p].next = x /\ job[p].op = "start" /\ Then(p, Idle) /\ taskQueue' = taskQueue \cup {x}
      /\ currentTaskId' = x /\ taskState' = [taskState EXCEPT ![x] = "waiting"] /\ Sequential
      /\ UNCHANGED <<config, alive, refCount, handles, tasks, runningCount, env, owner, promise,
                     performing, results, cancelSignal, discardSignal>>
  BY DEF StartNext, Doing, JobOK
<1>2. Carries(p, x)
  BY <1>1 DEF Carries
<1>3. /\ job' \in [Procs -> Jobs] /\ job'[p] = Idle
      /\ \A q \in Procs : q # p => job'[q] = job[q]
  BY <1>1, IdleFields, ThenAt
<1>4. \A q \in Procs, y \in Tasks : Carries(q, y)' => Carries(q, y) /\ q # p
  BY <1>3, IdleFields DEF Carries
<1>5. TypeOK'
  BY <1>1, <1>3 DEF TypeOK
<1>6. JobOK'
  BY <1>1, IdleFields, JobKept
<1>7. PlacesOK' /\ ExecutedOK'
  <2>1. AtOnePlace(x)' /\ promise'[x] # "none"
    BY <1>1, <1>2, <1>4 DEF PlacesOK, ExecutedOK, AtOnePlace, InTasks
  <2>2. ASSUME NEW y \in Tasks, y # x
        PROVE  Stays(y)
    BY <2>2, <1>1, <1>4 DEF Stays, InTasks
  <2>3. (\A i, j \in DOMAIN tasks : tasks[i] = tasks[j] => i = j)'
    BY <1>1 DEF PlacesOK
  <2> QED BY <2>1, <2>2, <2>3, PlacesKeptBut
<1>8. SequenceOK' /\ CountOK'
  <2>1. InFlight = {} /\ \A q \in Procs : job[q].op = "start" => p = q
    BY <1>1 DEF SequenceOK
  <2>2. \A y : Flies(y)' => y = x
    BY <1>1, <1>3, <2>1, InFlightIs, IdleFields DEF Flies
  <2>3. \A q \in Procs : job'[q].op # "start"
    BY <1>3, <2>1, IdleFields
  <2> QED BY <1>1, <2>2, <2>3, InFlightIsNext DEF SequenceOK, CountOK, Sequential
<1> QED BY <1>5, <1>6, <1>7, <1>8

(* The first n of the waiting tasks are at most n.                         *)
LEMMA PrefixIsSmall ==
  ASSUME NEW S, NEW s \in Seq(S), NEW n \in 0..Len(s)
  PROVE  LET T == {s[i] : i \in 1..n} IN IsFiniteSet(T) /\ Cardinality(T) \in Nat /\ Cardinality(T) <= n
<1> DEFINE T == {s[i] : i \in 1..n}
           f == [i \in 1..n |-> s[i]]
<1>1. Len(s) \in Nat
  BY LenProperties
<1>2. IsFiniteSet(1..n) /\ Cardinality(1..n) = n
  BY <1>1, FS_Interval
<1>3. f \in Surjection(1..n, T)
  BY DEF Surjection
<1>4. IsFiniteSet(T) /\ Cardinality(T) <= Cardinality(1..n)
  BY <1>2, <1>3, FS_Surjection
<1>5. Cardinality(T) \in Nat
  BY <1>4, FS_CardinalityType
<1> QED BY <1>2, <1>4, <1>5

(* The size of a set covered by two.                                       *)
LEMMA UnionIsSmall ==
  ASSUME NEW S, NEW T, NEW U, NEW m \in Nat, NEW n \in Nat, U \subseteq S \cup T,
         IsFiniteSet(S), IsFiniteSet(T), Cardinality(S) <= m, Cardinality(T) <= n
  PROVE  IsFiniteSet(U) /\ Cardinality(U) <= m + n
<1>1. /\ IsFiniteSet(S \cup T) /\ Cardinality(S \cup T) = Cardinality(S) + Cardinality(T) - Cardinality(S \cap T)
      /\ IsFiniteSet(S \cap T)
  BY FS_Union, FS_Intersection
<1>2. /\ Cardinality(S) \in Nat /\ Cardinality(T) \in Nat /\ Cardinality(S \cap T) \in Nat
      /\ Cardinality(S \cup T) \in Nat
  BY <1>1, FS_CardinalityType
<1>3. IsFiniteSet(U) /\ Cardinality(U) \in Nat /\ Cardinality(U) <= Cardinality(S \cup T)
  BY <1>1, FS_Subset, FS_CardinalityType
<1> QED BY <1>1, <1>2, <1>3

(* TriggerWaitingTask keeps the invariant.                                 *)
LEMMA TriggerWaitingTaskKeepsIInv ==
  ASSUME IInv, NEW p \in Procs, TriggerWaitingTask(p)
  PROVE  IInv'
<1> USE DEF IInv
<1> DEFINE running == Less(runningCount)
           room == IF running < config.runningCapacity THEN config.runningCapacity - running ELSE 0
           n == IF room < Len(tasks) THEN room ELSE Len(tasks)
           started == {tasks[i] : i \in 1..n}
<1>1. /\ job[p].op = "trigger" /\ job[p].task \in Tasks /\ ~Sequential /\ Then(p, AfterTrigger(p))
      /\ UNCHANGED <<config, alive, refCount, handles, currentTaskId, env, owner, promise,
                     performing, results, cancelSignal, discardSignal>>
  BY DEF TriggerWaitingTask, Doing, JobOK
<1>2. /\ AfterTrigger(p) \in Jobs /\ AfterTrigger(p).op \in {"idle", "remove"}
      /\ AfterTrigger(p).op # "idle" => AfterTrigger(p).task \in Tasks
  BY <1>1, AfterTriggerFacts
<1>3. /\ job' \in [Procs -> Jobs] /\ job'[p] = AfterTrigger(p)
      /\ \A q \in Procs : q # p => job'[q] = job[q]
  BY <1>1, <1>2, ThenAt
<1>4. PICK x \in Tasks : x = job[p].task /\ Carries(p, x)
  BY <1>1 DEF Carries
<1>5. /\ x \notin taskQueue \cup performing \cup results /\ \A q \in Procs : Carries(q, x) => q = p
      /\ ~InTasks(x)
  BY <1>4 DEF PlacesOK, AtOnePlace
<1>6. \A q \in Procs, y \in Tasks : Carries(q, y)' => Carries(q, y) /\ q # p
  BY <1>2, <1>3 DEF Carries
<1>7. JobOK'
  BY <1>1, <1>2, JobKept
<1>8. \A q \in Procs : job'[q].op = "start" => job[q].op = "start"
  BY <1>2, <1>3
<1>9. /\ IsFiniteSet(InFlight) /\ Cardinality(InFlight) <= runningCount
      /\ runningCount <= config.runningCapacity /\ runningCount \in Nat
      /\ config.runningCapacity \in Nat
  BY <1>1, RunnerConstants DEF CountOK, TypeOK, Config
<1>10. Flies(x)
  BY <1>1, <1>4 DEF Flies
<1>11. tasks \in Seq(Tasks) /\ DOMAIN tasks = 1..Len(tasks) /\ Len(tasks) \in Nat
  BY LenProperties DEF TypeOK
<1>12. CASE ~alive /\ UNCHANGED <<runningCount, tasks, taskState, taskQueue>>
  <2>1. TypeOK'
    BY <1>1, <1>3, <1>12 DEF TypeOK
  <2>2. \A y \in Tasks : Stays(y)
    BY <1>1, <1>6, <1>12 DEF Stays, InTasks
  <2>3. \A y : Flies(y)' => Flies(y)
    BY <1>1, <1>2, <1>3, <1>12 DEF Flies
  <2>4. (\A i, j \in DOMAIN tasks : tasks[i] = tasks[j] => i = j)'
    BY <1>12 DEF PlacesOK
  <2> QED BY <1>1, <1>7, <1>8, <1>12, <2>1, <2>2, <2>3, <2>4, ShrinkKeepsIInv
<1>13. CASE /\ alive /\ runningCount' = running + n
            /\ tasks' = SubSeq(tasks, n + 1, Len(tasks))
            /\ taskState' = [y \in Tasks |-> IF y \in started THEN "waiting" ELSE taskState[y]]
            /\ taskQueue' = taskQueue \cup started
  <2>1. InFlight \ {x} \subseteq InFlight \ {x} /\ x \in InFlight
    BY <1>10, InFlightIs
  <2>2. /\ IsFiniteSet(InFlight \ {x}) /\ runningCount > 0
        /\ Cardinality(InFlight \ {x}) <= runningCount - 1
    BY <1>9, <2>1, OneLess
  <2>3. running \in Nat /\ running = runningCount - 1 /\ running < config.runningCapacity
    BY <1>9, <2>2 DEF Less
  <2>4. room \in Nat /\ room = config.runningCapacity - running
    BY <1>9, <2>3
  <2>5. n \in 0..Len(tasks) /\ n <= room
    BY <1>11, <2>4
  <2>6. runningCount' \in Nat /\ runningCount' <= config.runningCapacity
    BY <1>9, <1>11, <1>13, <2>3, <2>4, <2>5
  <2> HIDE DEF running, room, n
  <2>7. IsFiniteSet(started) /\ Cardinality(started) <= n
    BY <1>11, <2>5, PrefixIsSmall
  <2>8. started \subseteq Tasks /\ \A y \in started : InTasks(y)
    BY <1>11, <2>5, ElementOfSeq DEF InTasks
  <2>9. n + 1 \in 1..(Len(tasks) + 1)
    BY <1>11, <2>5
  <2>10. /\ tasks' \in Seq(Tasks) /\ DOMAIN tasks' = 1..(Len(tasks) - (n + 1) + 1)
         /\ \A i \in DOMAIN tasks' : n + 1 + i - 1 \in DOMAIN tasks /\ tasks'[i] = tasks[n + 1 + i - 1]
    <3> DEFINE k == n + 1
    <3>1. k \in 1..(Len(tasks) + 1) /\ tasks' = SubSeq(tasks, k, Len(tasks))
      BY <1>13, <2>9
    <3> HIDE DEF k
    <3>2. /\ tasks' \in Seq(Tasks) /\ DOMAIN tasks' = 1..(Len(tasks) - k + 1)
          /\ \A i \in DOMAIN tasks' : k + i - 1 \in DOMAIN tasks /\ tasks'[i] = tasks[k + i - 1]
      BY <1>11, <3>1, SuffixFacts
    <3> QED BY <3>2 DEF k
  <2>11. (\A i, j \in DOMAIN tasks : tasks[i] = tasks[j] => i = j)'
    <3>1. \A i, j \in DOMAIN tasks' : n + 1 + i - 1 = n + 1 + j - 1 => i = j
      BY <1>11, <2>5, <2>10
    <3> QED BY <2>10, <3>1 DEF PlacesOK
  <2>12. \A y : InTasks(y)' => InTasks(y)
    BY <2>10 DEF InTasks
  <2>13. ASSUME NEW y \in started
         PROVE  ~InTasks(y)'
    <3>1. PICK i \in 1..n : y = tasks[i]
      OBVIOUS
    <3>2. i \in DOMAIN tasks
      BY <1>11, <2>5
    <3>3. \A j \in DOMAIN tasks' : n + 1 + j - 1 # i
      BY <1>11, <2>5, <2>10
    <3>4. \A j \in DOMAIN tasks' : tasks[n + 1 + j - 1] # tasks[i]
      BY <2>10, <3>2, <3>3 DEF PlacesOK
    <3> QED BY <2>10, <3>1, <3>4 DEF InTasks
  <2> HIDE DEF started
  <2>14. TypeOK'
    BY <1>1, <1>3, <1>13, <2>6, <2>8, <2>10 DEF TypeOK
  <2>15. PlacesOK' /\ ExecutedOK'
    <3>1. ASSUME NEW y \in started
          PROVE  AtOnePlace(y)' /\ promise'[y] # "none"
      <4>1. y \in Tasks /\ InTasks(y) /\ ~InTasks(y)'
        BY <2>8, <2>13
      <4>2. /\ y \notin performing \cup results /\ promise[y] # "none"
            /\ \A q \in Procs : ~Carries(q, y)
        BY <4>1 DEF PlacesOK, AtOnePlace, ExecutedOK
      <4> QED BY <1>1, <1>6, <4>1, <4>2 DEF AtOnePlace
    <3>2. ASSUME NEW y \in Tasks, y \notin started
          PROVE  Stays(y)
      BY <3>2, <1>1, <1>6, <1>13, <2>12 DEF Stays
    <3> QED BY <2>11, <3>1, <3>2, PlacesKept
  <2>16. InFlight' \subseteq (InFlight \ {x}) \cup started
    <3>1. \A y : Flies(y)' => y \in started \/ Flies(y)
      BY <1>1, <1>2, <1>3, <1>13 DEF Flies
    <3>2. x \in started \/ ~Flies(x)'
      BY <1>1, <1>2, <1>3, <1>5, <1>13, <1>4 DEF Flies, Carries
    <3> QED BY <3>1, <3>2, InFlightIs, InFlightIsNext
  <2>17. IsFiniteSet(InFlight') /\ Cardinality(InFlight') <= running + n
    <3>1. n \in Nat /\ Cardinality(InFlight \ {x}) <= running
      BY <1>11, <2>2, <2>3, <2>5
    <3> QED BY <2>2, <2>3, <2>7, <2>16, <3>1, UnionIsSmall
  <2>18. SequenceOK' /\ CountOK'
    BY <1>1, <1>13, <2>6, <2>17 DEF SequenceOK, CountOK, Sequential
  <2> QED BY <1>7, <2>14, <2>15, <2>18
<1> QED BY <1>12, <1>13 DEF TriggerWaitingTask

----------------------------------------------------------------------------
(* Cancellation. *)

(* CancelSeqRunnerTask keeps the invariant.                                *)
LEMMA CancelSeqRunnerTaskKeepsIInv ==
  ASSUME IInv, NEW t \in Threads, NEW x \in Tasks, CancelSeqRunnerTask(t, x)
  PROVE  IInv'
<1>1. /\ taskState' = [taskState EXCEPT ![x] = "canceled"]
      /\ UNCHANGED <<config, alive, refCount, handles, tasks, currentTaskId, runningCount, env, owner, promise,
                     taskQueue, performing, results, cancelSignal, discardSignal, job>>
  BY DEF CancelSeqRunnerTask, runnerVars, placeVars
<1>2. TypeOK'
  BY <1>1 DEF IInv, TypeOK
<1> QED BY <1>1, <1>2, MessageKeepsIInv

(* CancelAsyncRunnerTask keeps the invariant.                              *)
LEMMA CancelAsyncRunnerTaskKeepsIInv ==
  ASSUME IInv, NEW t \in Threads, NEW x \in Tasks, CancelAsyncRunnerTask(t, x)
  PROVE  IInv'
<1> USE DEF IInv
<1>1. /\ t \in Procs /\ job[t] = Idle /\ promise[x] # "none"
      /\ taskState' = [taskState EXCEPT ![x] = "canceled"]
      /\ UNCHANGED <<config, alive, refCount, handles, tasks, currentTaskId, runningCount, env, owner, promise,
                     performing, results, cancelSignal>>
  BY DEF CancelAsyncRunnerTask, Procs, Free, IsIdle, Executed, runnerVars
<1>2. (\A i, j \in DOMAIN tasks : tasks[i] = tasks[j] => i = j)'
  BY <1>1 DEF PlacesOK
<1>3. CASE /\ x \in taskQueue /\ taskQueue' = taskQueue \ {x}
           /\ discardSignal' = IF IsValid(x) THEN discardSignal \cup {x} ELSE discardSignal
           /\ Then(t, [Job("unref", x) EXCEPT !.cancels = TRUE])
  <2> DEFINE n == [Job("unref", x) EXCEPT !.cancels = TRUE]
  <2>1. n \in Jobs /\ n.op = "unref" /\ n.task = x
    BY DEF Job, Jobs, Idle
  <2> HIDE DEF n
  <2>2. /\ job' \in [Procs -> Jobs] /\ job'[t] = n
        /\ \A q \in Procs : q # t => job'[q] = job[q]
    BY <1>1, <1>3, <2>1, ThenAt DEF n
  <2>3. /\ x \notin performing \cup results /\ ~InTasks(x) /\ \A p \in Procs : ~Carries(p, x)
    BY <1>3 DEF PlacesOK, AtOnePlace
  <2>4. TypeOK'
    BY <1>1, <1>3, <2>2 DEF TypeOK
  <2>5. JobOK'
    BY <1>1, <1>3, <2>1, JobKept DEF n
  <2>6. \A q \in Procs : Carries(q, x)' => q = t
    BY <2>2, <2>3 DEF Carries
  <2>7. AtOnePlace(x)'
    BY <1>1, <1>3, <2>3, <2>6 DEF AtOnePlace, InTasks
  <2>8. ASSUME NEW y \in Tasks, y # x
        PROVE  Stays(y)
    BY <2>8, <1>1, <1>3, <2>1, <2>2 DEF Stays, Carries, InTasks
  <2>9. Flies(x) /\ \A y : Flies(y)' => Flies(y)
    BY <1>1, <1>3, <2>1, <2>2 DEF Flies
  <2>10. \A q \in Procs : job'[q].op = "start" => job[q].op = "start"
    BY <2>1, <2>2
  <2> QED BY <1>1, <1>2, <2>4, <2>5, <2>7, <2>8, <2>9, <2>10, MoveKeepsIInv
<1>4. CASE Then(t, IF alive THEN Job("remove", x) ELSE Idle) /\ UNCHANGED <<taskQueue, discardSignal>>
  <2> DEFINE n == IF alive THEN Job("remove", x) ELSE Idle
  <2>1. n \in Jobs /\ n.op \in {"remove", "idle"} /\ (n.op = "remove" => n.task = x)
    BY JobFields, IdleFields DEF JobOps
  <2> HIDE DEF n
  <2>2. /\ job' \in [Procs -> Jobs] /\ job'[t] = n
        /\ \A q \in Procs : q # t => job'[q] = job[q]
    BY <1>1, <1>4, <2>1, ThenAt DEF n
  <2>3. TypeOK'
    BY <1>1, <1>4, <2>2 DEF TypeOK
  <2>4. JobOK'
    BY <1>1, <1>4, <2>1, JobKept DEF n
  <2>5. \A y \in Tasks : Stays(y)
    BY <1>1, <1>4, <2>1, <2>2 DEF Stays, Carries, InTasks
  <2>6. \A y : Flies(y)' => Flies(y)
    BY <1>1, <1>4, <2>1, <2>2 DEF Flies
  <2>7. \A q \in Procs : job'[q].op = "start" => job[q].op = "start"
    BY <2>1, <2>2
  <2> QED BY <1>1, <1>2, <2>3, <2>4, <2>5, <2>6, <2>7, ShrinkKeepsIInv
<1> QED BY <1>3, <1>4 DEF CancelAsyncRunnerTask

(* RemoveWaitingTask keeps the invariant.                                  *)
LEMMA RemoveWaitingTaskKeepsIInv ==
  ASSUME IInv, NEW p \in Procs, RemoveWaitingTask(p)
  PROVE  IInv'
<1> USE DEF IInv
<1>1. PICK x \in Tasks :
      /\ job[p].task = x /\ job[p].op = "remove" /\ tasks' = WithoutTask(x)
      /\ Then(p, IF InTasks(x) THEN Job("discard", x) ELSE Idle)
      /\ UNCHANGED <<config, alive, refCount, handles, currentTaskId, runningCount, env, owner, taskState,
                     promise, taskQueue, performing, results, cancelSignal, discardSignal>>
  BY DEF RemoveWaitingTask, Doing, JobOK, taskVars, placeVars
<1> DEFINE n == IF InTasks(x) THEN Job("discard", x) ELSE Idle
<1>2. n \in Jobs /\ n.op \in {"discard", "idle"} /\ (n.op = "discard" => n.task = x)
  BY JobFields, IdleFields DEF JobOps
<1> HIDE DEF n
<1>3. /\ job' \in [Procs -> Jobs] /\ job'[p] = n
      /\ \A q \in Procs : q # p => job'[q] = job[q]
  BY <1>1, <1>2, ThenAt DEF n
<1>4. /\ tasks' \in Seq(Tasks)
      /\ (\A i, j \in DOMAIN tasks : tasks[i] = tasks[j] => i = j)'
      /\ \A y : InTasks(y)' => InTasks(y)
  BY <1>1, WithoutTaskFacts DEF InTasks
<1>5. TypeOK'
  BY <1>1, <1>3, <1>4 DEF TypeOK
<1>6. JobOK'
  BY <1>1, <1>2, JobKept DEF n
<1>7. \A y \in Tasks : Stays(y)
  BY <1>1, <1>2, <1>3, <1>4 DEF Stays, Carries
<1>8. \A y : Flies(y)' => Flies(y)
  BY <1>1, <1>2, <1>3 DEF Flies
<1>9. \A q \in Procs : job'[q].op = "start" => job[q].op = "start"
  BY <1>2, <1>3
<1> QED BY <1>1, <1>4, <1>5, <1>6, <1>7, <1>8, <1>9, ShrinkKeepsIInv

(* CancelInner keeps the invariant.                                        *)
LEMMA CancelInnerKeepsIInv ==
  ASSUME IInv, NEW t \in Threads, NEW x \in Tasks, CancelInner(t, x)
  PROVE  IInv'
<1>1. /\ cancelSignal' = cancelSignal \ {x} /\ Settle(x)
      /\ UNCHANGED <<config, alive, refCount, handles, tasks, currentTaskId, runningCount, env, owner, taskState,
                     taskQueue, performing, results, discardSignal, job>>
  BY DEF CancelInner, runnerVars
<1>2. /\ promise' \in [Tasks -> {"none", "open", "settled", "settledTwice"}]
      /\ \A y \in Tasks : promise'[y] = "none" => promise[y] = "none"
  BY <1>1, SettleFacts DEF IInv
<1>3. TypeOK'
  BY <1>1, <1>2 DEF IInv, TypeOK
<1> QED BY <1>1, <1>2, <1>3, MessageKeepsIInv

(* DiscardInner keeps the invariant.                                       *)
LEMMA DiscardInnerKeepsIInv ==
  ASSUME IInv, NEW t \in Threads, NEW x \in Tasks, DiscardInner(t, x)
  PROVE  IInv'
<1>1. /\ discardSignal' = discardSignal \ {x} /\ Settle(x)
      /\ UNCHANGED <<config, alive, refCount, handles, tasks, currentTaskId, runningCount, env, owner, taskState,
                     taskQueue, performing, results, cancelSignal, job>>
  BY DEF DiscardInner, runnerVars
<1>2. /\ promise' \in [Tasks -> {"none", "open", "settled", "settledTwice"}]
      /\ \A y \in Tasks : promise'[y] = "none" => promise[y] = "none"
  BY <1>1, SettleFacts DEF IInv
<1>3. TypeOK'
  BY <1>1, <1>2 DEF IInv, TypeOK
<1> QED BY <1>1, <1>2, <1>3, MessageKeepsIInv

----------------------------------------------------------------------------
(* Handles and engines. *)

(* A step of no thread's job that takes tasks out of the runner.           *)
LEMMA UnrefKeepsIInv ==
  ASSUME IInv, TypeOK',
         (\A i, j \in DOMAIN tasks : tasks[i] = tasks[j] => i = j)',
         \A y : InTasks(y)' => InTasks(y),
         UNCHANGED <<config, currentTaskId, runningCount, promise, taskQueue, performing, job>>,
         results' \subseteq results
  PROVE  IInv'
<1>1. JobOK'
  BY JobUnchanged DEF IInv
<1>2. \A y \in Tasks : Stays(y)
  BY DEF Stays, Carries
<1>3. \A y : Flies(y)' => Flies(y)
  BY DEF Flies
<1>4. \A q \in Procs : job'[q].op = "start" => job[q].op = "start"
  OBVIOUS
<1> QED BY <1>1, <1>2, <1>3, <1>4, ShrinkKeepsIInv

(* RunnerDestructor keeps the invariant.                                   *)
LEMMA RunnerDestructorKeepsIInv ==
  ASSUME IInv, NEW t \in Threads, RunnerDestructor(t)
  PROVE  IInv'
<1>1. /\ handles' \subseteq handles
      /\ UNCHANGED <<config, currentTaskId, runningCount, env, owner, taskState, promise,
                     taskQueue, performing, results, cancelSignal, discardSignal, job>>
  BY DEF RunnerDestructor, taskVars, placeVars
<1>2. /\ refCount' \in Nat /\ alive' \in BOOLEAN /\ (tasks' = tasks \/ tasks' = <<>>)
  BY UnrefFacts DEF IInv, RunnerDestructor
<1>3. TypeOK'
  BY <1>1, <1>2, EmptySeq DEF IInv, TypeOK
<1>4. /\ \A y : InTasks(y)' => InTasks(y)
      /\ (\A i, j \in DOMAIN tasks : tasks[i] = tasks[j] => i = j)'
  BY <1>2 DEF IInv, InTasks, PlacesOK
<1> QED BY <1>1, <1>3, <1>4, UnrefKeepsIInv

(* DestroyEngine keeps the invariant.                                      *)
LEMMA DestroyEngineKeepsIInv ==
  ASSUME IInv, NEW t \in Threads, DestroyEngine(t)
  PROVE  IInv'
<1>1. /\ env' = [env EXCEPT ![t] = "closing"]
      /\ UNCHANGED <<config, alive, refCount, handles, tasks, currentTaskId, runningCount, owner, taskState,
                     promise, taskQueue, performing, results, cancelSignal, discardSignal, job>>
  BY DEF DestroyEngine, runnerVars, taskVars, placeVars
<1>2. TypeOK'
  BY <1>1 DEF IInv, TypeOK
<1> QED BY <1>1, <1>2, MessageKeepsIInv

(* CleanupHookFunc keeps the invariant.                                    *)
LEMMA CleanupHookFuncKeepsIInv ==
  ASSUME IInv, NEW x \in Tasks, CleanupHookFunc(x)
  PROVE  IInv'
<1>1. UNCHANGED <<config, handles, currentTaskId, runningCount, env, owner, taskState, promise,
                  taskQueue, performing, results, cancelSignal, discardSignal, job>>
  BY DEF CleanupHookFunc, taskVars, placeVars
<1>2. /\ refCount' \in Nat /\ alive' \in BOOLEAN /\ (tasks' = WithoutTask(x) \/ tasks' = <<>>)
  BY UnrefFacts DEF IInv, CleanupHookFunc
<1>3. /\ WithoutTask(x) \in Seq(Tasks)
      /\ \A i, j \in DOMAIN WithoutTask(x) : WithoutTask(x)[i] = WithoutTask(x)[j] => i = j
      /\ \A i \in DOMAIN WithoutTask(x) : InTasks(WithoutTask(x)[i])
  BY WithoutTaskFacts DEF IInv
<1>4. TypeOK'
  BY <1>1, <1>2, <1>3, EmptySeq DEF IInv, TypeOK
<1>5. /\ \A y : InTasks(y)' => InTasks(y)
      /\ (\A i, j \in DOMAIN tasks : tasks[i] = tasks[j] => i = j)'
  <2>1. CASE tasks' = WithoutTask(x)
    BY <2>1, <1>3 DEF InTasks
  <2>2. CASE tasks' = <<>>
    BY <2>2 DEF InTasks
  <2> QED BY <1>2, <2>1, <2>2
<1> QED BY <1>1, <1>4, <1>5, UnrefKeepsIInv

(* EngineDestroyed keeps the invariant.                                    *)
LEMMA EngineDestroyedKeepsIInv ==
  ASSUME IInv, NEW t \in Threads, EngineDestroyed(t)
  PROVE  IInv'
<1>1. /\ env' = [env EXCEPT ![t] = "dead"]
      /\ results' \subseteq results
      /\ cancelSignal' \subseteq cancelSignal /\ discardSignal' \subseteq discardSignal
      /\ handles' \subseteq handles
      /\ UNCHANGED <<config, currentTaskId, runningCount, owner, taskState, promise,
                     taskQueue, performing, job>>
  BY DEF EngineDestroyed, taskVars
<1>2. /\ refCount' \in Nat /\ alive' \in BOOLEAN /\ (tasks' = tasks \/ tasks' = <<>>)
  BY UnrefFacts DEF IInv, EngineDestroyed, TypeOK
<1>3. TypeOK'
  BY <1>1, <1>2, EmptySeq DEF IInv, TypeOK
<1>4. /\ \A y : InTasks(y)' => InTasks(y)
      /\ (\A i, j \in DOMAIN tasks : tasks[i] = tasks[j] => i = j)'
  BY <1>2 DEF IInv, InTasks, PlacesOK
<1> QED BY <1>1, <1>3, <1>4, UnrefKeepsIInv

----------------------------------------------------------------------------
(* The theorems. *)

(* The invariant holds at the start.                                       *)
LEMMA InitEstablishesIInv == Init => IInv
<1> SUFFICES ASSUME Init PROVE IInv
  OBVIOUS
<1>1. /\ tasks = <<>> /\ currentTaskId = None /\ runningCount = 0
      /\ taskQueue = {} /\ performing = {} /\ results = {}
      /\ job = [p \in Procs |-> Idle] /\ config \in Configs
  BY DEF Init
<1>2. Cardinality(Threads) \in Nat
  BY RunnerConstants, FS_CardinalityType
<1>3. TypeOK
  BY <1>1, <1>2, IdleFields, EmptySeq DEF Init, TypeOK
<1>4. \A p \in Procs : job[p].op = "idle"
  BY <1>1, IdleFields
<1>5. JobOK
  BY <1>4 DEF JobOK
<1>6. PlacesOK /\ ExecutedOK
  BY <1>1, <1>4 DEF PlacesOK, ExecutedOK, AtOnePlace, Carries, InTasks
<1>7. InFlight = {}
  BY <1>1, <1>4, InFlightIs DEF Flies
<1>8. config.runningCapacity \in Nat
  BY <1>1, RunnerConstants DEF Config
<1>9. SequenceOK /\ CountOK
  BY <1>1, <1>4, <1>7, <1>8, FS_EmptySet DEF SequenceOK, CountOK
<1> QED BY <1>3, <1>5, <1>6, <1>9 DEF IInv

(* A step that changes nothing keeps the invariant.                        *)
LEMMA StutterKeepsIInv == IInv /\ UNCHANGED vars => IInv'
<1> SUFFICES ASSUME IInv, UNCHANGED vars PROVE IInv'
  OBVIOUS
<1>1. UNCHANGED <<config, alive, refCount, handles, tasks, currentTaskId, runningCount, env, owner, taskState,
                  promise, taskQueue, performing, results, cancelSignal, discardSignal, job>>
  BY DEF vars, runnerVars, taskVars, placeVars
<1>2. TypeOK'
  BY <1>1 DEF IInv, TypeOK
<1> QED BY <1>1, <1>2, MessageKeepsIInv

(* Every step keeps the invariant.                                         *)
LEMMA NextKeepsIInv == IInv /\ [Next]_vars => IInv'
<1> SUFFICES ASSUME IInv, [Next]_vars PROVE IInv'
  OBVIOUS
<1>1. ASSUME NEW p \in Procs, Step(p)
      PROVE  IInv'
  BY <1>1, EnqueueTaskIdKeepsIInv, AddTaskKeepsIInv, RejectErrorKeepsIInv, UnrefRunnerKeepsIInv,
     TriggerTaskKeepsIInv, StartNextKeepsIInv, TriggerWaitingTaskKeepsIInv, RemoveWaitingTaskKeepsIInv DEF Step
<1>2. ASSUME NEW t \in Threads, RunnerDestructor(t) \/ DestroyEngine(t) \/ EngineDestroyed(t)
      PROVE  IInv'
  BY <1>2, RunnerDestructorKeepsIInv, DestroyEngineKeepsIInv, EngineDestroyedKeepsIInv
<1>3. ASSUME NEW t \in Threads, NEW x \in Tasks, ExecuteSequence(t, x) \/ ExecuteAsync(t, x)
      PROVE  IInv'
  BY <1>3, ExecuteSequenceKeepsIInv, ExecuteAsyncKeepsIInv
<1>4. ASSUME NEW t \in Threads, NEW x \in Tasks, CancelSeqRunnerTask(t, x) \/ CancelAsyncRunnerTask(t, x)
      PROVE  IInv'
  BY <1>4, CancelSeqRunnerTaskKeepsIInv, CancelAsyncRunnerTaskKeepsIInv
<1>5. ASSUME NEW t \in Threads, NEW x \in Tasks, Deliver(t, x)
      PROVE  IInv'
  BY <1>5, HandleTaskResultKeepsIInv, CancelInnerKeepsIInv, DiscardInnerKeepsIInv DEF Deliver
<1>6. ASSUME NEW w \in Workers, NEW x \in Tasks, Work(w, x)
      PROVE  IInv'
  BY <1>6, PerformTaskKeepsIInv, NotifyTaskResultKeepsIInv DEF Work
<1>7. ASSUME NEW x \in Tasks, CleanupHookFunc(x)
      PROVE  IInv'
  BY <1>7, CleanupHookFuncKeepsIInv
<1>8. CASE UNCHANGED vars
  BY <1>8, StutterKeepsIInv
<1> QED BY <1>1, <1>2, <1>3, <1>4, <1>5, <1>6, <1>7, <1>8 DEF Next

(* The places of the tasks, the jobs of the threads and the count of an    *)
(* asynchronous runner agree, whatever the threads, workers, tasks and     *)
(* capacities.                                                             *)
THEOREM InductiveInvariant == Spec => []IInv
<1>1. Init => IInv
  BY InitEstablishesIInv
<1>2. IInv /\ [Next]_vars => IInv'
  BY NextKeepsIInv
<1> QED BY <1>1, <1>2, PTL DEF Spec

(* The variables keep their types; above all the counts stay natural       *)
(* numbers and what waits stays a sequence of tasks.                       *)
THEOREM TypeCorrectness == Spec => []TypeOK
<1>1. IInv => TypeOK
  BY DEF IInv
<1> QED BY <1>1, InductiveInvariant, PTL

(* A sequence runner has one task in flight at most and an asynchronous    *)
(* runner no more than its runningCapacity.                                *)
THEOREM CapacityIsKept == Spec => []WithinCapacity
<1>1. IInv => WithinCapacity
  <2> SUFFICES ASSUME IInv PROVE WithinCapacity
    OBVIOUS
  <2>1. CASE Sequential
    <3>1. InFlight \subseteq {currentTaskId}
      BY <2>1 DEF IInv, SequenceOK
    <3>2. /\ IsFiniteSet({currentTaskId}) /\ Cardinality({currentTaskId}) = 1
      BY FS_Singleton
    <3>3. Cardinality(InFlight) <= 1
      BY <3>1, <3>2, FS_Subset
    <3>4. config.runningCapacity = 1
      BY <2>1, RunnerConstants DEF IInv, TypeOK, Sequential
    <3> QED BY <3>3, <3>4 DEF WithinCapacity
  <2>2. CASE ~Sequential
    <3>1. /\ Cardinality(InFlight) <= runningCount /\ runningCount <= config.runningCapacity
          /\ Cardinality(InFlight) \in Nat /\ runningCount \in Nat /\ config.runningCapacity \in Nat
      BY <2>2, RunnerConstants, FS_CardinalityType DEF IInv, CountOK, TypeOK, Config
    <3> QED BY <3>1 DEF WithinCapacity
  <2> QED BY <2>1, <2>2
<1> QED BY <1>1, InductiveInvariant, PTL

----------------------------------------------------------------------------
(* The references of the runner, and where the promises are kept. *)

(* What a thread or worker does for the task x.                            *)
Discards(p, x) == job[p].op = "discard" /\ job[p].task = x
Unrefs(p, x) == job[p].op = "unref" /\ job[p].task = x
Brings(p, x) ==
  \/ job[p].op \in {"enqueue", "add", "discard"} /\ job[p].task = x
  \/ job[p].op = "start" /\ job[p].next = x

(* A thread that discards a task has taken it out of what waits, and       *)
(* nobody else has it.                                                     *)
DiscardAt(x) ==
  \A p \in Procs : Discards(p, x) =>
    /\ x \notin taskQueue \cup performing \cup results /\ ~InTasks(x)
    /\ promise[x] # "none"
    /\ \A q \in Procs : ~Carries(q, x) /\ (Discards(q, x) => q = p)

(* A task whose owner is to hear of its cancellation is nowhere else, but  *)
(* for the thread that still lets go of the runner for it.                 *)
SignalAt(x) ==
  x \in cancelSignal \cup discardSignal =>
    /\ x \notin taskQueue \cup performing \cup results /\ ~InTasks(x)
    /\ promise[x] # "none"
    /\ \A p \in Procs : ~Brings(p, x)
    /\ x \in cancelSignal => x \notin discardSignal

(* The promise of a task of a live engine is open as long as the task is   *)
(* somewhere.                                                              *)
Somewhere(x) ==
  \/ InTasks(x) \/ x \in taskQueue \/ x \in performing \/ x \in results
  \/ x \in cancelSignal \/ x \in discardSignal
  \/ \E p \in Procs : Brings(p, x)
OpenAt(x) == IsValid(x) => (promise[x] = "open" <=> Somewhere(x))

(* Only a thread that starts a task has a next one.                        *)
NextOK == \A p \in Procs : job[p].op # "start" => job[p].next = None
DiscardOK == \A x \in Tasks : DiscardAt(x)
SignalOK == \A x \in Tasks : SignalAt(x)
OpenOK == \A x \in Tasks : OpenAt(x)

(* RefCountIsExact, of finite sets.                                        *)
CountedOK == IsFiniteSet(handles) /\ IsFiniteSet(Counted) /\ RefCountIsExact

RInv == NextOK /\ DiscardOK /\ SignalOK /\ OpenOK /\ CountedOK

----------------------------------------------------------------------------
(* The tasks that are counted, one by one. *)

Needs(x) ==
  \/ InTasks(x) \/ x \in taskQueue \/ x \in performing \/ x \in results
  \/ \E p \in Procs : Brings(p, x) \/ Unrefs(p, x)

(* The tasks that are counted are those that need the runner.              *)
LEMMA CountedIs ==
  ASSUME TypeOK, JobOK
  PROVE  Counted \subseteq Tasks /\ \A x : x \in Counted <=> Needs(x)
<1>1. \A x : InTasks(x) => x \in Tasks
  BY ElementOfSeq, LenProperties DEF InTasks, TypeOK
<1>2. \A x : x \in Counted <=> Needs(x)
  BY <1>1 DEF Counted, Needs, JobsOf, Started, Brings, Unrefs
<1>3. ASSUME NEW x, Needs(x) PROVE x \in Tasks
  BY <1>1, <1>3 DEF Needs, Brings, Unrefs, TypeOK, JobOK
<1> QED BY <1>2, <1>3

(* The same of the state after a step.                                     *)
LEMMA CountedIsNext ==
  ASSUME TypeOK', JobOK'
  PROVE  Counted' \subseteq Tasks /\ \A x : x \in Counted' <=> Needs(x)'
<1>1. \A x : InTasks(x)' => x \in Tasks
  BY ElementOfSeq, LenProperties DEF InTasks, TypeOK
<1>2. \A x : x \in Counted' <=> Needs(x)'
  BY <1>1 DEF Counted, Needs, JobsOf, Started, Brings, Unrefs
<1>3. ASSUME NEW x, Needs(x)' PROVE x \in Tasks
  BY <1>1, <1>3 DEF Needs, Brings, Unrefs, TypeOK, JobOK
<1> QED BY <1>2, <1>3

(* As long as every engine lives the count is exact.                       *)
AllAlive == \A t \in Threads : env[t] = "alive"

(* A step that counts nothing in or out.                                   *)
LEMMA CountsStay ==
  ASSUME IInv, IInv', CountedOK,
         UNCHANGED <<alive, refCount, handles>>,
         \A x \in Tasks : Needs(x)' => Needs(x),
         AllAlive' => AllAlive /\ \A x \in Tasks : Needs(x) => Needs(x)'
  PROVE  CountedOK'
<1>1. /\ Counted \subseteq Tasks /\ Counted' \subseteq Tasks
      /\ \A x : x \in Counted <=> Needs(x)
      /\ \A x : x \in Counted' <=> Needs(x)'
  BY CountedIs, CountedIsNext DEF IInv
<1>2. Counted' \subseteq Counted /\ (AllAlive' => AllAlive /\ Counted' = Counted)
  BY <1>1
<1>3. IsFiniteSet(handles) /\ IsFiniteSet(Counted) /\ IsFiniteSet(Counted')
  BY <1>2, FS_Subset DEF CountedOK
<1>4. /\ Cardinality(handles) \in Nat /\ Cardinality(Counted) \in Nat
      /\ Cardinality(Counted') \in Nat /\ Cardinality(Counted') <= Cardinality(Counted)
  BY <1>2, <1>3, FS_CardinalityType, FS_Subset
<1>5. /\ alive => refCount >= Cardinality(handles) + Cardinality(Counted)
      /\ alive /\ AllAlive => refCount = Cardinality(handles) + Cardinality(Counted)
      /\ ~alive => handles = {} /\ Counted = {}
  BY DEF CountedOK, RefCountIsExact, AllAlive
<1>6. /\ alive' => refCount' >= Cardinality(handles') + Cardinality(Counted')
      /\ alive' /\ AllAlive' => refCount' = Cardinality(handles') + Cardinality(Counted')
      /\ ~alive' => handles' = {} /\ Counted' = {}
  BY <1>2, <1>4, <1>5 DEF IInv, TypeOK
<1> QED BY <1>3, <1>6 DEF CountedOK, RefCountIsExact, AllAlive

(* A task that is counted in.                                              *)
LEMMA CountsMore ==
  ASSUME IInv, IInv', CountedOK, NEW x \in Tasks, ~Needs(x),
         alive, UNCHANGED <<alive, handles, env>>, refCount' = refCount + 1,
         \A y \in Tasks : Needs(y)' <=> Needs(y) \/ y = x
  PROVE  CountedOK'
<1>1. /\ Counted \subseteq Tasks /\ Counted' \subseteq Tasks
      /\ \A y : y \in Counted <=> Needs(y)
      /\ \A y : y \in Counted' <=> Needs(y)'
  BY CountedIs, CountedIsNext DEF IInv
<1>2. Counted' = Counted \cup {x} /\ x \notin Counted
  BY <1>1
<1>3. /\ IsFiniteSet(handles) /\ IsFiniteSet(Counted) /\ IsFiniteSet(Counted')
      /\ Cardinality(Counted') = Cardinality(Counted) + 1
  BY <1>2, FS_AddElement DEF CountedOK
<1>4. Cardinality(handles) \in Nat /\ Cardinality(Counted) \in Nat
  BY <1>3, FS_CardinalityType
<1>5. /\ refCount >= Cardinality(handles) + Cardinality(Counted)
      /\ AllAlive => refCount = Cardinality(handles) + Cardinality(Counted)
  BY DEF CountedOK, RefCountIsExact, AllAlive
<1>6. /\ alive' => refCount' >= Cardinality(handles') + Cardinality(Counted')
      /\ alive' /\ AllAlive' => refCount' = Cardinality(handles') + Cardinality(Counted')
      /\ alive'
  BY <1>3, <1>4, <1>5 DEF IInv, TypeOK, AllAlive
<1> QED BY <1>3, <1>6 DEF CountedOK, RefCountIsExact, AllAlive

(* A task or handle that lets go of the runner last leaves nothing that    *)
(* needs it.                                                               *)
LEMMA LastReference ==
  ASSUME TypeOK, CountedOK, NEW left, Unref(left), NEW x \in Counted
  PROVE  /\ refCount > 0 /\ refCount' = refCount - 1 /\ alive
         /\ alive' => tasks' = left
         /\ ~alive' => handles = {} /\ Counted = {x} /\ refCount' = 0
<1>1. /\ IsFiniteSet(Counted) /\ IsFiniteSet(handles)
      /\ IsFiniteSet(Counted \ {x}) /\ Cardinality(Counted \ {x}) = Cardinality(Counted) - 1
  BY FS_RemoveElement DEF CountedOK
<1>2. /\ Cardinality(handles) \in Nat /\ Cardinality(Counted) \in Nat
      /\ Cardinality(Counted \ {x}) \in Nat
  BY <1>1, FS_CardinalityType
<1>3. alive /\ refCount >= Cardinality(handles) + Cardinality(Counted) /\ refCount \in Nat
  BY DEF CountedOK, RefCountIsExact, TypeOK
<1>4. refCount > 0 /\ refCount' = refCount - 1
  BY <1>1, <1>2, <1>3 DEF Unref, Less
<1>5. ASSUME ~alive' PROVE handles = {} /\ Counted \ {x} = {} /\ refCount' = 0
  <2>1. refCount' = 0
    BY <1>5 DEF Unref
  <2>2. Cardinality(handles) = 0 /\ Cardinality(Counted \ {x}) = 0
    BY <2>1, <1>1, <1>2, <1>3, <1>4
  <2> QED BY <2>1, <2>2, <1>1, FS_EmptySet
<1>6. alive' => tasks' = left
  BY DEF Unref
<1> QED BY <1>3, <1>4, <1>5, <1>6

(* The same of a handle.                                                   *)
LEMMA LastHandle ==
  ASSUME TypeOK, CountedOK, NEW left, Unref(left), NEW t \in handles
  PROVE  /\ refCount > 0 /\ refCount' = refCount - 1 /\ alive
         /\ alive' => tasks' = left
         /\ ~alive' => handles = {t} /\ Counted = {} /\ refCount' = 0
<1>1. /\ IsFiniteSet(Counted) /\ IsFiniteSet(handles)
      /\ IsFiniteSet(handles \ {t}) /\ Cardinality(handles \ {t}) = Cardinality(handles) - 1
  BY FS_RemoveElement DEF CountedOK
<1>2. /\ Cardinality(handles) \in Nat /\ Cardinality(Counted) \in Nat
      /\ Cardinality(handles \ {t}) \in Nat
  BY <1>1, FS_CardinalityType
<1>3. alive /\ refCount >= Cardinality(handles) + Cardinality(Counted) /\ refCount \in Nat
  BY DEF CountedOK, RefCountIsExact, TypeOK
<1>4. refCount > 0 /\ refCount' = refCount - 1
  BY <1>1, <1>2, <1>3 DEF Unref, Less
<1>5. ASSUME ~alive' PROVE Counted = {} /\ handles \ {t} = {} /\ refCount' = 0
  <2>1. refCount' = 0
    BY <1>5 DEF Unref
  <2>2. Cardinality(Counted) = 0 /\ Cardinality(handles \ {t}) = 0
    BY <2>1, <1>1, <1>2, <1>3, <1>4
  <2> QED BY <2>1, <2>2, <1>1, FS_EmptySet
<1>6. alive' => tasks' = left
  BY DEF Unref
<1> QED BY <1>3, <1>4, <1>5, <1>6

(* A task that is counted out.                                             *)
LEMMA CountsLess ==
  ASSUME IInv, IInv', CountedOK, NEW x \in Tasks, Needs(x), NEW left, Unref(left),
         UNCHANGED <<handles, env>>,
         \A y \in Tasks : Needs(y)' => Needs(y) /\ y # x,
         alive' => \A y \in Tasks : Needs(y) /\ y # x => Needs(y)'
  PROVE  CountedOK'
<1>1. /\ Counted \subseteq Tasks /\ Counted' \subseteq Tasks
      /\ \A y : y \in Counted <=> Needs(y)
      /\ \A y : y \in Counted' <=> Needs(y)'
  BY CountedIs, CountedIsNext DEF IInv
<1>2. x \in Counted /\ Counted' \subseteq Counted \ {x} /\ (alive' => Counted' = Counted \ {x})
  BY <1>1
<1>3. /\ alive /\ refCount > 0 /\ refCount' = refCount - 1
      /\ ~alive' => handles = {} /\ Counted = {x}
  BY <1>2, LastReference DEF IInv
<1>4. /\ IsFiniteSet(handles) /\ IsFiniteSet(Counted) /\ IsFiniteSet(Counted \ {x})
      /\ Cardinality(Counted \ {x}) = Cardinality(Counted) - 1
  BY <1>2, FS_RemoveElement DEF CountedOK
<1>5. /\ IsFiniteSet(Counted')
      /\ Cardinality(handles) \in Nat /\ Cardinality(Counted) \in Nat
      /\ Cardinality(Counted \ {x}) \in Nat
  BY <1>2, <1>4, FS_Subset, FS_CardinalityType
<1>6. /\ refCount >= Cardinality(handles) + Cardinality(Counted)
      /\ AllAlive => refCount = Cardinality(handles) + Cardinality(Counted)
  BY <1>3 DEF CountedOK, RefCountIsExact, AllAlive
<1>7. refCount \in Nat /\ (AllAlive' <=> AllAlive)
  BY DEF IInv, TypeOK, AllAlive
<1>8. alive' => refCount' = Cardinality(handles) + Cardinality(Counted') \/ ~AllAlive
  BY <1>2, <1>3, <1>4, <1>5, <1>6, <1>7
<1>9. alive' => refCount' >= Cardinality(handles) + Cardinality(Counted')
  BY <1>2, <1>3, <1>4, <1>5, <1>6, <1>7
<1>10. ~alive' => handles' = {} /\ Counted' = {}
  BY <1>2, <1>3
<1>11. IsFiniteSet(handles')
  BY <1>4
<1> QED BY <1>5, <1>7, <1>8, <1>9, <1>10, <1>11 DEF CountedOK, RefCountIsExact, AllAlive

(* A handle that is counted out; tasks may be lost with an engine.         *)
LEMMA HandleLess ==
  ASSUME IInv, IInv', CountedOK, NEW t \in handles, NEW left, Unref(left),
         handles' = handles \ {t}, AllAlive' => AllAlive,
         \A y \in Tasks : Needs(y)' => Needs(y),
         alive' /\ AllAlive' => \A y \in Tasks : Needs(y) => Needs(y)'
  PROVE  CountedOK'
<1>1. /\ Counted \subseteq Tasks /\ Counted' \subseteq Tasks
      /\ \A y : y \in Counted <=> Needs(y)
      /\ \A y : y \in Counted' <=> Needs(y)'
  BY CountedIs, CountedIsNext DEF IInv
<1>2. Counted' \subseteq Counted /\ (alive' /\ AllAlive' => Counted' = Counted)
  BY <1>1
<1>3. /\ alive /\ refCount > 0 /\ refCount' = refCount - 1
      /\ ~alive' => handles = {t} /\ Counted = {}
  BY LastHandle DEF IInv
<1>4. /\ IsFiniteSet(handles) /\ IsFiniteSet(Counted) /\ IsFiniteSet(handles \ {t})
      /\ Cardinality(handles \ {t}) = Cardinality(handles) - 1
  BY FS_RemoveElement DEF CountedOK
<1>5. /\ IsFiniteSet(Counted') /\ Cardinality(Counted') <= Cardinality(Counted)
      /\ Cardinality(handles) \in Nat /\ Cardinality(Counted) \in Nat
      /\ Cardinality(Counted') \in Nat /\ Cardinality(handles \ {t}) \in Nat
  BY <1>2, <1>4, FS_Subset, FS_CardinalityType
<1>6. /\ refCount >= Cardinality(handles) + Cardinality(Counted)
      /\ AllAlive => refCount = Cardinality(handles) + Cardinality(Counted)
  BY <1>3 DEF CountedOK, RefCountIsExact, AllAlive
<1>7. refCount \in Nat /\ Cardinality(handles') = Cardinality(handles) - 1
  BY <1>4 DEF IInv, TypeOK
<1>8. alive' /\ AllAlive' => refCount' = Cardinality(handles') + Cardinality(Counted')
  BY <1>2, <1>3, <1>5, <1>6, <1>7
<1>9. alive' => refCount' >= Cardinality(handles') + Cardinality(Counted')
  BY <1>2, <1>3, <1>5, <1>6, <1>7
<1>10. ~alive' => handles' = {} /\ Counted' = {}
  BY <1>2, <1>3
<1>11. IsFiniteSet(handles')
  BY <1>4
<1> QED BY <1>5, <1>8, <1>9, <1>10, <1>11 DEF CountedOK, RefCountIsExact, AllAlive

----------------------------------------------------------------------------
(* What holds of a task that a step leaves where it is, or loses. *)

Fewer(y) ==
  /\ y \in taskQueue' => y \in taskQueue
  /\ y \in performing' => y \in performing
  /\ y \in results' => y \in results
  /\ y \in cancelSignal' => y \in cancelSignal
  /\ y \in discardSignal' => y \in discardSignal
  /\ InTasks(y)' => InTasks(y)
  /\ \A p \in Procs : /\ Carries(p, y)' => Carries(p, y)
                      /\ Brings(p, y)' => Brings(p, y)
                      /\ Discards(p, y)' => Discards(p, y)
  /\ promise'[y] = "none" => promise[y] = "none"

(* Where the tasks of M come to is right, and the others stay or go.       *)
LEMMA WhereKept ==
  ASSUME DiscardOK, SignalOK, NEW M,
         \A x \in M : DiscardAt(x)' /\ SignalAt(x)',
         \A y \in Tasks : y \notin M => Fewer(y)
  PROVE  DiscardOK' /\ SignalOK'
<1>1. ASSUME NEW y \in Tasks, y \notin M PROVE DiscardAt(y)'
  BY <1>1 DEF DiscardOK, DiscardAt, Fewer
<1>2. ASSUME NEW y \in Tasks, y \notin M PROVE SignalAt(y)'
  BY <1>2 DEF SignalOK, SignalAt, Fewer
<1> QED BY <1>1, <1>2 DEF DiscardOK, SignalOK

(* All tasks stay where they are, or go.                                   *)
LEMMA WhereShrinks ==
  ASSUME DiscardOK, SignalOK, \A y \in Tasks : Fewer(y)
  PROVE  DiscardOK' /\ SignalOK'
<1> DEFINE M == {}
<1>1. /\ \A y \in M : DiscardAt(y)' /\ SignalAt(y)'
      /\ \A y \in Tasks : y \notin M => Fewer(y)
  OBVIOUS
<1> HIDE DEF M
<1> QED BY <1>1, WhereKept

(* A task that a step leaves where it is, though perhaps not in the hands  *)
(* of the thread that ended it.                                            *)
Same(y) ==
  /\ y \in taskQueue' <=> y \in taskQueue
  /\ y \in performing' <=> y \in performing
  /\ y \in results' <=> y \in results
  /\ y \in cancelSignal' <=> y \in cancelSignal
  /\ y \in discardSignal' <=> y \in discardSignal
  /\ InTasks(y)' <=> InTasks(y)
  /\ \A p \in Procs : /\ Carries(p, y)' => Carries(p, y)
                      /\ Brings(p, y)' <=> Brings(p, y)
                      /\ Discards(p, y)' <=> Discards(p, y)
                      /\ Unrefs(p, y)' <=> Unrefs(p, y)
  /\ promise'[y] = promise[y]

(* What is needed, and where, does not change for it.                      *)
LEMMA SameFacts ==
  ASSUME NEW y, Same(y)
  PROVE  Fewer(y) /\ (Needs(y)' <=> Needs(y)) /\ (Somewhere(y)' <=> Somewhere(y))
BY DEF Same, Fewer, Needs, Somewhere

(* Some tasks go to another place, and the others stay.                    *)
LEMMA MovedSome ==
  ASSUME DiscardOK, SignalOK, OpenOK, NEW M, UNCHANGED <<env, owner>>,
         \A x \in M : DiscardAt(x)' /\ SignalAt(x)' /\ OpenAt(x)',
         \A y \in Tasks : y \notin M => Same(y)
  PROVE  DiscardOK' /\ SignalOK' /\ OpenOK'
<1>1. \A y \in Tasks : y \notin M => Fewer(y)
  BY SameFacts
<1>2. DiscardOK' /\ SignalOK'
  BY <1>1, WhereKept
<1>3. \A y \in Tasks : y \notin M => promise'[y] = promise[y] /\ (Somewhere(y)' <=> Somewhere(y))
  BY SameFacts DEF Same
<1>4. \A y : IsValid(y)' <=> IsValid(y)
  BY DEF IsValid
<1>5. OpenOK'
  BY <1>3, <1>4 DEF OpenOK, OpenAt
<1> QED BY <1>2, <1>5

(* One task goes to another place, and the others stay.                    *)
LEMMA MovedOne ==
  ASSUME DiscardOK, SignalOK, OpenOK, NEW x \in Tasks, UNCHANGED <<env, owner>>,
         DiscardAt(x)', SignalAt(x)', OpenAt(x)', \A y \in Tasks : y # x => Same(y)
  PROVE  DiscardOK' /\ SignalOK' /\ OpenOK'
<1> DEFINE M == {x}
<1>1. /\ \A y \in M : DiscardAt(y)' /\ SignalAt(y)' /\ OpenAt(y)'
      /\ \A y \in Tasks : y \notin M => Same(y)
  OBVIOUS
<1> HIDE DEF M
<1> QED BY <1>1, MovedSome

(* A task that nobody discards or is to hear of.                           *)
LEMMA Quiet ==
  ASSUME NEW x, \A q \in Procs : ~Discards(q, x)', x \notin cancelSignal' \cup discardSignal'
  PROVE  DiscardAt(x)' /\ SignalAt(x)'
BY DEF DiscardAt, SignalAt

(* What a thread carries is nowhere else.                                  *)
LEMMA CarriedOnly ==
  ASSUME IInv, RInv, NEW p \in Procs, NEW x \in Tasks, Carries(p, x)
  PROVE  /\ x \notin taskQueue \cup performing \cup results /\ ~InTasks(x)
         /\ promise[x] # "none"
         /\ \A q \in Procs : (Carries(q, x) => q = p) /\ ~Discards(q, x)
         /\ Brings(p, x) => x \notin cancelSignal \cup discardSignal
BY DEF IInv, RInv, PlacesOK, AtOnePlace, ExecutedOK, DiscardOK, DiscardAt, SignalOK, SignalAt

(* Nobody carries what has a place.                                        *)
LEMMA PlacedOnly ==
  ASSUME IInv, RInv, NEW x \in Tasks,
         x \in taskQueue \/ x \in performing \/ x \in results \/ InTasks(x)
  PROVE  /\ x \notin cancelSignal \cup discardSignal /\ promise[x] # "none"
         /\ \A q \in Procs : ~Carries(q, x) /\ ~Discards(q, x) /\ ~Brings(q, x) /\ ~Unrefs(q, x)
<1>1. /\ x \notin cancelSignal \cup discardSignal /\ promise[x] # "none"
      /\ \A q \in Procs : ~Carries(q, x) /\ ~Discards(q, x)
  BY DEF IInv, RInv, PlacesOK, AtOnePlace, ExecutedOK, DiscardOK, DiscardAt, SignalOK, SignalAt
<1>2. \A q \in Procs : ~Brings(q, x) /\ ~Unrefs(q, x)
  BY <1>1 DEF Carries, Discards, Brings, Unrefs
<1> QED BY <1>1, <1>2

(* A task that has not been executed is nowhere.                           *)
LEMMA NewIsNowhere ==
  ASSUME IInv, RInv, NEW x \in Tasks, promise[x] = "none"
  PROVE  /\ x \notin cancelSignal \cup discardSignal
         /\ x \notin taskQueue \cup performing \cup results /\ ~InTasks(x)
         /\ \A q \in Procs : ~Carries(q, x) /\ ~Discards(q, x) /\ ~Brings(q, x) /\ ~Unrefs(q, x)
<1>1. /\ x \notin cancelSignal \cup discardSignal
      /\ x \notin taskQueue \cup performing \cup results /\ ~InTasks(x)
      /\ \A q \in Procs : ~Carries(q, x) /\ ~Discards(q, x)
  BY DEF IInv, RInv, ExecutedOK, DiscardOK, DiscardAt, SignalOK, SignalAt
<1>2. \A q \in Procs : ~Brings(q, x) /\ ~Unrefs(q, x)
  BY <1>1 DEF Carries, Discards, Brings, Unrefs
<1> QED BY <1>1, <1>2

(* A job other than to start a task brings no next one.                    *)
LEMMA NextKept ==
  ASSUME NextOK, NEW p \in Procs, \A q \in Procs : q # p => job'[q] = job[q],
         job'[p].op # "start" => job'[p].next = None
  PROVE  NextOK'
BY DEF NextOK

----------------------------------------------------------------------------
(* execute *)

(* EnqueueTaskId keeps the invariant.                                      *)
LEMMA EnqueueTaskIdKeepsRInv ==
  ASSUME IInv, IInv', RInv, NEW p \in Procs, EnqueueTaskId(p)
  PROVE  RInv'
<1>1. PICK x \in Tasks :
      /\ job[p].task = x /\ job[p].op = "enqueue" /\ Then(p, Idle)
      /\ taskQueue' = taskQueue \cup {x}
      /\ UNCHANGED <<config, alive, refCount, handles, tasks, currentTaskId, runningCount, env, owner,
                     promise, performing, results, cancelSignal, discardSignal>>
  BY DEF EnqueueTaskId, Doing, IInv, JobOK, runnerVars
<1>2. Carries(p, x) /\ Brings(p, x)
  BY <1>1 DEF Carries, Brings
<1>3. /\ job' \in [Procs -> Jobs] /\ job'[p] = Idle
      /\ \A q \in Procs : q # p => job'[q] = job[q]
  BY <1>1, IdleFields, ThenAt DEF IInv
<1>4. /\ x \notin taskQueue \cup performing \cup results /\ ~InTasks(x)
      /\ \A q \in Procs : (Carries(q, x) => q = p) /\ ~Discards(q, x)
      /\ x \notin cancelSignal \cup discardSignal
  BY <1>2, CarriedOnly
<1>5. \A q \in Procs : ~Discards(q, x)'
  BY <1>3, <1>4, IdleFields DEF Discards
<1>6. DiscardAt(x)' /\ SignalAt(x)'
  BY <1>1, <1>4, <1>5, Quiet
<1>7. OpenAt(x)'
  BY <1>1, <1>2 DEF RInv, OpenOK, OpenAt, Somewhere, IsValid
<1>8. ASSUME NEW y \in Tasks, y # x PROVE Same(y)
  BY <1>8, <1>1, <1>3, IdleFields DEF Same, Carries, Brings, Discards, Unrefs, InTasks
<1>9. DiscardOK' /\ SignalOK' /\ OpenOK'
  BY <1>1, <1>6, <1>7, <1>8, MovedOne DEF RInv
<1>10. Needs(x) /\ Needs(x)'
  BY <1>1, <1>2 DEF Needs
<1>11. CountedOK'
  BY <1>1, <1>8, <1>10, SameFacts, CountsStay DEF RInv, AllAlive
<1>12. NextOK'
  BY <1>3, IdleFields, NextKept DEF RInv
<1> QED BY <1>9, <1>11, <1>12 DEF RInv

(* What is in a list after an element is added at the end.                 *)
LEMMA InAppended ==
  ASSUME NEW S, NEW s \in Seq(S), NEW x \in S
  PROVE  \A y : (\E i \in DOMAIN Append(s, x) : Append(s, x)[i] = y)
                  <=> (\E i \in DOMAIN s : s[i] = y) \/ y = x
<1> DEFINE u == Append(s, x)
<1>1. Len(s) \in Nat /\ DOMAIN s = 1..Len(s)
  BY LenProperties
<1>2. /\ u \in Seq(S) /\ Len(u) = Len(s) + 1
      /\ \A i \in 1..Len(s) : u[i] = s[i]
      /\ u[Len(s) + 1] = x
  BY AppendProperties
<1> HIDE DEF u
<1>3. DOMAIN u = 1..(Len(s) + 1)
  BY <1>2, LenProperties
<1>4. /\ \A i \in DOMAIN u : i \in DOMAIN s \/ i = Len(s) + 1
      /\ DOMAIN s \subseteq DOMAIN u /\ Len(s) + 1 \in DOMAIN u
  BY <1>1, <1>3
<1> QED BY <1>1, <1>2, <1>4 DEF u

(* AddTask keeps the invariant.                                            *)
LEMMA AddTaskKeepsRInv ==
  ASSUME IInv, IInv', RInv, NEW p \in Procs, AddTask(p)
  PROVE  RInv'
<1>1. PICK x \in Tasks :
      /\ job[p].task = x /\ job[p].op = "add" /\ Then(p, Idle) /\ tasks' = Append(tasks, x)
      /\ UNCHANGED <<config, alive, refCount, handles, currentTaskId, runningCount, env, owner, taskState,
                     promise, taskQueue, performing, results, cancelSignal, discardSignal>>
  BY DEF AddTask, Doing, IInv, JobOK, taskVars, placeVars
<1>2. Carries(p, x) /\ Brings(p, x)
  BY <1>1 DEF Carries, Brings
<1>3. /\ job' \in [Procs -> Jobs] /\ job'[p] = Idle
      /\ \A q \in Procs : q # p => job'[q] = job[q]
  BY <1>1, IdleFields, ThenAt DEF IInv
<1>4. /\ x \notin taskQueue \cup performing \cup results /\ ~InTasks(x)
      /\ \A q \in Procs : (Carries(q, x) => q = p) /\ ~Discards(q, x)
      /\ x \notin cancelSignal \cup discardSignal
  BY <1>2, CarriedOnly
<1>5. \A q \in Procs : ~Discards(q, x)'
  BY <1>3, <1>4, IdleFields DEF Discards
<1>6. DiscardAt(x)' /\ SignalAt(x)'
  BY <1>1, <1>4, <1>5, Quiet
<1>0. \A y : InTasks(y)' <=> InTasks(y) \/ y = x
  <2>1. tasks \in Seq(Tasks)
    BY DEF IInv, TypeOK
  <2>2. \A y : (\E i \in DOMAIN Append(tasks, x) : Append(tasks, x)[i] = y)
                 <=> (\E i \in DOMAIN tasks : tasks[i] = y) \/ y = x
    BY <2>1, InAppended
  <2> QED BY <1>1, <2>2 DEF InTasks
<1>7. OpenAt(x)'
  BY <1>0, <1>1, <1>2 DEF RInv, OpenOK, OpenAt, Somewhere, IsValid
<1>8. ASSUME NEW y \in Tasks, y # x PROVE Same(y)
  BY <1>0, <1>8, <1>1, <1>3, IdleFields DEF Same, Carries, Brings, Discards, Unrefs
<1>9. DiscardOK' /\ SignalOK' /\ OpenOK'
  BY <1>1, <1>6, <1>7, <1>8, MovedOne DEF RInv
<1>10. Needs(x) /\ Needs(x)'
  BY <1>0, <1>1, <1>2 DEF Needs
<1>11. CountedOK'
  BY <1>1, <1>8, <1>10, SameFacts, CountsStay DEF RInv, AllAlive
<1>12. NextOK'
  BY <1>3, IdleFields, NextKept DEF RInv
<1> QED BY <1>9, <1>11, <1>12 DEF RInv

(* StartNext keeps the invariant.                                          *)
LEMMA StartNextKeepsRInv ==
  ASSUME IInv, IInv', RInv, NEW p \in Procs, StartNext(p)
  PROVE  RInv'
<1>1. PICK x \in Tasks :
      /\ job[p].next = x /\ job[p].op = "start" /\ Then(p, Idle)
      /\ taskQueue' = taskQueue \cup {x}
      /\ UNCHANGED <<config, alive, refCount, handles, tasks, runningCount, env, owner,
                     promise, performing, results, cancelSignal, discardSignal>>
  BY DEF StartNext, Doing, IInv, JobOK
<1>2. Carries(p, x) /\ Brings(p, x)
  BY <1>1 DEF Carries, Brings
<1>3. /\ job' \in [Procs -> Jobs] /\ job'[p] = Idle
      /\ \A q \in Procs : q # p => job'[q] = job[q]
  BY <1>1, IdleFields, ThenAt DEF IInv
<1>4. /\ x \notin taskQueue \cup performing \cup results /\ ~InTasks(x)
      /\ \A q \in Procs : (Carries(q, x) => q = p) /\ ~Discards(q, x)
      /\ x \notin cancelSignal \cup discardSignal
  BY <1>2, CarriedOnly
<1>5. \A q \in Procs : ~Discards(q, x)'
  BY <1>3, <1>4, IdleFields DEF Discards
<1>6. DiscardAt(x)' /\ SignalAt(x)'
  BY <1>1, <1>4, <1>5, Quiet
<1>7. OpenAt(x)'
  BY <1>1, <1>2 DEF RInv, OpenOK, OpenAt, Somewhere, IsValid
<1>8. ASSUME NEW y \in Tasks, y # x PROVE Same(y)
  BY <1>8, <1>1, <1>3, IdleFields DEF Same, Carries, Brings, Discards, Unrefs, InTasks
<1>9. DiscardOK' /\ SignalOK' /\ OpenOK'
  BY <1>1, <1>6, <1>7, <1>8, MovedOne DEF RInv
<1>10. Needs(x) /\ Needs(x)'
  BY <1>1, <1>2 DEF Needs
<1>11. CountedOK'
  BY <1>1, <1>8, <1>10, SameFacts, CountsStay DEF RInv, AllAlive
<1>12. NextOK'
  BY <1>3, IdleFields, NextKept DEF RInv
<1> QED BY <1>9, <1>11, <1>12 DEF RInv

(* ExecuteSequence keeps the invariant.                                    *)
LEMMA ExecuteSequenceKeepsRInv ==
  ASSUME IInv, IInv', RInv, NEW t \in Threads, NEW x \in Tasks, ExecuteSequence(t, x)
  PROVE  RInv'
<1>1. /\ t \in Procs /\ job[t] = Idle /\ promise[x] = "none" /\ alive
      /\ UNCHANGED <<config, alive, handles, tasks, runningCount, env, owner, taskState,
                     taskQueue, performing, results, cancelSignal, discardSignal>>
      /\ refCount' = refCount + 1 /\ promise' = [promise EXCEPT ![x] = "open"]
  BY DEF ExecuteSequence, Procs, Free, IsIdle, Executed, placeVars
<1>2. PICK n \in Jobs : /\ Then(t, n) /\ n.task = x /\ n.op \in {"enqueue", "add"} /\ n.next = None
  BY JobFields DEF ExecuteSequence, JobOps
<1>3. /\ job' \in [Procs -> Jobs] /\ job'[t] = n
      /\ \A q \in Procs : q # t => job'[q] = job[q]
  BY <1>1, <1>2, ThenAt DEF IInv
<1>4. /\ x \notin cancelSignal \cup discardSignal
      /\ x \notin taskQueue \cup performing \cup results /\ ~InTasks(x)
      /\ \A q \in Procs : ~Discards(q, x) /\ ~Brings(q, x) /\ ~Unrefs(q, x)
  BY <1>1, NewIsNowhere
<1>5. promise'[x] = "open" /\ \A y \in Tasks : y # x => promise'[y] = promise[y]
  BY <1>1 DEF IInv, TypeOK
<1>6. (\A q \in Procs : ~Discards(q, x)') /\ Brings(t, x)'
  BY <1>1, <1>2, <1>3, <1>4 DEF Discards, Brings
<1>7. DiscardAt(x)' /\ SignalAt(x)'
  BY <1>1, <1>4, <1>6, Quiet
<1>8. OpenAt(x)'
  BY <1>1, <1>5, <1>6 DEF OpenAt, Somewhere
<1>9. ASSUME NEW y \in Tasks, y # x PROVE Same(y)
  BY <1>9, <1>1, <1>2, <1>3, <1>5, IdleFields DEF Same, Carries, Brings, Discards, Unrefs, InTasks
<1>10. DiscardOK' /\ SignalOK' /\ OpenOK'
  BY <1>1, <1>7, <1>8, <1>9, MovedOne DEF RInv
<1>11. ~Needs(x) /\ Needs(x)'
  BY <1>1, <1>4, <1>6 DEF Needs
<1>12. CountedOK'
  BY <1>1, <1>9, <1>11, SameFacts, CountsMore DEF RInv
<1>13. NextOK'
  BY <1>1, <1>2, <1>3, NextKept DEF RInv
<1> QED BY <1>10, <1>12, <1>13 DEF RInv

(* What a thread discards is nowhere else.                                 *)
LEMMA DiscardedOnly ==
  ASSUME IInv, RInv, NEW p \in Procs, NEW x \in Tasks, Discards(p, x)
  PROVE  /\ x \notin taskQueue \cup performing \cup results /\ ~InTasks(x)
         /\ promise[x] # "none"
         /\ \A q \in Procs : ~Carries(q, x) /\ (Discards(q, x) => q = p)
         /\ \A q \in Procs : Brings(q, x) \/ Unrefs(q, x) => q = p
         /\ x \notin cancelSignal \cup discardSignal
<1>1. /\ x \notin taskQueue \cup performing \cup results /\ ~InTasks(x)
      /\ promise[x] # "none"
      /\ \A q \in Procs : ~Carries(q, x) /\ (Discards(q, x) => q = p)
  BY DEF RInv, DiscardOK, DiscardAt
<1>2. Brings(p, x)
  BY DEF Discards, Brings
<1>3. \A q \in Procs : Brings(q, x) \/ Unrefs(q, x) => q = p
  BY <1>1 DEF Brings, Unrefs, Carries, Discards
<1>4. x \notin cancelSignal \cup discardSignal
  BY <1>2 DEF RInv, SignalOK, SignalAt
<1> QED BY <1>1, <1>3, <1>4

(* A task whose engine is going: not every engine lives.                   *)
LEMMA OwnerIsThread ==
  ASSUME TypeOK, NEW x \in Tasks, MayBeInvalid(x)
  PROVE  ~IsValid(x) /\ ~AllAlive
BY RunnerConstants DEF TypeOK, MayBeInvalid, IsValid, AllAlive

(* A task that lets go of the runner takes no other task away with it.     *)
LEMMA LetGo ==
  ASSUME IInv, CountedOK, NEW x \in Tasks, Needs(x), ~InTasks(x), Unref(tasks)
  PROVE  \A y \in Tasks : InTasks(y)' <=> InTasks(y)
<1>1. \A y : y \in Counted <=> Needs(y)
  BY CountedIs DEF IInv
<1>2. /\ alive' => tasks' = tasks
      /\ ~alive' => Counted = {x}
  BY <1>1, LastReference DEF IInv
<1>3. ~alive' => tasks' = <<>> /\ \A y \in Tasks : ~InTasks(y)
  BY <1>1, <1>2 DEF Unref, Needs
<1> QED BY <1>2, <1>3 DEF InTasks

(* RejectError keeps the invariant.                                        *)
LEMMA RejectErrorKeepsRInv ==
  ASSUME IInv, IInv', RInv, NEW p \in Procs, RejectError(p)
  PROVE  RInv'
<1>1. PICK x \in Tasks :
      /\ job[p].task = x /\ job[p].op = "discard" /\ Then(p, Idle)
      /\ \/ Unref(tasks) /\ discardSignal' = discardSignal \cup {x}
         \/ MayBeInvalid(x) /\ UNCHANGED <<refCount, alive, tasks, discardSignal>>
      /\ UNCHANGED <<config, handles, currentTaskId, runningCount, env, owner, taskState,
                     promise, taskQueue, performing, results, cancelSignal>>
  BY DEF RejectError, Doing, IInv, JobOK, taskVars
<1>2. Discards(p, x) /\ Brings(p, x) /\ Needs(x)
  BY <1>1 DEF Discards, Brings, Needs
<1>3. /\ job' \in [Procs -> Jobs] /\ job'[p] = Idle
      /\ \A q \in Procs : q # p => job'[q] = job[q]
  BY <1>1, IdleFields, ThenAt DEF IInv
<1>4. /\ x \notin taskQueue \cup performing \cup results /\ ~InTasks(x)
      /\ promise[x] # "none"
      /\ \A q \in Procs : Discards(q, x) => q = p
      /\ \A q \in Procs : Brings(q, x) \/ Unrefs(q, x) => q = p
      /\ x \notin cancelSignal \cup discardSignal
  BY <1>2, DiscardedOnly
<1>5. \A q \in Procs : ~Discards(q, x)' /\ ~Brings(q, x)' /\ ~Unrefs(q, x)'
  BY <1>3, <1>4, IdleFields DEF Discards, Brings, Unrefs
<1>6. \A y \in Tasks : InTasks(y)' <=> InTasks(y)
  BY <1>1, <1>2, <1>4, LetGo DEF RInv, InTasks
<1>7. DiscardAt(x)' /\ SignalAt(x)'
  BY <1>1, <1>4, <1>5, <1>6 DEF DiscardAt, SignalAt
<1>8. OpenAt(x)'
  <2>1. CASE discardSignal' = discardSignal \cup {x}
    BY <2>1, <1>1, <1>2 DEF RInv, OpenOK, OpenAt, Somewhere, IsValid
  <2>2. CASE MayBeInvalid(x)
    BY <2>2, <1>1 DEF OpenAt, IsValid, MayBeInvalid
  <2> QED BY <1>1, <2>1, <2>2
<1>9. ASSUME NEW y \in Tasks, y # x PROVE Same(y)
  BY <1>6, <1>9, <1>1, <1>3, IdleFields DEF Same, Carries, Brings, Discards, Unrefs
<1>10. DiscardOK' /\ SignalOK' /\ OpenOK'
  BY <1>1, <1>7, <1>8, <1>9, MovedOne DEF RInv
<1>11. ~Needs(x)'
  BY <1>1, <1>4, <1>5, <1>6 DEF Needs
<1>12. \A y \in Tasks : Needs(y)' <=> Needs(y) /\ y # x
  BY <1>2, <1>9, <1>11, SameFacts
<1>13. CountedOK'
  <2>1. CASE Unref(tasks)
    BY <2>1, <1>1, <1>2, <1>12, CountsLess DEF RInv
  <2>2. CASE MayBeInvalid(x) /\ UNCHANGED <<refCount, alive>>
    <3>1. ~AllAlive'
      BY <2>2, <1>1, OwnerIsThread DEF IInv, AllAlive
    <3> QED BY <2>2, <3>1, <1>1, <1>12, CountsStay DEF RInv
  <2> QED BY <1>1, <2>1, <2>2
<1>14. NextOK'
  BY <1>3, IdleFields, NextKept DEF RInv
<1> QED BY <1>10, <1>13, <1>14 DEF RInv

----------------------------------------------------------------------------
(* The workers, and the end of a task. *)

(* DropTask keeps the invariant.                                           *)
LEMMA DropTaskKeepsRInv ==
  ASSUME IInv, IInv', RInv, NEW w \in Workers, NEW x \in Tasks,
         IsIdle(w), x \in taskQueue \cup performing, MayBeInvalid(x), DropTask(w, x),
         taskQueue' = taskQueue \ {x}, performing' = performing \ {x},
         UNCHANGED <<alive, refCount, handles, tasks, env, owner, promise,
                     results, cancelSignal, discardSignal>>
  PROVE  RInv'
<1>1. w \in Procs /\ job[w] = Idle
  BY DEF Procs, IsIdle
<1>2. PICK n \in Jobs : /\ job' = [job EXCEPT ![w] = n]
                        /\ n.op \in {"idle", "unref"} /\ n.next = None
                        /\ n.op = "unref" => n.task = x
  <2>1. Then(w, Job("unref", x)) \/ job' = job
    BY DEF DropTask
  <2>2. job' = job => Then(w, Idle)
    BY <1>1 DEF Then, IInv, TypeOK
  <2> QED BY <2>1, <2>2, JobFields, IdleFields DEF JobOps, Then
<1>3. /\ job' \in [Procs -> Jobs] /\ job'[w] = n
      /\ \A q \in Procs : q # w => job'[q] = job[q]
  BY <1>1, <1>2 DEF IInv, TypeOK
<1>4. /\ x \notin cancelSignal \cup discardSignal
      /\ \A q \in Procs : ~Discards(q, x)
  BY PlacedOnly
<1>5. \A q \in Procs : ~Discards(q, x)'
  BY <1>2, <1>3, <1>4 DEF Discards
<1>6. DiscardAt(x)' /\ SignalAt(x)'
  BY <1>4, <1>5, Quiet
<1>7. OpenAt(x)' /\ ~AllAlive'
  BY OwnerIsThread DEF IInv, OpenAt, IsValid, AllAlive
<1>8. ASSUME NEW y \in Tasks, y # x PROVE Same(y)
  BY <1>8, <1>1, <1>2, <1>3, IdleFields DEF Same, Carries, Brings, Discards, Unrefs, InTasks
<1>9. DiscardOK' /\ SignalOK' /\ OpenOK'
  BY <1>6, <1>7, <1>8, MovedOne DEF RInv
<1>10. Needs(x)
  BY DEF Needs
<1>11. CountedOK'
  BY <1>7, <1>8, <1>10, SameFacts, CountsStay DEF RInv
<1>12. NextOK'
  BY <1>1, <1>2, <1>3, NextKept DEF RInv
<1> QED BY <1>9, <1>11, <1>12 DEF RInv

(* A task that a worker hands on keeps the invariant.                      *)
LEMMA HandedOnKeepsRInv ==
  ASSUME IInv, IInv', RInv, NEW x \in Tasks,
         x \in taskQueue \cup performing, x \in performing' \cup results',
         \A y \in Tasks : y # x => /\ y \in taskQueue' <=> y \in taskQueue
                                   /\ y \in performing' <=> y \in performing
                                   /\ y \in results' <=> y \in results,
         UNCHANGED <<alive, refCount, handles, tasks, env, owner, promise,
                     cancelSignal, discardSignal, job>>
  PROVE  RInv'
<1>1. /\ x \notin cancelSignal \cup discardSignal
      /\ \A q \in Procs : ~Discards(q, x)
  BY PlacedOnly
<1>2. \A q \in Procs : ~Discards(q, x)'
  BY <1>1 DEF Discards
<1>3. DiscardAt(x)' /\ SignalAt(x)'
  BY <1>1, <1>2, Quiet
<1>4. OpenAt(x)'
  BY DEF RInv, OpenOK, OpenAt, Somewhere, IsValid
<1>5. ASSUME NEW y \in Tasks, y # x PROVE Same(y)
  BY <1>5 DEF Same, Carries, Brings, Discards, Unrefs, InTasks
<1>6. DiscardOK' /\ SignalOK' /\ OpenOK'
  BY <1>3, <1>4, <1>5, MovedOne DEF RInv
<1>7. Needs(x) /\ Needs(x)'
  BY DEF Needs
<1>8. CountedOK'
  BY <1>5, <1>7, SameFacts, CountsStay DEF RInv, AllAlive
<1>9. NextOK'
  BY DEF RInv, NextOK
<1> QED BY <1>6, <1>8, <1>9 DEF RInv

(* PerformTask keeps the invariant.                                        *)
LEMMA PerformTaskKeepsRInv ==
  ASSUME IInv, IInv', RInv, NEW w \in Workers, NEW x \in Tasks, PerformTask(w, x)
  PROVE  RInv'
<1>1. /\ IsIdle(w) /\ x \in taskQueue /\ taskQueue' = taskQueue \ {x}
      /\ \/ performing' = performing \cup {x} /\ job' = job
         \/ MayBeInvalid(x) /\ DropTask(w, x) /\ performing' = performing
      /\ UNCHANGED <<alive, refCount, handles, tasks, env, owner, promise,
                     results, cancelSignal, discardSignal>>
  BY DEF PerformTask, UpdateTask
<1>2. x \notin performing
  BY <1>1 DEF IInv, PlacesOK, AtOnePlace
<1>3. CASE performing' = performing \cup {x} /\ job' = job
  BY <1>1, <1>3, HandedOnKeepsRInv
<1>4. CASE MayBeInvalid(x) /\ DropTask(w, x) /\ performing' = performing
  BY <1>1, <1>2, <1>4, DropTaskKeepsRInv
<1> QED BY <1>1, <1>3, <1>4

(* NotifyTaskResult keeps the invariant.                                   *)
LEMMA NotifyTaskResultKeepsRInv ==
  ASSUME IInv, IInv', RInv, NEW w \in Workers, NEW x \in Tasks, NotifyTaskResult(w, x)
  PROVE  RInv'
<1>1. /\ IsIdle(w) /\ x \in performing /\ performing' = performing \ {x}
      /\ \/ results' = results \cup {x} /\ job' = job
         \/ MayBeInvalid(x) /\ DropTask(w, x) /\ results' = results
      /\ UNCHANGED <<alive, refCount, handles, tasks, env, owner, promise,
                     taskQueue, cancelSignal, discardSignal>>
  BY DEF NotifyTaskResult, taskVars
<1>2. x \notin taskQueue
  BY <1>1 DEF IInv, PlacesOK, AtOnePlace
<1>3. CASE results' = results \cup {x} /\ job' = job
  BY <1>1, <1>3, HandedOnKeepsRInv
<1>4. CASE MayBeInvalid(x) /\ DropTask(w, x) /\ results' = results
  BY <1>1, <1>2, <1>4, DropTaskKeepsRInv
<1> QED BY <1>1, <1>3, <1>4

(* A promise that is settled is open no more.                              *)
LEMMA SettledIs ==
  ASSUME TypeOK, NEW x \in Tasks, Settle(x)
  PROVE  promise'[x] \in {"settled", "settledTwice"} /\ \A y \in Tasks : y # x => promise'[y] = promise[y]
BY DEF Settle, TypeOK

(* HandleTaskResult keeps the invariant.                                   *)
LEMMA HandleTaskResultKeepsRInv ==
  ASSUME IInv, IInv', RInv, NEW t \in Threads, NEW x \in Tasks, HandleTaskResult(t, x)
  PROVE  RInv'
<1> DEFINE n == Job("unref", x)
<1>1. /\ t \in Procs /\ job[t] = Idle /\ x \in results /\ results' = results \ {x}
      /\ Settle(x) /\ Then(t, n)
      /\ UNCHANGED <<alive, refCount, handles, tasks, env, owner,
                     taskQueue, performing, cancelSignal, discardSignal>>
  BY DEF HandleTaskResult, Procs, Free, IsIdle, runnerVars
<1>2. n \in Jobs /\ n.op = "unref" /\ n.task = x /\ n.next = None
  BY JobFields DEF JobOps
<1> HIDE DEF n
<1>3. /\ job' \in [Procs -> Jobs] /\ job'[t] = n
      /\ \A q \in Procs : q # t => job'[q] = job[q]
  BY <1>1, <1>2, ThenAt DEF IInv
<1>4. /\ x \notin cancelSignal \cup discardSignal
      /\ \A q \in Procs : ~Discards(q, x) /\ ~Brings(q, x)
      /\ x \notin taskQueue \cup performing /\ ~InTasks(x)
  BY <1>1, PlacedOnly DEF IInv, PlacesOK, AtOnePlace
<1>5. promise'[x] # "open" /\ \A y \in Tasks : y # x => promise'[y] = promise[y]
  BY <1>1, SettledIs DEF IInv
<1>6. \A q \in Procs : ~Discards(q, x)' /\ ~Brings(q, x)'
  BY <1>2, <1>3, <1>4 DEF Discards, Brings
<1>7. DiscardAt(x)' /\ SignalAt(x)'
  BY <1>1, <1>4, <1>6, Quiet
<1>8. OpenAt(x)'
  BY <1>1, <1>4, <1>5, <1>6 DEF OpenAt, Somewhere, InTasks
<1>9. ASSUME NEW y \in Tasks, y # x PROVE Same(y)
  BY <1>9, <1>1, <1>2, <1>3, <1>5, IdleFields DEF Same, Carries, Brings, Discards, Unrefs, InTasks
<1>10. DiscardOK' /\ SignalOK' /\ OpenOK'
  BY <1>1, <1>7, <1>8, <1>9, MovedOne DEF RInv
<1>11. Needs(x) /\ Needs(x)'
  BY <1>1, <1>2, <1>3 DEF Needs, Unrefs
<1>12. CountedOK'
  BY <1>1, <1>9, <1>11, SameFacts, CountsStay DEF RInv, AllAlive
<1>13. NextOK'
  BY <1>1, <1>2, <1>3, NextKept DEF RInv
<1> QED BY <1>10, <1>12, <1>13 DEF RInv

(* Tasks that all stay where they are.                                     *)
LEMMA AllSame ==
  ASSUME IInv, IInv', RInv, NextOK', \A y \in Tasks : Same(y),
         UNCHANGED <<env, owner, alive, refCount, handles>>
  PROVE  RInv'
<1>1. DiscardOK' /\ SignalOK'
  BY SameFacts, WhereShrinks DEF RInv
<1>2. \A y : IsValid(y)' <=> IsValid(y)
  BY DEF IsValid
<1>3. OpenOK'
  BY <1>2, SameFacts DEF RInv, OpenOK, OpenAt, Same
<1>4. CountedOK'
  BY SameFacts, CountsStay DEF RInv, AllAlive
<1> QED BY <1>1, <1>3, <1>4 DEF RInv

(* UnrefRunner keeps the invariant.                                        *)
LEMMA UnrefRunnerKeepsRInv ==
  ASSUME IInv, IInv', RInv, NEW p \in Procs, UnrefRunner(p)
  PROVE  RInv'
<1>1. PICK x \in Tasks :
      /\ job[p].task = x /\ job[p].op = "unref" /\ Unref(tasks)
      /\ Then(p, IF alive' THEN [job[p] EXCEPT !.op = "trigger"] ELSE AfterTrigger(p))
      /\ UNCHANGED <<config, handles, currentTaskId, runningCount, env, owner, taskState,
                     promise, taskQueue, performing, results, cancelSignal, discardSignal>>
  BY DEF UnrefRunner, Doing, IInv, JobOK, taskVars, placeVars
<1>2. Carries(p, x) /\ Unrefs(p, x) /\ Needs(x)
  BY <1>1 DEF Carries, Unrefs, Needs
<1>3. PICK n \in Jobs : /\ Then(p, n) /\ n.op \in {"trigger", "remove", "idle"} /\ n.next = None
                        /\ n.op # "idle" => n.task = x
  <2>1. job[p] \in Jobs /\ job[p].next = None
    BY <1>1 DEF IInv, TypeOK, RInv, NextOK
  <2>2. [job[p] EXCEPT !.op = "trigger"] \in Jobs
    BY <2>1 DEF Jobs
  <2>3. /\ [job[p] EXCEPT !.op = "trigger"].op = "trigger"
        /\ [job[p] EXCEPT !.op = "trigger"].task = x
        /\ [job[p] EXCEPT !.op = "trigger"].next = None
    BY <1>1, <2>1 DEF Jobs
  <2>4. /\ Job("remove", x) \in Jobs /\ Job("remove", x).op = "remove"
        /\ Job("remove", x).task = x /\ Job("remove", x).next = None
    BY JobFields DEF JobOps
  <2>5. AfterTrigger(p) = Job("remove", x) \/ AfterTrigger(p) = Idle
    BY <1>1 DEF AfterTrigger
  <2>6. \/ Then(p, [job[p] EXCEPT !.op = "trigger"])
        \/ Then(p, Job("remove", x)) \/ Then(p, Idle)
    BY <1>1, <2>5
  <2> QED BY <2>2, <2>3, <2>4, <2>6, IdleFields
<1>4. /\ job' \in [Procs -> Jobs] /\ job'[p] = n
      /\ \A q \in Procs : q # p => job'[q] = job[q]
  BY <1>3, ThenAt DEF IInv
<1>5. /\ x \notin taskQueue \cup performing \cup results /\ ~InTasks(x)
      /\ \A q \in Procs : (Carries(q, x) => q = p) /\ ~Discards(q, x)
      /\ promise[x] # "none"
  BY <1>2, CarriedOnly
<1>6. \A q \in Procs : ~Discards(q, x)' /\ ~Brings(q, x)' /\ ~Unrefs(q, x)' /\ ~Brings(q, x)
  BY <1>1, <1>3, <1>4, <1>5 DEF Discards, Brings, Unrefs, Carries
<1>7. \A y \in Tasks : InTasks(y)' <=> InTasks(y)
  BY <1>1, <1>2, <1>5, LetGo DEF RInv
<1>8. DiscardAt(x)' /\ SignalAt(x)'
  BY <1>1, <1>5, <1>6, <1>7 DEF DiscardAt, SignalAt, RInv, SignalOK
<1>9. OpenAt(x)'
  BY <1>1, <1>6, <1>7 DEF RInv, OpenOK, OpenAt, Somewhere, IsValid
<1>10. ASSUME NEW y \in Tasks, y # x PROVE Same(y)
  BY <1>7, <1>10, <1>1, <1>3, <1>4 DEF Same, Carries, Brings, Discards, Unrefs
<1>11. DiscardOK' /\ SignalOK' /\ OpenOK'
  BY <1>1, <1>8, <1>9, <1>10, MovedOne DEF RInv
<1>12. ~Needs(x)'
  BY <1>1, <1>5, <1>6, <1>7 DEF Needs
<1>13. \A y \in Tasks : Needs(y)' <=> Needs(y) /\ y # x
  BY <1>2, <1>10, <1>12, SameFacts
<1>14. CountedOK'
  BY <1>1, <1>2, <1>13, CountsLess DEF RInv
<1>15. NextOK'
  BY <1>3, <1>4, NextKept DEF RInv
<1> QED BY <1>11, <1>14, <1>15 DEF RInv

----------------------------------------------------------------------------
(* Cancellation. *)

(* CancelSeqRunnerTask keeps the invariant.                                *)
LEMMA CancelSeqRunnerTaskKeepsRInv ==
  ASSUME IInv, IInv', RInv, NEW t \in Threads, NEW x \in Tasks, CancelSeqRunnerTask(t, x)
  PROVE  RInv'
<1>1. UNCHANGED <<config, alive, refCount, handles, tasks, env, owner, promise,
                  taskQueue, performing, results, cancelSignal, discardSignal, job>>
  BY DEF CancelSeqRunnerTask, runnerVars, placeVars
<1>2. \A y \in Tasks : Same(y)
  BY <1>1 DEF Same, Carries, Brings, Discards, Unrefs, InTasks
<1>3. NextOK'
  BY <1>1 DEF RInv, NextOK
<1> QED BY <1>1, <1>2, <1>3, AllSame

(* CancelAsyncRunnerTask keeps the invariant.                              *)
LEMMA CancelAsyncRunnerTaskKeepsRInv ==
  ASSUME IInv, IInv', RInv, NEW t \in Threads, NEW x \in Tasks, CancelAsyncRunnerTask(t, x)
  PROVE  RInv'
<1>1. /\ t \in Procs /\ job[t] = Idle
      /\ UNCHANGED <<config, alive, refCount, handles, tasks, env, owner,
                     promise, performing, results, cancelSignal>>
  BY DEF CancelAsyncRunnerTask, Procs, Free, IsIdle, runnerVars
<1>2. CASE /\ x \in taskQueue /\ taskQueue' = taskQueue \ {x}
           /\ discardSignal' = IF IsValid(x) THEN discardSignal \cup {x} ELSE discardSignal
           /\ Then(t, [Job("unref", x) EXCEPT !.cancels = TRUE])
  <2> DEFINE n == [Job("unref", x) EXCEPT !.cancels = TRUE]
  <2>1. n \in Jobs /\ n.op = "unref" /\ n.task = x /\ n.next = None
    BY DEF Job, Jobs, Idle
  <2> HIDE DEF n
  <2>2. /\ job' \in [Procs -> Jobs] /\ job'[t] = n
        /\ \A q \in Procs : q # t => job'[q] = job[q]
    BY <1>1, <1>2, <2>1, ThenAt DEF IInv, n
  <2>3. /\ x \notin cancelSignal \cup discardSignal /\ promise[x] # "none"
        /\ \A q \in Procs : ~Discards(q, x) /\ ~Brings(q, x)
        /\ x \notin performing \cup results /\ ~InTasks(x)
    BY <1>2, PlacedOnly DEF IInv, PlacesOK, AtOnePlace
  <2>4. \A q \in Procs : ~Discards(q, x)' /\ ~Brings(q, x)'
    BY <2>1, <2>2, <2>3 DEF Discards, Brings
  <2>5. DiscardAt(x)' /\ SignalAt(x)'
    BY <1>1, <1>2, <2>3, <2>4 DEF DiscardAt, SignalAt, InTasks
  <2>6. OpenAt(x)'
    BY <1>1, <1>2 DEF RInv, OpenOK, OpenAt, Somewhere, IsValid
  <2>7. ASSUME NEW y \in Tasks, y # x PROVE Same(y)
    BY <2>7, <1>1, <1>2, <2>1, <2>2, IdleFields DEF Same, Carries, Brings, Discards, Unrefs, InTasks
  <2>8. DiscardOK' /\ SignalOK' /\ OpenOK'
    BY <1>1, <2>5, <2>6, <2>7, MovedOne DEF RInv
  <2>9. Needs(x) /\ Needs(x)'
    BY <1>1, <1>2, <2>1, <2>2 DEF Needs, Unrefs
  <2>10. CountedOK'
    BY <1>1, <2>7, <2>9, SameFacts, CountsStay DEF RInv, AllAlive
  <2>11. NextOK'
    BY <1>1, <2>1, <2>2, NextKept DEF RInv
  <2> QED BY <2>8, <2>10, <2>11 DEF RInv
<1>3. CASE Then(t, IF alive THEN Job("remove", x) ELSE Idle) /\ UNCHANGED <<taskQueue, discardSignal>>
  <2> DEFINE n == IF alive THEN Job("remove", x) ELSE Idle
  <2>1. n \in Jobs /\ n.op \in {"remove", "idle"} /\ n.next = None
    BY JobFields, IdleFields DEF JobOps
  <2> HIDE DEF n
  <2>2. /\ job' \in [Procs -> Jobs] /\ job'[t] = n
        /\ \A q \in Procs : q # t => job'[q] = job[q]
    BY <1>1, <1>3, <2>1, ThenAt DEF IInv, n
  <2>3. \A y \in Tasks : Same(y)
    BY <1>1, <1>3, <2>1, <2>2, IdleFields DEF Same, Carries, Brings, Discards, Unrefs, InTasks
  <2>4. NextOK'
    BY <1>1, <2>1, <2>2, NextKept DEF RInv
  <2> QED BY <1>1, <2>3, <2>4, AllSame
<1> QED BY <1>2, <1>3 DEF CancelAsyncRunnerTask

(* RemoveWaitingTask keeps the invariant.                                  *)
LEMMA RemoveWaitingTaskKeepsRInv ==
  ASSUME IInv, IInv', RInv, NEW p \in Procs, RemoveWaitingTask(p)
  PROVE  RInv'
<1>1. PICK x \in Tasks :
      /\ job[p].task = x /\ job[p].op = "remove" /\ tasks' = WithoutTask(x)
      /\ Then(p, IF InTasks(x) THEN Job("discard", x) ELSE Idle)
      /\ UNCHANGED <<config, alive, refCount, handles, currentTaskId, runningCount, env, owner, taskState,
                     promise, taskQueue, performing, results, cancelSignal, discardSignal>>
  BY DEF RemoveWaitingTask, Doing, IInv, JobOK, taskVars, placeVars
<1> DEFINE n == IF InTasks(x) THEN Job("discard", x) ELSE Idle
<1>2. /\ n \in Jobs /\ n.next = None
      /\ InTasks(x) => n.op = "discard" /\ n.task = x
      /\ ~InTasks(x) => n.op = "idle"
  BY JobFields, IdleFields DEF JobOps
<1> HIDE DEF n
<1>3. /\ job' \in [Procs -> Jobs] /\ job'[p] = n
      /\ \A q \in Procs : q # p => job'[q] = job[q]
  BY <1>1, <1>2, ThenAt DEF IInv, n
<1>4. \A y : InTasks(y)' <=> InTasks(y) /\ y # x
  BY <1>1, WithoutTaskFacts DEF InTasks, IInv
<1>5. NextOK'
  BY <1>1, <1>2, <1>3, NextKept DEF RInv
<1>6. ASSUME NEW y \in Tasks, y # x PROVE Same(y)
  BY <1>6, <1>1, <1>2, <1>3, <1>4 DEF Same, Carries, Brings, Discards, Unrefs
<1>7. CASE ~InTasks(x)
  <2>1. Same(x)
    BY <1>7, <1>1, <1>2, <1>3, <1>4 DEF Same, Carries, Brings, Discards, Unrefs
  <2> QED BY <1>1, <1>5, <1>6, <2>1, AllSame
<1>8. CASE InTasks(x)
  <2>1. /\ x \notin cancelSignal \cup discardSignal /\ promise[x] # "none"
        /\ \A q \in Procs : ~Discards(q, x) /\ ~Carries(q, x)
        /\ x \notin taskQueue \cup performing \cup results
    BY <1>8, PlacedOnly DEF IInv, PlacesOK, AtOnePlace
  <2>2. \A q \in Procs : ~Carries(q, x)' /\ (Discards(q, x)' => q = p)
    BY <1>2, <1>3, <1>8, <2>1 DEF Discards, Carries
  <2>3. DiscardAt(x)' /\ SignalAt(x)'
    BY <1>1, <1>4, <2>1, <2>2 DEF DiscardAt, SignalAt
  <2>4. Brings(p, x)'
    BY <1>2, <1>3, <1>8 DEF Brings
  <2>5. OpenAt(x)'
    BY <1>1, <1>8, <2>4 DEF RInv, OpenOK, OpenAt, Somewhere, IsValid
  <2>6. DiscardOK' /\ SignalOK' /\ OpenOK'
    BY <1>1, <1>6, <2>3, <2>5, MovedOne DEF RInv
  <2>7. Needs(x) /\ Needs(x)'
    BY <1>8, <2>4 DEF Needs
  <2>8. CountedOK'
    BY <1>1, <1>6, <2>7, SameFacts, CountsStay DEF RInv, AllAlive
  <2> QED BY <1>5, <2>6, <2>8 DEF RInv
<1> QED BY <1>7, <1>8

(* A task whose owner has heard of its cancellation.                       *)
LEMMA HeardKeepsRInv ==
  ASSUME IInv, IInv', RInv, NEW x \in Tasks, Settle(x), x \in cancelSignal \cup discardSignal,
         cancelSignal' = cancelSignal \ {x}, discardSignal' = discardSignal \ {x},
         UNCHANGED <<alive, refCount, handles, tasks, env, owner, taskQueue, performing, results, job>>
  PROVE  RInv'
<1>1. promise'[x] # "open" /\ \A y \in Tasks : y # x => promise'[y] = promise[y]
  BY SettledIs DEF IInv
<1>2. /\ x \notin taskQueue \cup performing \cup results /\ ~InTasks(x)
      /\ \A p \in Procs : ~Brings(p, x)
  BY DEF RInv, SignalOK, SignalAt
<1>3. \A p \in Procs : ~Brings(p, x)' /\ ~Discards(p, x)'
  BY <1>2 DEF Brings, Discards
<1>4. DiscardAt(x)' /\ SignalAt(x)'
  BY <1>3, Quiet
<1>5. OpenAt(x)'
  BY <1>1, <1>2, <1>3 DEF OpenAt, Somewhere, InTasks
<1>6. ASSUME NEW y \in Tasks, y # x PROVE Same(y)
  BY <1>1, <1>6 DEF Same, Carries, Brings, Discards, Unrefs, InTasks
<1>7. DiscardOK' /\ SignalOK' /\ OpenOK'
  BY <1>4, <1>5, <1>6, MovedOne DEF RInv
<1>8. \A y \in Tasks : Needs(y)' <=> Needs(y)
  BY DEF Needs, Brings, Unrefs, InTasks
<1>9. CountedOK'
  BY <1>8, CountsStay DEF RInv, AllAlive
<1>10. NextOK'
  BY DEF RInv, NextOK
<1> QED BY <1>7, <1>9, <1>10 DEF RInv

(* CancelInner keeps the invariant.                                        *)
LEMMA CancelInnerKeepsRInv ==
  ASSUME IInv, IInv', RInv, NEW t \in Threads, NEW x \in Tasks, CancelInner(t, x)
  PROVE  RInv'
<1>1. /\ x \in cancelSignal /\ cancelSignal' = cancelSignal \ {x} /\ Settle(x)
      /\ UNCHANGED <<alive, refCount, handles, tasks, env, owner,
                     taskQueue, performing, results, discardSignal, job>>
  BY DEF CancelInner, runnerVars
<1>2. x \notin discardSignal
  BY <1>1 DEF RInv, SignalOK, SignalAt
<1> QED BY <1>1, <1>2, HeardKeepsRInv

(* DiscardInner keeps the invariant.                                       *)
LEMMA DiscardInnerKeepsRInv ==
  ASSUME IInv, IInv', RInv, NEW t \in Threads, NEW x \in Tasks, DiscardInner(t, x)
  PROVE  RInv'
<1>1. /\ x \in discardSignal /\ discardSignal' = discardSignal \ {x} /\ Settle(x)
      /\ UNCHANGED <<alive, refCount, handles, tasks, env, owner,
                     taskQueue, performing, results, cancelSignal, job>>
  BY DEF DiscardInner, runnerVars
<1>2. x \notin cancelSignal
  BY <1>1 DEF RInv, SignalOK, SignalAt
<1> QED BY <1>1, <1>2, HeardKeepsRInv

----------------------------------------------------------------------------
(* Handles and engines. *)

(* A handle that lets go of the runner takes no task away with it.         *)
LEMMA LetGoOfHandle ==
  ASSUME IInv, CountedOK, NEW t \in handles, Unref(tasks)
  PROVE  \A y \in Tasks : InTasks(y)' <=> InTasks(y)
<1>1. \A y : y \in Counted <=> Needs(y)
  BY CountedIs DEF IInv
<1>2. /\ alive' => tasks' = tasks
      /\ ~alive' => Counted = {}
  BY LastHandle DEF IInv
<1>3. ~alive' => tasks' = <<>> /\ \A y \in Tasks : ~InTasks(y)
  BY <1>1, <1>2 DEF Unref, Needs
<1> QED BY <1>2, <1>3 DEF InTasks

(* RunnerDestructor keeps the invariant.                                   *)
LEMMA RunnerDestructorKeepsRInv ==
  ASSUME IInv, IInv', RInv, NEW t \in Threads, RunnerDestructor(t)
  PROVE  RInv'
<1>1. /\ t \in handles /\ handles' = handles \ {t} /\ Unref(tasks)
      /\ UNCHANGED <<env, owner, promise, taskQueue, performing, results, cancelSignal, discardSignal, job>>
  BY DEF RunnerDestructor, taskVars, placeVars
<1>2. \A y \in Tasks : InTasks(y)' <=> InTasks(y)
  BY <1>1, LetGoOfHandle DEF RInv
<1>3. \A y \in Tasks : Same(y)
  BY <1>1, <1>2 DEF Same, Carries, Brings, Discards, Unrefs
<1>4. DiscardOK' /\ SignalOK'
  BY <1>3, SameFacts, WhereShrinks DEF RInv
<1>5. \A y : IsValid(y)' <=> IsValid(y)
  BY <1>1 DEF IsValid
<1>6. OpenOK'
  BY <1>3, <1>5, SameFacts DEF RInv, OpenOK, OpenAt, Same
<1>7. CountedOK'
  BY <1>1, <1>3, SameFacts, HandleLess DEF RInv, AllAlive
<1>8. NextOK'
  BY <1>1 DEF RInv, NextOK
<1> QED BY <1>4, <1>6, <1>7, <1>8 DEF RInv

(* DestroyEngine keeps the invariant.                                      *)
LEMMA DestroyEngineKeepsRInv ==
  ASSUME IInv, IInv', RInv, NEW t \in Threads, DestroyEngine(t)
  PROVE  RInv'
<1>1. /\ env' = [env EXCEPT ![t] = "closing"]
      /\ UNCHANGED <<alive, refCount, handles, tasks, owner, promise,
                     taskQueue, performing, results, cancelSignal, discardSignal, job>>
  BY DEF DestroyEngine, runnerVars, taskVars, placeVars
<1>2. \A y \in Tasks : Same(y)
  BY <1>1 DEF Same, Carries, Brings, Discards, Unrefs, InTasks
<1>3. DiscardOK' /\ SignalOK'
  BY <1>2, SameFacts, WhereShrinks DEF RInv
<1>4. (\A y : IsValid(y)' => IsValid(y)) /\ ~AllAlive'
  BY <1>1 DEF IsValid, AllAlive, IInv, TypeOK
<1>5. OpenOK'
  BY <1>2, <1>4, SameFacts DEF RInv, OpenOK, OpenAt, Same
<1>6. CountedOK'
  BY <1>1, <1>2, <1>4, SameFacts, CountsStay DEF RInv
<1>7. NextOK'
  BY <1>1 DEF RInv, NextOK
<1> QED BY <1>3, <1>5, <1>6, <1>7 DEF RInv

(* CleanupHookFunc keeps the invariant.                                    *)
LEMMA CleanupHookFuncKeepsRInv ==
  ASSUME IInv, IInv', RInv, NEW x \in Tasks, CleanupHookFunc(x)
  PROVE  RInv'
<1>1. /\ env[owner[x]] = "closing" /\ InTasks(x) /\ Unref(WithoutTask(x))
      /\ UNCHANGED <<handles, env, owner, promise,
                     taskQueue, performing, results, cancelSignal, discardSignal, job>>
  BY DEF CleanupHookFunc, taskVars, placeVars
<1>2. \A y \in Tasks : InTasks(y)' <=> InTasks(y) /\ y # x
  <2>1. \A y : y \in Counted <=> Needs(y)
    BY CountedIs DEF IInv
  <2>2. x \in Counted
    BY <1>1, <2>1 DEF Needs
  <2>3. /\ alive' => tasks' = WithoutTask(x)
        /\ ~alive' => Counted = {x}
    BY <1>1, <2>2, LastReference DEF IInv, RInv
  <2>4. ~alive' => tasks' = <<>> /\ \A y \in Tasks : InTasks(y) => y = x
    BY <1>1, <2>1, <2>3 DEF Unref, Needs
  <2>5. CASE alive'
    <3>1. /\ \A i \in DOMAIN WithoutTask(x) : WithoutTask(x)[i] # x /\ InTasks(WithoutTask(x)[i])
          /\ \A y : InTasks(y) /\ y # x => \E i \in DOMAIN WithoutTask(x) : WithoutTask(x)[i] = y
      BY WithoutTaskFacts DEF IInv
    <3>2. tasks' = WithoutTask(x)
      BY <2>3, <2>5
    <3>3. \A y : InTasks(y)' <=> \E i \in DOMAIN WithoutTask(x) : WithoutTask(x)[i] = y
      BY <3>2 DEF InTasks
    <3> QED BY <3>1, <3>3
  <2>6. CASE ~alive'
    BY <2>4, <2>6 DEF InTasks
  <2> QED BY <2>5, <2>6
<1>3. /\ x \notin cancelSignal \cup discardSignal
      /\ \A q \in Procs : ~Discards(q, x) /\ ~Brings(q, x) /\ ~Unrefs(q, x)
      /\ x \notin taskQueue \cup performing \cup results
  BY <1>1, PlacedOnly DEF IInv, PlacesOK, AtOnePlace
<1>4. \A q \in Procs : ~Discards(q, x)' /\ ~Brings(q, x)' /\ ~Unrefs(q, x)'
  BY <1>1, <1>3 DEF Discards, Brings, Unrefs
<1>5. DiscardAt(x)' /\ SignalAt(x)'
  BY <1>1, <1>3, <1>4, Quiet
<1>6. OpenAt(x)'
  BY <1>1 DEF OpenAt, IsValid
<1>7. ASSUME NEW y \in Tasks, y # x PROVE Same(y)
  BY <1>1, <1>2, <1>7 DEF Same, Carries, Brings, Discards, Unrefs
<1>8. DiscardOK' /\ SignalOK' /\ OpenOK'
  BY <1>1, <1>5, <1>6, <1>7, MovedOne DEF RInv
<1>9. Needs(x) /\ ~Needs(x)'
  BY <1>1, <1>2, <1>3, <1>4 DEF Needs
<1>10. CountedOK'
  BY <1>1, <1>7, <1>9, SameFacts, CountsLess DEF RInv
<1>11. NextOK'
  BY <1>1 DEF RInv, NextOK
<1> QED BY <1>8, <1>10, <1>11 DEF RInv

(* EngineDestroyed keeps the invariant.                                    *)
LEMMA EngineDestroyedKeepsRInv ==
  ASSUME IInv, IInv', RInv, NEW t \in Threads, EngineDestroyed(t)
  PROVE  RInv'
<1>1. /\ env[t] = "closing" /\ env' = [env EXCEPT ![t] = "dead"]
      /\ \/ t \in handles /\ handles' = handles \ {t} /\ Unref(tasks)
         \/ UNCHANGED <<handles, refCount, alive, tasks>>
      /\ results' = {x \in results : owner[x] # t}
      /\ cancelSignal' = {x \in cancelSignal : owner[x] # t}
      /\ discardSignal' = {x \in discardSignal : owner[x] # t}
      /\ UNCHANGED <<owner, promise, taskQueue, performing, job>>
  BY DEF EngineDestroyed, taskVars
<1>2. \A y \in Tasks : InTasks(y)' <=> InTasks(y)
  BY <1>1, LetGoOfHandle DEF RInv, InTasks
<1>3. \A y \in Tasks : Fewer(y) /\ (Needs(y)' => Needs(y))
  BY <1>1, <1>2 DEF Fewer, Needs, Carries, Brings, Discards, Unrefs
<1>4. DiscardOK' /\ SignalOK'
  BY <1>3, WhereShrinks DEF RInv
<1>5. /\ \A y : IsValid(y)' => IsValid(y) /\ owner[y] # t
      /\ ~AllAlive'
  BY <1>1 DEF IsValid, AllAlive, IInv, TypeOK
<1>6. OpenOK'
  <2>1. ASSUME NEW y \in Tasks, owner[y] # t PROVE Somewhere(y)' <=> Somewhere(y)
    BY <1>1, <1>2, <2>1 DEF Somewhere, Brings
  <2> QED BY <1>1, <1>5, <2>1 DEF RInv, OpenOK, OpenAt
<1>7. CountedOK'
  BY <1>1, <1>3, <1>5, HandleLess, CountsStay DEF RInv
<1>8. NextOK'
  BY <1>1 DEF RInv, NextOK
<1> QED BY <1>4, <1>6, <1>7, <1>8 DEF RInv

----------------------------------------------------------------------------
(* What starts when a task ends. *)

(* A set of natural numbers has a least one.                               *)
LEMMA LeastNumber ==
  ASSUME NEW T \in SUBSET Nat, T # {}
  PROVE  \E m \in T : \A n \in T : m <= n
<1> DEFINE R == OpToRel(<, Nat)
<1>1. IsWellFoundedOn(R, Nat)
  BY NatLessThanWellFounded
<1>2. \A m, n \in Nat : m < n => <<m, n>> \in R
  BY DEF OpToRel
<1> HIDE DEF R
<1>3. PICK m \in T : \A n \in T : ~ (<<n, m>> \in R)
  BY <1>1, WFMin
<1>4. \A n \in T : ~(n < m)
  BY <1>2, <1>3
<1> QED BY <1>4

(* The cancelled tasks at the front are the first ones.                    *)
LEMMA FrontCanceledIs ==
  ASSUME TypeOK
  PROVE  LET n == Cardinality(FrontCanceled)
         IN  n \in 0 .. Len(tasks) /\ FrontCanceled = 1 .. n
<1>1. Len(tasks) \in Nat /\ DOMAIN tasks = 1 .. Len(tasks)
  BY LenProperties DEF TypeOK
<1> SUFFICES \E n \in 0 .. Len(tasks) : FrontCanceled = 1 .. n
  <2>1. ASSUME NEW n \in Nat PROVE Cardinality(1 .. n) = n
    BY FS_Interval
  <2> QED BY <1>1, <2>1
<1> DEFINE T == {i \in DOMAIN tasks : ~Canceled(i)}
<1>2. CASE T = {}
  BY <1>1, <1>2 DEF FrontCanceled
<1>3. CASE T # {}
  <2>1. T \in SUBSET Nat
    BY <1>1
  <2>2. PICK m \in T : \A i \in T : m <= i
    BY <1>3, <2>1, LeastNumber
  <2>3. m \in 1 .. Len(tasks) /\ m - 1 \in 0 .. Len(tasks) /\ ~Canceled(m)
    BY <1>1
  <2>4. ASSUME NEW i \in FrontCanceled PROVE i \in 1 .. m - 1
    BY <1>1, <2>3 DEF FrontCanceled
  <2>5. ASSUME NEW i \in 1 .. m - 1 PROVE i \in FrontCanceled
    <3>1. i \in DOMAIN tasks
      BY <1>1, <2>3
    <3>2. ASSUME NEW j \in 1 .. i PROVE j \in DOMAIN tasks /\ ~(m <= j)
      BY <1>1, <2>3
    <3>3. \A j \in 1 .. i : Canceled(j)
      BY <2>2, <3>2
    <3> QED BY <3>1, <3>3 DEF FrontCanceled
  <2> QED BY <2>3, <2>4, <2>5
<1> QED BY <1>2, <1>3

(* What waits when the first tasks have gone.                              *)
LEMMA Cut ==
  ASSUME TypeOK, PlacesOK, NEW m \in 0 .. Len(tasks), tasks' = SubSeq(tasks, m + 1, Len(tasks))
  PROVE  \A y : InTasks(y)' <=> InTasks(y) /\ y \notin {tasks[i] : i \in 1 .. m}
<1>1. tasks \in Seq(Tasks) /\ Len(tasks) \in Nat /\ DOMAIN tasks = 1 .. Len(tasks)
  BY LenProperties DEF TypeOK
<1>2. m + 1 \in 1 .. Len(tasks) + 1
  BY <1>1
<1>3. /\ DOMAIN tasks' = 1 .. Len(tasks) - (m + 1) + 1
      /\ \A i \in DOMAIN tasks' : m + 1 + i - 1 \in DOMAIN tasks /\ tasks'[i] = tasks[m + 1 + i - 1]
  BY <1>1, <1>2, SuffixFacts
<1>4. \A i \in DOMAIN tasks' : m + i \in DOMAIN tasks /\ tasks'[i] = tasks[m + i] /\ m + i \notin 1 .. m
  <2>1. \A i \in DOMAIN tasks' : m + 1 + i - 1 = m + i /\ m + i \notin 1 .. m
    BY <1>1, <1>3
  <2> QED BY <1>3, <2>1
<1>5. \A i \in DOMAIN tasks : i \in 1 .. m \/ (i - m \in DOMAIN tasks' /\ m + (i - m) = i)
  BY <1>1, <1>3
<1>6. 1 .. m \subseteq DOMAIN tasks
  BY <1>1
<1>7. \A i, j \in DOMAIN tasks : tasks[i] = tasks[j] => i = j
  BY DEF PlacesOK
<1>8. ASSUME NEW y, InTasks(y)' PROVE InTasks(y) /\ y \notin {tasks[i] : i \in 1 .. m}
  BY <1>4, <1>6, <1>7, <1>8 DEF InTasks
<1>9. ASSUME NEW y, InTasks(y), y \notin {tasks[i] : i \in 1 .. m} PROVE InTasks(y)'
  <2>1. PICK i \in DOMAIN tasks : tasks[i] = y /\ i \notin 1 .. m
    BY <1>9 DEF InTasks
  <2>2. tasks'[i - m] = y /\ i - m \in DOMAIN tasks'
    BY <1>4, <1>5, <2>1
  <2> QED BY <2>2 DEF InTasks
<1> QED BY <1>8, <1>9

(* The first tasks are as many as their places.                            *)
LEMMA FirstTasks ==
  ASSUME TypeOK, PlacesOK, NEW m \in 0 .. Len(tasks)
  PROVE  LET F == {tasks[i] : i \in 1 .. m}
         IN  /\ IsFiniteSet(F) /\ Cardinality(F) = m
             /\ F \subseteq Tasks /\ \A y \in F : InTasks(y)
<1> DEFINE F == {tasks[i] : i \in 1 .. m}
<1>1. Len(tasks) \in Nat /\ DOMAIN tasks = 1 .. Len(tasks) /\ \A i \in 1 .. Len(tasks) : tasks[i] \in Tasks
  BY LenProperties, ElementOfSeq DEF TypeOK
<1>2. 1 .. m \subseteq DOMAIN tasks /\ m \in Nat
  BY <1>1
<1>3. F \subseteq Tasks /\ \A y \in F : InTasks(y)
  BY <1>1, <1>2 DEF InTasks
<1> DEFINE f == [i \in 1 .. m |-> tasks[i]]
<1>4. f \in Bijection(1 .. m, F)
  <2>1. f \in [1 .. m -> F] /\ \A i, j \in 1 .. m : f[i] = f[j] => i = j
    BY <1>2 DEF PlacesOK
  <2>2. \A y \in F : \E i \in 1 .. m : f[i] = y
    OBVIOUS
  <2> QED BY <2>1, <2>2 DEF Bijection, Injection, Surjection, IsInjective
<1>5. IsFiniteSet(F) /\ Cardinality(F) = m
  BY <1>2, <1>4, FS_CountingElements, FS_NatBijection DEF ExistsBijection
<1> QED BY <1>3, <1>5

(* Waiting tasks that are counted out together.                            *)
LEMMA CountsFewer ==
  ASSUME IInv, IInv', CountedOK, NEW n \in Nat, NEW F \in SUBSET Tasks,
         IsFiniteSet(F), Cardinality(F) = n, refCount' = CountedOut(n),
         alive, UNCHANGED <<alive, handles, env>>,
         \A y \in F : Needs(y) /\ ~Needs(y)',
         \A y \in Tasks : y \notin F => (Needs(y)' <=> Needs(y))
  PROVE  CountedOK'
<1>1. /\ Counted \subseteq Tasks /\ Counted' \subseteq Tasks
      /\ \A y : y \in Counted <=> Needs(y)
      /\ \A y : y \in Counted' <=> Needs(y)'
  BY CountedIs, CountedIsNext DEF IInv
<1>2. Counted' = Counted \ F /\ Counted \cap F = F
  BY <1>1
<1>3. /\ IsFiniteSet(handles) /\ IsFiniteSet(Counted) /\ IsFiniteSet(Counted')
      /\ Cardinality(Counted') = Cardinality(Counted) - n
  BY <1>2, FS_Difference DEF CountedOK
<1>4. Cardinality(handles) \in Nat /\ Cardinality(Counted) \in Nat /\ Cardinality(Counted') \in Nat
  BY <1>3, FS_CardinalityType
<1>5. /\ refCount >= Cardinality(handles) + Cardinality(Counted)
      /\ AllAlive => refCount = Cardinality(handles) + Cardinality(Counted)
      /\ refCount \in Nat
  BY DEF CountedOK, RefCountIsExact, AllAlive, IInv, TypeOK
<1>6. refCount >= n /\ refCount' = refCount - n
  BY <1>3, <1>4, <1>5 DEF CountedOut
<1>7. /\ refCount' >= Cardinality(handles) + Cardinality(Counted')
      /\ AllAlive => refCount' = Cardinality(handles) + Cardinality(Counted')
  BY <1>3, <1>4, <1>5, <1>6
<1> QED BY <1>3, <1>7 DEF CountedOK, RefCountIsExact, AllAlive

(* ExecuteAsync keeps the invariant.                                       *)
LEMMA ExecuteAsyncKeepsRInv ==
  ASSUME IInv, IInv', RInv, NEW t \in Threads, NEW x \in Tasks, ExecuteAsync(t, x)
  PROVE  RInv'
<1>1. /\ t \in Procs /\ job[t] = Idle /\ promise[x] = "none" /\ alive
      /\ UNCHANGED <<alive, handles, env, owner,
                     taskQueue, performing, results, cancelSignal, discardSignal>>
      /\ refCount' = refCount + 1 /\ promise' = [promise EXCEPT ![x] = "open"]
  BY DEF ExecuteAsync, Procs, Free, IsIdle, Executed, placeVars
<1>2. /\ x \notin cancelSignal \cup discardSignal
      /\ x \notin taskQueue \cup performing \cup results /\ ~InTasks(x)
      /\ \A q \in Procs : ~Discards(q, x) /\ ~Brings(q, x) /\ ~Unrefs(q, x)
  BY <1>1, NewIsNowhere
<1>3. promise'[x] = "open" /\ \A y \in Tasks : y # x => promise'[y] = promise[y]
  BY <1>1 DEF IInv, TypeOK
<1>4. ~Needs(x)
  BY <1>2 DEF Needs
<1>5. tasks \in Seq(Tasks) /\ \A i, j \in DOMAIN tasks : tasks[i] = tasks[j] => i = j
  BY DEF IInv, TypeOK, PlacesOK
<1>6. CASE Then(t, Job("enqueue", x)) /\ tasks' = tasks
  <2> DEFINE n == Job("enqueue", x)
  <2>1. n \in Jobs /\ n.op = "enqueue" /\ n.task = x /\ n.next = None
    BY JobFields DEF JobOps
  <2> HIDE DEF n
  <2>2. /\ job' \in [Procs -> Jobs] /\ job'[t] = n
        /\ \A q \in Procs : q # t => job'[q] = job[q]
    BY <1>1, <1>6, <2>1, ThenAt DEF IInv, n
  <2>3. (\A q \in Procs : ~Discards(q, x)') /\ Brings(t, x)'
    BY <1>1, <1>2, <2>1, <2>2 DEF Discards, Brings
  <2>4. DiscardAt(x)' /\ SignalAt(x)'
    BY <1>1, <1>2, <2>3, Quiet
  <2>5. OpenAt(x)'
    BY <1>1, <1>3, <2>3 DEF OpenAt, Somewhere
  <2>6. ASSUME NEW y \in Tasks, y # x PROVE Same(y)
    BY <2>6, <1>1, <1>3, <1>6, <2>1, <2>2, IdleFields
    DEF Same, Carries, Brings, Discards, Unrefs, InTasks
  <2>7. DiscardOK' /\ SignalOK' /\ OpenOK'
    BY <1>1, <2>4, <2>5, <2>6, MovedOne DEF RInv
  <2>8. Needs(x)'
    BY <1>1, <2>3 DEF Needs
  <2>9. CountedOK'
    BY <1>1, <1>4, <2>6, <2>8, SameFacts, CountsMore DEF RInv
  <2>10. NextOK'
    BY <1>1, <2>1, <2>2, NextKept DEF RInv
  <2> QED BY <2>7, <2>9, <2>10 DEF RInv
<1>7. CASE tasks' = Append(tasks, x) /\ job' = job
  <2>1. \A y : InTasks(y)' <=> InTasks(y) \/ y = x
    BY <1>5, <1>7, InAppended DEF InTasks
  <2>2. DiscardAt(x)' /\ SignalAt(x)'
    BY <1>1, <1>2, <1>7, Quiet DEF Discards
  <2>3. OpenAt(x)'
    BY <1>3, <2>1 DEF OpenAt, Somewhere
  <2>4. ASSUME NEW y \in Tasks, y # x PROVE Same(y)
    BY <2>1, <2>4, <1>1, <1>3, <1>7 DEF Same, Carries, Brings, Discards, Unrefs
  <2>5. DiscardOK' /\ SignalOK' /\ OpenOK'
    BY <1>1, <2>2, <2>3, <2>4, MovedOne DEF RInv
  <2>6. Needs(x)'
    BY <2>1 DEF Needs
  <2>7. CountedOK'
    BY <1>1, <1>4, <2>4, <2>6, SameFacts, CountsMore DEF RInv
  <2>8. NextOK'
    BY <1>7 DEF RInv, NextOK
  <2> QED BY <2>5, <2>7, <2>8 DEF RInv
<1>8. CASE IsFull /\ tasks' = Append(Tail(tasks), x) /\ Then(t, Job("discard", Head(tasks)))
  <2>0. tasks # <<>>
    BY <1>5, <1>8, EmptySeq DEF IsFull
  <2>1. Tail(tasks) \in Seq(Tasks) /\ Head(tasks) = tasks[1] /\ 1 \in DOMAIN tasks
        /\ \A y : (\E i \in DOMAIN Tail(tasks) : Tail(tasks)[i] = y) <=> InTasks(y) /\ y # Head(tasks)
    BY <1>5, <2>0, TailFacts DEF InTasks
  <2>2. PICK h \in Tasks : h = Head(tasks)
    BY <1>5, <2>1, ElementOfSeq, LenProperties
  <2>3. InTasks(h) /\ h # x
    BY <1>2, <2>1, <2>2 DEF InTasks
  <2>4. \A y : InTasks(y)' <=> (InTasks(y) /\ y # h) \/ y = x
    <3>1. \A y : (\E i \in DOMAIN Append(Tail(tasks), x) : Append(Tail(tasks), x)[i] = y)
                   <=> (\E i \in DOMAIN Tail(tasks) : Tail(tasks)[i] = y) \/ y = x
      BY <2>1, InAppended
    <3>2. \A y : InTasks(y)' <=> \E i \in DOMAIN Append(Tail(tasks), x) : Append(Tail(tasks), x)[i] = y
      BY <1>8 DEF InTasks
    <3> QED BY <2>1, <2>2, <3>1, <3>2, Zenon
  <2> DEFINE n == Job("discard", h)
             M == {x, h}
  <2>5. n \in Jobs /\ n.op = "discard" /\ n.task = h /\ n.next = None
    BY <2>3, JobFields DEF JobOps
  <2> HIDE DEF n
  <2>6. /\ job' \in [Procs -> Jobs] /\ job'[t] = n
        /\ \A q \in Procs : q # t => job'[q] = job[q]
    BY <1>1, <1>8, <2>5, <2>2, ThenAt DEF IInv, n
  <2>7. /\ h \notin cancelSignal \cup discardSignal /\ promise[h] # "none"
        /\ \A q \in Procs : ~Carries(q, h) /\ ~Discards(q, h) /\ ~Brings(q, h)
        /\ h \notin taskQueue \cup performing \cup results
    BY <2>3, PlacedOnly DEF IInv, PlacesOK, AtOnePlace
  <2>8. /\ \A q \in Procs : ~Carries(q, h)' /\ (Discards(q, h)' => q = t)
        /\ Brings(t, h)'
    BY <2>5, <2>6, <2>7 DEF Carries, Discards, Brings
  <2>9. DiscardAt(h)' /\ SignalAt(h)'
    BY <1>1, <1>3, <2>3, <2>4, <2>7, <2>8 DEF DiscardAt, SignalAt
  <2>10. OpenAt(h)'
    BY <1>1, <1>3, <2>3, <2>8 DEF RInv, OpenOK, OpenAt, Somewhere, IsValid
  <2>11. \A q \in Procs : ~Discards(q, x)'
    BY <1>2, <2>3, <2>5, <2>6 DEF Discards
  <2>12. DiscardAt(x)' /\ SignalAt(x)'
    BY <1>1, <1>2, <2>11, Quiet
  <2>13. OpenAt(x)'
    BY <1>3, <2>4 DEF OpenAt, Somewhere
  <2>14. ASSUME NEW y \in Tasks, y # x, y # h PROVE Same(y)
    BY <2>4, <2>14, <1>1, <1>3, <2>5, <2>6, IdleFields DEF Same, Carries, Brings, Discards, Unrefs
  <2>15. DiscardOK' /\ SignalOK' /\ OpenOK'
    <3>1. /\ \A y \in M : DiscardAt(y)' /\ SignalAt(y)' /\ OpenAt(y)'
          /\ \A y \in Tasks : y \notin M => Same(y)
      BY <2>9, <2>10, <2>12, <2>13, <2>14
    <3> HIDE DEF M
    <3> QED BY <1>1, <3>1, MovedSome DEF RInv
  <2>16. Needs(x)' /\ Needs(h) /\ Needs(h)'
    BY <2>3, <2>4, <2>8, <1>1 DEF Needs
  <2>17. CountedOK'
    BY <1>1, <1>4, <2>3, <2>14, <2>16, SameFacts, CountsMore DEF RInv
  <2>18. NextOK'
    BY <1>1, <2>5, <2>6, NextKept DEF RInv
  <2> QED BY <2>15, <2>17, <2>18 DEF RInv
<1> QED BY <1>6, <1>7, <1>8 DEF ExecuteAsync

(* TriggerWaitingTask keeps the invariant.                                 *)
LEMMA TriggerWaitingTaskKeepsRInv ==
  ASSUME IInv, IInv', RInv, NEW p \in Procs, TriggerWaitingTask(p)
  PROVE  RInv'
<1>1. /\ job[p].op = "trigger" /\ job[p].task \in Tasks /\ Then(p, AfterTrigger(p))
      /\ UNCHANGED <<alive, refCount, handles, env, owner, promise,
                     performing, results, cancelSignal, discardSignal>>
  BY DEF TriggerWaitingTask, Doing, IInv, JobOK
<1>2. PICK n \in Jobs : Then(p, n) /\ n.op \in {"idle", "remove"} /\ n.next = None
  <2>1. AfterTrigger(p) = Job("remove", job[p].task) \/ AfterTrigger(p) = Idle
    BY DEF AfterTrigger
  <2> QED BY <1>1, <2>1, JobFields, IdleFields DEF JobOps
<1>3. /\ job' \in [Procs -> Jobs] /\ job'[p] = n
      /\ \A q \in Procs : q # p => job'[q] = job[q]
  BY <1>2, ThenAt DEF IInv
<1>4. \A q \in Procs, y \in Tasks : /\ Carries(q, y)' => Carries(q, y)
                                    /\ Brings(q, y)' <=> Brings(q, y)
                                    /\ Discards(q, y)' <=> Discards(q, y)
                                    /\ Unrefs(q, y)' <=> Unrefs(q, y)
  BY <1>1, <1>2, <1>3 DEF Carries, Brings, Discards, Unrefs
<1>5. NextOK'
  BY <1>1, <1>2, <1>3, NextKept DEF RInv
<1>6. CASE tasks' = tasks /\ taskQueue' = taskQueue
  <2>1. \A y \in Tasks : Same(y)
    BY <1>1, <1>4, <1>6 DEF Same, InTasks
  <2> QED BY <1>1, <1>5, <2>1, AllSame
<1>7. ASSUME NEW m \in 0 .. Len(tasks), tasks' = SubSeq(tasks, m + 1, Len(tasks)),
             taskQueue' = taskQueue \cup {tasks[i] : i \in 1 .. m}
      PROVE  RInv'
  <2> DEFINE M == {tasks[i] : i \in 1 .. m}
  <2>1. M \subseteq Tasks /\ \A y \in M : InTasks(y)
    BY FirstTasks DEF IInv
  <2>2. \A y : InTasks(y)' <=> InTasks(y) /\ y \notin M
    BY <1>7, Cut DEF IInv
  <2>3. \A y : y \in taskQueue' <=> y \in taskQueue \/ y \in M
    BY <1>7
  <2> HIDE DEF M
  <2>4. ASSUME NEW y \in M PROVE DiscardAt(y)' /\ SignalAt(y)' /\ OpenAt(y)'
    <3>1. y \in Tasks /\ y \notin cancelSignal \cup discardSignal /\ \A q \in Procs : ~Discards(q, y)
      BY <2>1, PlacedOnly
    <3>2. DiscardAt(y)' /\ SignalAt(y)'
      BY <1>1, <1>4, <3>1, Quiet
    <3>3. OpenAt(y)'
      BY <1>1, <2>1, <2>3, <3>1 DEF RInv, OpenOK, OpenAt, Somewhere, IsValid
    <3> QED BY <3>2, <3>3
  <2>5. ASSUME NEW y \in Tasks, y \notin M PROVE Same(y)
    BY <1>1, <1>4, <2>2, <2>3, <2>5 DEF Same
  <2>6. DiscardOK' /\ SignalOK' /\ OpenOK'
    BY <1>1, <2>4, <2>5, MovedSome DEF RInv
  <2>7. \A y \in M : Needs(y) /\ Needs(y)'
    BY <2>1, <2>3 DEF Needs
  <2>8. CountedOK'
    BY <1>1, <2>5, <2>7, SameFacts, CountsStay DEF RInv, AllAlive
  <2> QED BY <1>5, <2>6, <2>8 DEF RInv
<1>8. CASE alive
  <2> DEFINE running == Less(runningCount)
             room == IF running < config.runningCapacity THEN config.runningCapacity - running ELSE 0
             m == IF room < Len(tasks) THEN room ELSE Len(tasks)
  <2>1. /\ tasks' = SubSeq(tasks, m + 1, Len(tasks))
        /\ taskQueue' = taskQueue \cup {tasks[i] : i \in 1 .. m}
    BY <1>8 DEF TriggerWaitingTask
  <2>2. m \in 0 .. Len(tasks)
    <3>1. /\ Len(tasks) \in Nat /\ runningCount \in Nat /\ config.runningCapacity \in Nat
      BY RunnerConstants, LenProperties DEF IInv, TypeOK, Config
    <3>2. running \in Nat
      BY <3>1 DEF Less
    <3> HIDE DEF running
    <3>3. room \in Nat
      BY <3>1, <3>2
    <3> QED BY <3>1, <3>3
  <2> HIDE DEF m
  <2> QED BY <1>7, <2>1, <2>2
<1> QED BY <1>6, <1>8 DEF TriggerWaitingTask

(* The first tasks are told of their cancellation, and the one after them, *)
(* if there is one, starts.                                                *)
LEMMA FrontGoes ==
  ASSUME IInv, IInv', RInv, NEW p \in Procs, NEW m \in 0 .. Len(tasks), NEW F, NEW S,
         F = {tasks[i] : i \in 1 .. m}, S \subseteq Tasks \ F,
         \A y \in Tasks : InTasks(y)' <=> InTasks(y) /\ y \notin F \cup S,
         \A y \in S : InTasks(y) /\ Brings(p, y)',
         cancelSignal' = cancelSignal \cup {x \in F : IsValid(x)},
         \A y \in Tasks, q \in Procs :
           /\ Carries(q, y)' => Carries(q, y) \/ y \in S
           /\ Brings(q, y)' <=> Brings(q, y) \/ (q = p /\ y \in S)
           /\ Discards(q, y)' <=> Discards(q, y)
           /\ Unrefs(q, y)' <=> Unrefs(q, y),
         NextOK', alive, refCount' = CountedOut(m),
         UNCHANGED <<alive, handles, env, owner, promise, taskQueue, performing, results, discardSignal>>
  PROVE  RInv'
<1>1. /\ IsFiniteSet(F) /\ Cardinality(F) = m
      /\ F \subseteq Tasks /\ \A y \in F : InTasks(y)
  BY FirstTasks DEF IInv
<1>2. ASSUME NEW y \in F \cup S
      PROVE  /\ y \in Tasks /\ InTasks(y) /\ promise[y] # "none"
             /\ y \notin cancelSignal \cup discardSignal
             /\ y \notin taskQueue \cup performing \cup results
             /\ \A q \in Procs : ~Carries(q, y) /\ ~Discards(q, y) /\ ~Brings(q, y) /\ ~Unrefs(q, y)
  <2>1. y \in Tasks /\ InTasks(y)
    BY <1>1
  <2>2. y \notin taskQueue \cup performing \cup results
    BY <2>1 DEF IInv, PlacesOK, AtOnePlace
  <2> QED BY <2>1, <2>2, PlacedOnly
<1>3. ASSUME NEW y \in F PROVE DiscardAt(y)' /\ SignalAt(y)' /\ OpenAt(y)'
  <2>1. /\ y \in Tasks /\ promise[y] # "none" /\ y \notin S
        /\ y \notin discardSignal /\ y \notin taskQueue \cup performing \cup results
        /\ \A q \in Procs : ~Discards(q, y)' /\ ~Brings(q, y)'
        /\ ~InTasks(y)'
    BY <1>2
  <2>2. DiscardAt(y)' /\ SignalAt(y)'
    BY <2>1 DEF DiscardAt, SignalAt
  <2>3. OpenAt(y)'
    BY <1>2 DEF RInv, OpenOK, OpenAt, Somewhere, IsValid
  <2> QED BY <2>2, <2>3
<1>4. ASSUME NEW y \in S PROVE DiscardAt(y)' /\ SignalAt(y)' /\ OpenAt(y)'
  <2>1. /\ y \in Tasks /\ y \notin cancelSignal' \cup discardSignal'
        /\ \A q \in Procs : ~Discards(q, y)'
    BY <1>2
  <2>2. DiscardAt(y)' /\ SignalAt(y)'
    BY <2>1, Quiet
  <2>3. OpenAt(y)'
    BY <1>2 DEF RInv, OpenOK, OpenAt, Somewhere, IsValid
  <2> QED BY <2>2, <2>3
<1>5. ASSUME NEW y \in Tasks, y \notin F \cup S PROVE Same(y)
  BY <1>5 DEF Same
<1> DEFINE M == F \cup S
<1>6. DiscardOK' /\ SignalOK' /\ OpenOK'
  <2>1. /\ \A y \in M : DiscardAt(y)' /\ SignalAt(y)' /\ OpenAt(y)'
        /\ \A y \in Tasks : y \notin M => Same(y)
    BY <1>3, <1>4, <1>5
  <2> HIDE DEF M
  <2> QED BY <2>1, MovedSome DEF RInv
<1>7. \A y \in S : Needs(y) /\ Needs(y)'
  BY DEF Needs
<1>8. \A y \in F : Needs(y) /\ ~Needs(y)'
  <2>1. \A y \in F : /\ InTasks(y) /\ y \in Tasks /\ y \notin S
                     /\ y \notin taskQueue \cup performing \cup results
                     /\ \A q \in Procs : ~Brings(q, y)' /\ ~Unrefs(q, y)'
    BY <1>1, <1>2
  <2> QED BY <2>1 DEF Needs
<1>9. CountedOK'
  <2>1. \A y \in Tasks : y \notin F => (Needs(y)' <=> Needs(y))
    BY <1>5, <1>7, SameFacts
  <2>2. m \in Nat /\ F \in SUBSET Tasks
    BY <1>1, LenProperties DEF IInv, TypeOK
  <2> QED BY <1>1, <1>8, <2>1, <2>2, CountsFewer DEF RInv
<1> QED BY <1>6, <1>9 DEF RInv

(* TriggerTask keeps the invariant.                                        *)
LEMMA TriggerTaskKeepsRInv ==
  ASSUME IInv, IInv', RInv, NEW p \in Procs, TriggerTask(p)
  PROVE  RInv'
<1>1. /\ job[p].op = "trigger" /\ job[p].task \in Tasks
      /\ UNCHANGED <<alive, handles, env, owner, promise,
                     taskQueue, performing, results, discardSignal>>
  BY DEF TriggerTask, Doing, IInv, JobOK, taskVars
<1>2. PICK m \in 0 .. Len(tasks) : m = Cardinality(FrontCanceled) /\ FrontCanceled = 1 .. m
  BY FrontCanceledIs DEF IInv
<1>3. PICK F : F = {tasks[i] : i \in 1 .. m}
  OBVIOUS
<1>4. F \subseteq Tasks
  BY <1>3, FirstTasks DEF IInv
<1>5. ASSUME Then(p, Idle)
      PROVE  /\ NextOK'
             /\ \A y \in Tasks, q \in Procs :
                  /\ Carries(q, y)' => Carries(q, y)
                  /\ Brings(q, y)' <=> Brings(q, y)
                  /\ Discards(q, y)' <=> Discards(q, y)
                  /\ Unrefs(q, y)' <=> Unrefs(q, y)
  <2>1. /\ job' \in [Procs -> Jobs] /\ job'[p] = Idle
        /\ \A q \in Procs : q # p => job'[q] = job[q]
    BY <1>5, IdleFields, ThenAt DEF IInv
  <2>2. NextOK'
    BY <2>1, IdleFields, NextKept DEF RInv
  <2>3. \A y \in Tasks, q \in Procs :
          /\ Carries(q, y)' => Carries(q, y)
          /\ Brings(q, y)' <=> Brings(q, y)
          /\ Discards(q, y)' <=> Discards(q, y)
          /\ Unrefs(q, y)' <=> Unrefs(q, y)
    BY <1>1, <2>1, IdleFields DEF Carries, Brings, Discards, Unrefs
  <2> QED BY <2>2, <2>3
<1>6. CASE Then(p, Idle) /\ UNCHANGED <<refCount, tasks, cancelSignal>>
  <2>1. \A y \in Tasks : Same(y)
    BY <1>1, <1>5, <1>6 DEF Same, InTasks
  <2> QED BY <1>1, <1>5, <1>6, <2>1, AllSame
<1>7. CASE /\ alive /\ refCount' = CountedOut(m)
           /\ cancelSignal' = cancelSignal \cup {x \in F : IsValid(x)}
           /\ m = Len(tasks) /\ tasks' = <<>> /\ Then(p, Idle)
  <2> DEFINE S == {}
  <2>1. \A y : InTasks(y)' <=> InTasks(y) /\ y \notin F
    <3>1. DOMAIN tasks = 1 .. m
      BY <1>7, LenProperties DEF IInv, TypeOK
    <3>2. \A y : ~InTasks(y)'
      BY <1>7 DEF InTasks
    <3> QED BY <1>3, <3>1, <3>2 DEF InTasks
  <2>2. /\ S \subseteq Tasks \ F
        /\ \A y \in Tasks : InTasks(y)' <=> InTasks(y) /\ y \notin F \cup S
        /\ \A y \in S : InTasks(y) /\ Brings(p, y)'
        /\ \A y \in Tasks, q \in Procs :
             /\ Carries(q, y)' => Carries(q, y) \/ y \in S
             /\ Brings(q, y)' <=> Brings(q, y) \/ (q = p /\ y \in S)
             /\ Discards(q, y)' <=> Discards(q, y)
             /\ Unrefs(q, y)' <=> Unrefs(q, y)
    BY <1>5, <1>7, <2>1
  <2> HIDE DEF S
  <2> QED BY <1>1, <1>3, <1>5, <1>7, <2>2, FrontGoes
<1>8. CASE /\ alive /\ refCount' = CountedOut(m)
           /\ cancelSignal' = cancelSignal \cup {x \in F : IsValid(x)}
           /\ m < Len(tasks) /\ tasks' = SubSeq(tasks, m + 2, Len(tasks))
           /\ Then(p, [Job("start", job[p].task) EXCEPT !.next = tasks[m + 1]])
  <2>1. /\ Len(tasks) \in Nat /\ DOMAIN tasks = 1 .. Len(tasks)
        /\ \A i \in 1 .. Len(tasks) : tasks[i] \in Tasks
    BY LenProperties, ElementOfSeq DEF IInv, TypeOK
  <2>2. /\ m + 1 \in 0 .. Len(tasks) /\ m + 1 \in DOMAIN tasks /\ m + 1 + 1 = m + 2
        /\ 1 .. (m + 1) = 1 .. m \cup {m + 1} /\ m + 1 \notin 1 .. m /\ 1 .. m \subseteq DOMAIN tasks
    BY <1>8, <2>1
  <2>3. PICK z \in Tasks : z = tasks[m + 1]
    BY <2>1, <2>2
  <2>4. InTasks(z) /\ z \notin F
    BY <1>3, <2>2, <2>3 DEF InTasks, IInv, PlacesOK
  <2>5. \A y : InTasks(y)' <=> InTasks(y) /\ y \notin F \cup {z}
    <3>1. \A y : InTasks(y)' <=> InTasks(y) /\ y \notin {tasks[i] : i \in 1 .. (m + 1)}
      BY <1>8, <2>2, Cut DEF IInv
    <3>2. {tasks[i] : i \in 1 .. (m + 1)} = F \cup {z}
      BY <1>3, <2>2, <2>3
    <3> QED BY <3>1, <3>2
  <2> DEFINE n == [Job("start", job[p].task) EXCEPT !.next = tasks[m + 1]]
             S == {z}
  <2>6. n \in Jobs /\ n.op = "start" /\ n.task = job[p].task /\ n.next = z
    BY <1>1, <2>3 DEF Job, Jobs, Idle
  <2> HIDE DEF n
  <2>7. /\ job' \in [Procs -> Jobs] /\ job'[p] = n
        /\ \A q \in Procs : q # p => job'[q] = job[q]
    BY <1>8, <2>6, ThenAt DEF IInv, n
  <2>8. NextOK'
    BY <2>6, <2>7, NextKept DEF RInv
  <2>9. \A y \in Tasks, q \in Procs :
          /\ Carries(q, y)' => Carries(q, y) \/ y \in S
          /\ Brings(q, y)' <=> Brings(q, y) \/ (q = p /\ y \in S)
          /\ Discards(q, y)' <=> Discards(q, y)
          /\ Unrefs(q, y)' <=> Unrefs(q, y)
    BY <1>1, <2>6, <2>7 DEF Carries, Brings, Discards, Unrefs
  <2>10. /\ S \subseteq Tasks \ F
         /\ \A y \in Tasks : InTasks(y)' <=> InTasks(y) /\ y \notin F \cup S
         /\ \A y \in S : InTasks(y) /\ Brings(p, y)'
    BY <2>4, <2>5, <2>9
  <2> HIDE DEF S
  <2> QED BY <1>1, <1>3, <1>8, <2>8, <2>9, <2>10, FrontGoes
<1>9. {tasks[i] : i \in FrontCanceled} = F
  BY <1>2, <1>3
<1> QED BY <1>2, <1>6, <1>7, <1>8, <1>9 DEF TriggerTask

----------------------------------------------------------------------------
(* The theorems about references and promises. *)

(* At the start only the handles count.                                    *)
LEMMA InitEstablishesRInv == Init => RInv
<1> SUFFICES ASSUME Init PROVE RInv
  OBVIOUS
<1>1. IInv
  BY InitEstablishesIInv
<1>2. /\ tasks = <<>> /\ taskQueue = {} /\ performing = {} /\ results = {}
      /\ cancelSignal = {} /\ discardSignal = {} /\ alive
      /\ promise = [x \in Tasks |-> "none"]
      /\ handles = Threads /\ refCount = Cardinality(Threads)
      /\ job = [p \in Procs |-> Idle]
  BY DEF Init
<1>3. \A p \in Procs : job[p].op = "idle" /\ job[p].next = None
  BY <1>2, IdleFields
<1>4. /\ \A x : ~InTasks(x)
      /\ \A p \in Procs, x \in Tasks : ~Discards(p, x) /\ ~Brings(p, x) /\ ~Unrefs(p, x)
  BY <1>2, <1>3 DEF InTasks, Discards, Brings, Unrefs
<1>5. NextOK /\ DiscardOK /\ SignalOK
  BY <1>2, <1>3, <1>4 DEF NextOK, DiscardOK, DiscardAt, SignalOK, SignalAt
<1>6. OpenOK
  BY <1>2, <1>4 DEF OpenOK, OpenAt, Somewhere
<1>7. Counted = {}
  <2>1. \A x \in Tasks : ~Needs(x)
    BY <1>2, <1>4 DEF Needs
  <2> QED BY <1>1, <2>1, CountedIs DEF IInv
<1>8. Cardinality(Counted) = 0 /\ IsFiniteSet(Counted)
  BY <1>7, FS_EmptySet
<1>9. Cardinality(handles) \in Nat /\ IsFiniteSet(handles)
  BY <1>2, RunnerConstants, FS_CardinalityType
<1>10. CountedOK
  BY <1>2, <1>8, <1>9 DEF CountedOK, RefCountIsExact
<1> QED BY <1>5, <1>6, <1>10 DEF RInv

(* Every step keeps the references and promises right.                     *)
LEMMA NextKeepsRInv == IInv /\ IInv' /\ RInv /\ [Next]_vars => RInv'
<1> SUFFICES ASSUME IInv, IInv', RInv, [Next]_vars PROVE RInv'
  OBVIOUS
<1>1. ASSUME NEW p \in Procs, Step(p)
      PROVE  RInv'
  BY <1>1, EnqueueTaskIdKeepsRInv, AddTaskKeepsRInv, RejectErrorKeepsRInv, UnrefRunnerKeepsRInv,
     TriggerTaskKeepsRInv, StartNextKeepsRInv, TriggerWaitingTaskKeepsRInv, RemoveWaitingTaskKeepsRInv DEF Step
<1>2. ASSUME NEW t \in Threads, RunnerDestructor(t) \/ DestroyEngine(t) \/ EngineDestroyed(t)
      PROVE  RInv'
  BY <1>2, RunnerDestructorKeepsRInv, DestroyEngineKeepsRInv, EngineDestroyedKeepsRInv
<1>3. ASSUME NEW t \in Threads, NEW x \in Tasks, ExecuteSequence(t, x) \/ ExecuteAsync(t, x)
      PROVE  RInv'
  BY <1>3, ExecuteSequenceKeepsRInv, ExecuteAsyncKeepsRInv
<1>4. ASSUME NEW t \in Threads, NEW x \in Tasks, CancelSeqRunnerTask(t, x) \/ CancelAsyncRunnerTask(t, x)
      PROVE  RInv'
  BY <1>4, CancelSeqRunnerTaskKeepsRInv, CancelAsyncRunnerTaskKeepsRInv
<1>5. ASSUME NEW t \in Threads, NEW x \in Tasks, Deliver(t, x)
      PROVE  RInv'
  BY <1>5, HandleTaskResultKeepsRInv, CancelInnerKeepsRInv, DiscardInnerKeepsRInv DEF Deliver
<1>6. ASSUME NEW w \in Workers, NEW x \in Tasks, Work(w, x)
      PROVE  RInv'
  BY <1>6, PerformTaskKeepsRInv, NotifyTaskResultKeepsRInv DEF Work
<1>7. ASSUME NEW x \in Tasks, CleanupHookFunc(x)
      PROVE  RInv'
  BY <1>7, CleanupHookFuncKeepsRInv
<1>8. CASE UNCHANGED vars
  <2>1. UNCHANGED <<alive, refCount, handles, tasks, env, owner, promise,
                    taskQueue, performing, results, cancelSignal, discardSignal, job>>
    BY <1>8 DEF vars, runnerVars, taskVars, placeVars
  <2>2. \A y \in Tasks : Same(y)
    BY <2>1 DEF Same, Carries, Brings, Discards, Unrefs, InTasks
  <2>3. NextOK'
    BY <2>1 DEF RInv, NextOK
  <2> QED BY <2>1, <2>2, <2>3, AllSame
<1> QED BY <1>1, <1>2, <1>3, <1>4, <1>5, <1>6, <1>7, <1>8 DEF Next

(* The references of the runner and the places of the tasks agree with     *)
(* what the handles, the tasks and their promises need.                    *)
LEMMA RInvIsInvariant == Spec => [](IInv /\ RInv)
<1>1. Init => IInv /\ RInv
  BY InitEstablishesIInv, InitEstablishesRInv
<1>2. (IInv /\ RInv) /\ [Next]_vars => (IInv /\ RInv)'
  BY NextKeepsIInv, NextKeepsRInv
<1> QED BY <1>1, <1>2, PTL DEF Spec

(* The runner is not deleted under a handle or a task that still needs it, *)
(* and as long as every engine lives its count is exact.                   *)
THEOREM ReferencesAreExact == Spec => []RefCountIsExact
<1>1. RInv => RefCountIsExact
  BY DEF RInv, CountedOK
<1> QED BY <1>1, RInvIsInvariant, PTL

(* The number of members of a set that has one at most.                    *)
LEMMA AtMostOne ==
  ASSUME NEW S, \A a, b \in S : a = b
  PROVE  Cardinality(S) = IF S = {} THEN 0 ELSE 1
<1>1. CASE S = {}
  BY <1>1, FS_EmptySet
<1>2. CASE S # {}
  <2>1. PICK a \in S : S = {a}
    BY <1>2
  <2> QED BY <1>2, <2>1, FS_Singleton
<1> QED BY <1>1, <1>2

(* A task of a live engine that has been executed and not settled is in    *)
(* one place, and one that has been settled is nowhere.                    *)
THEOREM TasksAreAtOnePlace == Spec => []OnePlace
<1>1. IInv /\ RInv => OnePlace
  <2> SUFFICES ASSUME IInv, RInv, NEW x \in Tasks, IsValid(x)
               PROVE  Places(x) = IF promise[x] = "open" THEN 1 ELSE 0
    BY DEF OnePlace
  <2> DEFINE A == {i \in DOMAIN tasks : tasks[i] = x}
             B == {p \in Procs : job[p].op \in {"enqueue", "add"} /\ job[p].task = x}
             C == {p \in Procs : job[p].op = "discard" /\ job[p].task = x}
             D == {p \in Procs : job[p].next = x}
             E == {S \in {<<1, taskQueue>>, <<2, performing>>, <<3, results>>, <<4, cancelSignal>>,
                          <<5, discardSignal>>} : x \in S[2]}
             placed == x \in taskQueue \/ x \in performing \/ x \in results
             told == x \in cancelSignal \/ x \in discardSignal
  <2>1. A # {} <=> InTasks(x)
    BY DEF InTasks
  <2>2. /\ \A p \in B : Carries(p, x) /\ Brings(p, x) /\ job[p].op # "start"
        /\ \A p \in C : Discards(p, x) /\ Brings(p, x)
        /\ \A p \in D : Carries(p, x) /\ Brings(p, x) /\ job[p].op = "start"
    BY RunnerConstants DEF RInv, NextOK, Carries, Brings, Discards
  <2>3. (B # {} \/ C # {} \/ D # {}) <=> \E p \in Procs : Brings(p, x)
    BY <2>2 DEF Brings
  <2>4. E # {} <=> placed \/ told
    <3>1. /\ x \in taskQueue <=> <<1, taskQueue>> \in E
          /\ x \in performing <=> <<2, performing>> \in E
          /\ x \in results <=> <<3, results>> \in E
          /\ x \in cancelSignal <=> <<4, cancelSignal>> \in E
          /\ x \in discardSignal <=> <<5, discardSignal>> \in E
      OBVIOUS
    <3>2. \A S \in E : S \in {<<1, taskQueue>>, <<2, performing>>, <<3, results>>,
                              <<4, cancelSignal>>, <<5, discardSignal>>}
      OBVIOUS
    <3> HIDE DEF E
    <3> QED BY <3>1, <3>2
  <2>5. \A a, b \in E : a = b
    BY DEF IInv, PlacesOK, AtOnePlace, RInv, SignalOK, SignalAt
  <2>6. \A a, b \in A : a = b
    BY DEF IInv, PlacesOK
  <2>7. /\ \A a, b \in B : a = b
        /\ \A a, b \in D : a = b
        /\ B = {} \/ D = {}
    BY <2>2 DEF IInv, PlacesOK, AtOnePlace
  <2>8. \A a, b \in C : a = b
    BY <2>2, DiscardedOnly
  <2>9. /\ B # {} \/ D # {} => A = {} /\ C = {} /\ E = {}
        /\ C # {} => A = {} /\ E = {}
    <3>1. ASSUME NEW p \in B \cup D PROVE A = {} /\ C = {} /\ E = {}
      <4>1. Carries(p, x) /\ Brings(p, x) /\ p \in Procs
        BY <2>2
      <4>2. /\ x \notin taskQueue \cup performing \cup results /\ ~InTasks(x)
            /\ \A q \in Procs : ~Discards(q, x)
            /\ x \notin cancelSignal \cup discardSignal
        BY <4>1, CarriedOnly
      <4> QED BY <4>2, <2>1, <2>2, <2>4
    <3>2. ASSUME NEW p \in C PROVE A = {} /\ E = {}
      <4>1. Discards(p, x) /\ p \in Procs
        BY <2>2
      <4>2. /\ x \notin taskQueue \cup performing \cup results /\ ~InTasks(x)
            /\ x \notin cancelSignal \cup discardSignal
        BY <4>1, DiscardedOnly
      <4> QED BY <4>2, <2>1, <2>4
    <3> QED BY <3>1, <3>2
  <2>10. A # {} => E = {}
    BY <2>1, <2>4, PlacedOnly DEF IInv, PlacesOK, AtOnePlace
  <2>11. promise[x] = "open" <=> A # {} \/ B # {} \/ C # {} \/ D # {} \/ E # {}
    BY <2>1, <2>3, <2>4 DEF RInv, OpenOK, OpenAt, Somewhere
  <2>12. /\ Cardinality(A) = IF A = {} THEN 0 ELSE 1
         /\ Cardinality(B) = IF B = {} THEN 0 ELSE 1
         /\ Cardinality(C) = IF C = {} THEN 0 ELSE 1
         /\ Cardinality(D) = IF D = {} THEN 0 ELSE 1
         /\ Cardinality(E) = IF E = {} THEN 0 ELSE 1
    <3> HIDE DEF A, B, C, D, E
    <3> QED BY <2>5, <2>6, <2>7, <2>8, AtMostOne
  <2>13. Places(x) = Cardinality(A) + Cardinality(B) + Cardinality(C) + Cardinality(D) + Cardinality(E)
    BY Zenon DEF Places
  <2> HIDE DEF A, B, C, D, E
  <2> QED BY <2>7, <2>9, <2>10, <2>11, <2>12, <2>13
<1> QED BY <1>1, RInvIsInvariant, PTL
=============================================================================
