---------------------- MODULE ConditionVariableProofs ----------------------
(***************************************************************************)
(* Theorems about ConditionVariable, for every number of threads, names,   *)
(* conditions, tasks and handles, as long as no handle is requested by the *)
(* empty name.  With it they do not hold: a condition that is deleted      *)
(* stays registered.                                                       *)
(***************************************************************************)
EXTENDS ConditionVariable, SequenceTheorems, FiniteSetTheorems, TLAPS

ASSUME NamesAreNotEmpty == Anonymous \notin Names

----------------------------------------------------------------------------
(* The inductive invariant. *)

(* What a condition is counted for. *)
Count(c) == IF cond[c] = None THEN 0 ELSE cond[c].refCount

CountOK(c) ==
  /\ IsFiniteSet(HandlesOf(c)) /\ IsFiniteSet(TasksOf(c))
  /\ Count(c) = Cardinality(HandlesOf(c)) + Cardinality(TasksOf(c))

CountsOK == \A c \in Conds : CountOK(c)

(* A name stands for a condition of that name. *)
MapOK ==
  \A n \in Names : condMap[n] # None => cond[condMap[n]] # None /\ cond[condMap[n]].name = n

(* Where a task is. *)
Queue(c) == IF cond[c] = None THEN <<>> ELSE cond[c].tasks
In(s, k) == \E i \in DOMAIN s : s[i] = k
Injective(s) == \A i, j \in DOMAIN s : s[i] = s[j] => i = j
InQueue(c, k) == In(Queue(c), k)
InEvents(t, k) == In(events[t], k)

(* The queues and the events hold live tasks, each once. *)
QueuesOK ==
  \A c \in Conds :
    /\ Injective(Queue(c))
    /\ \A k \in Tasks : InQueue(c, k) => task[k] # None /\ task[k].cond = c

EventsOK ==
  \A t \in Threads :
    /\ Injective(events[t])
    /\ \A k \in Tasks : InEvents(t, k) => task[k] # None /\ task[k].owner = t

(* A task of a live engine is in one of them. *)
WaysOK ==
  \A k \in Tasks : task[k] # None =>
    /\ ~(InQueue(task[k].cond, k) /\ InEvents(task[k].owner, k))
    /\ env[task[k].owner] = "alive"
         => InQueue(task[k].cond, k) \/ InEvents(task[k].owner, k)

PlacesOK == QueuesOK /\ EventsOK /\ WaysOK

IInv == TypeOK /\ CountsOK /\ MapOK /\ PlacesOK /\ FinishedOnce

----------------------------------------------------------------------------
(* Records, counts and lists. *)

(* The fields of a condition. *)
LEMMA CondFields ==
  ASSUME NEW r \in CondRecord
  PROVE  r.name \in Names \cup {Anonymous} /\ r.refCount \in Nat /\ r.tasks \in Seq(Tasks) /\ r # None
BY NoneIsNoObject DEF CondRecord

(* One whose count changes. *)
LEMMA NewCount ==
  ASSUME NEW r \in CondRecord, NEW n \in Nat
  PROVE  LET q == [r EXCEPT !.refCount = n] IN
         q \in CondRecord /\ q.refCount = n /\ q.name = r.name /\ q.tasks = r.tasks
BY DEF CondRecord

(* One whose tasks change. *)
LEMMA NewTasks ==
  ASSUME NEW r \in CondRecord, NEW ks \in Seq(Tasks)
  PROVE  LET q == [r EXCEPT !.tasks = ks] IN
         q \in CondRecord /\ q.refCount = r.refCount /\ q.name = r.name /\ q.tasks = ks
BY DEF CondRecord

(* One that is created. *)
LEMMA NewCondition ==
  ASSUME NEW n \in Names \cup {Anonymous}
  PROVE  LET q == [name |-> n, refCount |-> 1, tasks |-> <<>>] IN
         q \in CondRecord /\ q.refCount = 1 /\ q.name = n /\ q.tasks = <<>>
<1>1. <<>> \in Seq(Tasks)
  BY EmptySeq
<1> QED BY <1>1 DEF CondRecord

(* The fields of a task. *)
LEMMA TaskFields ==
  ASSUME TypeOK, NEW k \in Tasks, task[k] # None
  PROVE  /\ task[k] \in TaskRecord /\ task[k].cond \in Conds /\ task[k].owner \in Threads
         /\ k \in TasksOf(task[k].cond)
<1>1. task[k] \in TaskRecord
  BY DEF TypeOK
<1> QED BY <1>1 DEF TaskRecord, TasksOf

(* The queue of a condition is a list of tasks. *)
LEMMA QueueType ==
  ASSUME TypeOK, NEW c \in Conds
  PROVE  Queue(c) \in Seq(Tasks)
<1>1. CASE cond[c] = None
  BY <1>1, EmptySeq DEF Queue
<1>2. CASE cond[c] # None
  <2>1. cond[c] \in CondRecord
    BY <1>2 DEF TypeOK
  <2> QED BY <1>2, <2>1, CondFields DEF Queue
<1> QED BY <1>1, <1>2

(* One more of the things a condition is counted for. *)
LEMMA OneMore ==
  ASSUME NEW A, NEW B, NEW x, IsFiniteSet(A), IsFiniteSet(B), x \notin A
  PROVE  /\ IsFiniteSet(A \cup {x})
         /\ Cardinality(A \cup {x}) + Cardinality(B) = Cardinality(A) + Cardinality(B) + 1
<1>1. IsFiniteSet(A \cup {x}) /\ Cardinality(A \cup {x}) = Cardinality(A) + 1
  BY FS_AddElement
<1>2. Cardinality(A) \in Nat /\ Cardinality(B) \in Nat
  BY FS_CardinalityType
<1> QED BY <1>1, <1>2

(* One less. *)
LEMMA OneLess ==
  ASSUME NEW A, NEW B, NEW x \in A, IsFiniteSet(A), IsFiniteSet(B)
  PROVE  /\ IsFiniteSet(A \ {x})
         /\ Cardinality(A) + Cardinality(B) \in Nat \ {0}
         /\ Cardinality(A \ {x}) + Cardinality(B) = Cardinality(A) + Cardinality(B) - 1
         /\ Cardinality(A) + Cardinality(B) = 1 => A = {x} /\ B = {}
<1>1. IsFiniteSet(A \ {x}) /\ Cardinality(A \ {x}) = Cardinality(A) - 1
  BY FS_RemoveElement
<1>2. Cardinality(A) \in Nat /\ Cardinality(B) \in Nat /\ Cardinality(A \ {x}) \in Nat
  BY <1>1, FS_CardinalityType
<1>3. ASSUME Cardinality(A) + Cardinality(B) = 1 PROVE A = {x} /\ B = {}
  <2>1. Cardinality(A \ {x}) = 0 /\ Cardinality(B) = 0
    BY <1>1, <1>2, <1>3
  <2>2. A \ {x} = {} /\ B = {}
    BY <1>1, <2>1, FS_EmptySet
  <2> QED BY <2>2
<1> QED BY <1>1, <1>2, <1>3

(* A condition nothing is counted for is not referenced. *)
LEMMA CountZero ==
  ASSUME NEW c \in Conds, CountOK(c), Count(c) = 0
  PROVE  HandlesOf(c) = {} /\ TasksOf(c) = {}
<1>1. Cardinality(HandlesOf(c)) \in Nat /\ Cardinality(TasksOf(c)) \in Nat
  BY FS_CardinalityType DEF CountOK
<1>2. Cardinality(HandlesOf(c)) = 0 /\ Cardinality(TasksOf(c)) = 0
  BY <1>1 DEF CountOK
<1> QED BY <1>2, FS_EmptySet DEF CountOK

(* A condition that is referenced exists. *)
LEMMA HandleIsCounted ==
  ASSUME TypeOK, CountsOK, NEW h \in Handles, handle[h] # None
  PROVE  LET c == handle[h] IN
         /\ c \in Conds /\ h \in HandlesOf(c) /\ cond[c] \in CondRecord /\ cond[c] # None
         /\ cond[c].refCount \in Nat \ {0}
         /\ cond[c].refCount = 1 => TasksOf(c) = {}
<1> DEFINE c == handle[h]
<1>1. c \in Conds /\ h \in HandlesOf(c) /\ CountOK(c)
  BY DEF TypeOK, HandlesOf, CountsOK
<1> HIDE DEF c
<1>2. cond[c] # None
  BY <1>1, CountZero DEF Count
<1>3. Count(c) \in Nat \ {0} /\ (Count(c) = 1 => TasksOf(c) = {})
  <2> DEFINE A == HandlesOf(c)
             B == TasksOf(c)
  <2>1. h \in A /\ IsFiniteSet(A) /\ IsFiniteSet(B) /\ Count(c) = Cardinality(A) + Cardinality(B)
    BY <1>1 DEF CountOK
  <2> HIDE DEF A, B
  <2>2. /\ Cardinality(A) + Cardinality(B) \in Nat \ {0}
        /\ Cardinality(A) + Cardinality(B) = 1 => A = {h} /\ B = {}
    BY <2>1, OneLess
  <2> QED BY <2>1, <2>2 DEF B
<1>4. cond[c] \in CondRecord
  BY <1>1, <1>2 DEF TypeOK
<1> QED BY <1>1, <1>2, <1>3, <1>4 DEF Count, c

(* So does the condition of a task. *)
LEMMA TaskIsCounted ==
  ASSUME TypeOK, CountsOK, NEW k \in Tasks, task[k] # None
  PROVE  LET c == task[k].cond IN
         /\ c \in Conds /\ k \in TasksOf(c) /\ cond[c] \in CondRecord /\ cond[c] # None
         /\ cond[c].refCount \in Nat \ {0}
         /\ cond[c].refCount = 1 => HandlesOf(c) = {} /\ TasksOf(c) = {k}
<1> DEFINE c == task[k].cond
<1>1. c \in Conds /\ k \in TasksOf(c) /\ CountOK(c)
  BY TaskFields DEF CountsOK
<1> HIDE DEF c
<1>2. cond[c] # None
  BY <1>1, CountZero DEF Count
<1>3. IsFiniteSet(TasksOf(c)) /\ IsFiniteSet(HandlesOf(c))
  BY <1>1 DEF CountOK
<1>4. Count(c) = Cardinality(TasksOf(c)) + Cardinality(HandlesOf(c))
  <2>1. Cardinality(HandlesOf(c)) \in Nat /\ Cardinality(TasksOf(c)) \in Nat
    BY <1>3, FS_CardinalityType
  <2> QED BY <1>1, <2>1 DEF CountOK
<1>5. Count(c) \in Nat \ {0} /\ (Count(c) = 1 => HandlesOf(c) = {} /\ TasksOf(c) = {k})
  <2> DEFINE A == TasksOf(c)
             B == HandlesOf(c)
  <2>1. k \in A /\ IsFiniteSet(A) /\ IsFiniteSet(B) /\ Count(c) = Cardinality(A) + Cardinality(B)
    BY <1>1, <1>3, <1>4
  <2> HIDE DEF A, B
  <2>2. /\ Cardinality(A) + Cardinality(B) \in Nat \ {0}
        /\ Cardinality(A) + Cardinality(B) = 1 => A = {k} /\ B = {}
    BY <2>1, OneLess
  <2> QED BY <2>1, <2>2 DEF A, B
<1>6. cond[c] \in CondRecord
  BY <1>1, <1>2 DEF TypeOK
<1> QED BY <1>1, <1>2, <1>5, <1>6 DEF Count, c

(* A condition without tasks has nothing in its queue. *)
LEMMA NoTasksNoQueue ==
  ASSUME TypeOK, QueuesOK, NEW c \in Conds, TasksOf(c) = {}
  PROVE  Queue(c) = <<>>
<1>1. Queue(c) \in Seq(Tasks)
  BY QueueType
<1>2. ASSUME NEW i \in DOMAIN Queue(c) PROVE FALSE
  <2>1. Queue(c)[i] \in Tasks
    BY <1>1, <1>2, ElementOfSeq, LenProperties
  <2>2. InQueue(c, Queue(c)[i])
    BY DEF InQueue, In
  <2>3. Queue(c)[i] \in TasksOf(c)
    BY <2>1, <2>2 DEF QueuesOK, TasksOf
  <2> QED BY <2>3
<1>3. Len(Queue(c)) \in Nat /\ DOMAIN Queue(c) = 1..Len(Queue(c))
  BY <1>1, LenProperties
<1>4. Len(Queue(c)) = 0
  BY <1>2, <1>3
<1> QED BY <1>1, <1>4, EmptySeq

----------------------------------------------------------------------------
(* Lists that lose or gain tasks. *)

(* The end of a sequence from its m-th element on.                         *)
LEMMA SuffixFacts ==
  ASSUME NEW S, NEW s \in Seq(S), NEW m \in 1..(Len(s) + 1)
  PROVE  LET u == SubSeq(s, m, Len(s)) IN
         /\ u \in Seq(S) /\ Len(u) = Len(s) - m + 1 /\ DOMAIN u = 1..(Len(s) - m + 1)
         /\ \A i \in DOMAIN u : m + i - 1 \in DOMAIN s /\ u[i] = s[m + i - 1]
<1> DEFINE u == SubSeq(s, m, Len(s))
<1>1. Len(s) \in Nat /\ DOMAIN s = 1..Len(s) /\ m \in Int /\ Len(s) \in Int
  BY LenProperties
<1>2. \A i \in m..Len(s) : s[i] \in S
  BY <1>1, ElementOfSeq
<1>3. /\ u \in Seq(S)
      /\ Len(u) = IF m <= Len(s) THEN Len(s) - m + 1 ELSE 0
      /\ \A i \in 1..(Len(s) - m + 1) : u[i] = s[m + i - 1]
  BY <1>1, <1>2, SubSeqProperties
<1> HIDE DEF u
<1>4. Len(u) = Len(s) - m + 1
  BY <1>1, <1>3
<1>5. DOMAIN u = 1..(Len(s) - m + 1)
  BY <1>3, <1>4, LenProperties
<1>6. \A i \in DOMAIN u : m + i - 1 \in DOMAIN s /\ u[i] = s[m + i - 1]
  BY <1>1, <1>3, <1>5
<1> QED BY <1>3, <1>4, <1>5, <1>6 DEF u

(* A list without its k-th element.                                        *)
LEMMA ErasingFacts ==
  ASSUME NEW S, NEW s \in Seq(S), NEW k \in DOMAIN s,
         \A i, j \in DOMAIN s : s[i] = s[j] => i = j
  PROVE  LET u == SubSeq(s, 1, k - 1) \o SubSeq(s, k + 1, Len(s)) IN
         /\ u \in Seq(S)
         /\ \A i, j \in DOMAIN u : u[i] = u[j] => i = j
         /\ \A i \in DOMAIN u : u[i] # s[k] /\ \E j \in DOMAIN s : u[i] = s[j]
         /\ \A j \in DOMAIN s : j # k => \E i \in DOMAIN u : u[i] = s[j]
<1> DEFINE a == SubSeq(s, 1, k - 1)
           b == SubSeq(s, k + 1, Len(s))
           u == a \o b
<1>1. Len(s) \in Nat /\ DOMAIN s = 1..Len(s) /\ k \in 1..Len(s)
  BY LenProperties
<1>2. /\ a \in Seq(S) /\ Len(a) = k - 1
      /\ \A j \in 1..(k - 1) : a[j] = s[j]
  <2>1. \A j \in 1..(k - 1) : s[j] \in S
    BY <1>1, ElementOfSeq
  <2>2. /\ a \in Seq(S)
        /\ Len(a) = IF 1 <= k - 1 THEN (k - 1) - 1 + 1 ELSE 0
        /\ \A j \in 1..((k - 1) - 1 + 1) : a[j] = s[1 + j - 1]
    BY <1>1, <2>1, SubSeqProperties
  <2> HIDE DEF a
  <2>3. \A j \in 1..(k - 1) : 1 + j - 1 = j
    BY <1>1
  <2> QED BY <1>1, <2>2, <2>3
<1>3. /\ b \in Seq(S) /\ Len(b) = Len(s) - k
      /\ \A j \in 1..(Len(s) - k) : b[j] = s[k + 1 + j - 1]
  <2>1. k + 1 \in 1..(Len(s) + 1)
    BY <1>1
  <2>2. /\ b \in Seq(S) /\ Len(b) = Len(s) - (k + 1) + 1 /\ DOMAIN b = 1..(Len(s) - (k + 1) + 1)
        /\ \A j \in DOMAIN b : b[j] = s[k + 1 + j - 1]
    BY <2>1, SuffixFacts
  <2> HIDE DEF b
  <2>3. Len(s) - (k + 1) + 1 = Len(s) - k
    BY <1>1
  <2> QED BY <2>2, <2>3
<1> HIDE DEF a, b
<1>4. /\ u \in Seq(S) /\ Len(u) = Len(a) + Len(b)
      /\ \A j \in 1..(Len(a) + Len(b)) : u[j] = IF j <= Len(a) THEN a[j] ELSE b[j - Len(a)]
  <2>1. a \in Seq(S) /\ b \in Seq(S)
    BY <1>2, <1>3
  <2> HIDE DEF a, b
  <2> QED BY <2>1, ConcatProperties
<1> HIDE DEF u
<1>5. DOMAIN u = 1..(Len(s) - 1)
  BY <1>1, <1>2, <1>3, <1>4, LenProperties
<1> DEFINE from(i) == IF i <= k - 1 THEN i ELSE i + 1
<1>6. ASSUME NEW i \in DOMAIN u
      PROVE  from(i) \in DOMAIN s /\ from(i) # k /\ u[i] = s[from(i)]
  <2>1. CASE i <= k - 1
    BY <2>1, <1>1, <1>2, <1>3, <1>4, <1>5
  <2>2. CASE i > k - 1
    <3>1. i - (k - 1) \in 1..(Len(s) - k) /\ k + 1 + (i - (k - 1)) - 1 = i + 1
      BY <2>2, <1>1, <1>5
    <3>2. u[i] = b[i - (k - 1)]
      BY <2>2, <1>1, <1>2, <1>3, <1>4, <1>5
    <3>3. u[i] = s[i + 1]
      BY <3>1, <3>2, <1>3
    <3> QED BY <2>2, <3>3, <1>1, <1>5
  <2> QED BY <2>1, <2>2, <1>1, <1>5
<1>7. \A i, j \in DOMAIN u : from(i) = from(j) => i = j
  BY <1>1, <1>5
<1>0. \A j \in DOMAIN s : j # k => \E i \in DOMAIN u : u[i] = s[j]
  <2>1. ASSUME NEW j \in DOMAIN s, j # k PROVE \E i \in DOMAIN u : from(i) = j
    <3> DEFINE i == IF j < k THEN j ELSE j - 1
    <3>1. i \in DOMAIN u /\ from(i) = j
      BY <2>1, <1>1, <1>5
    <3> QED BY <3>1
  <2> QED BY <2>1, <1>6
<1> HIDE DEF from
<1>8. \A i, j \in DOMAIN u : u[i] = u[j] => i = j
  BY <1>6, <1>7
<1>9. \A i \in DOMAIN u : u[i] # s[k] /\ \E j \in DOMAIN s : u[i] = s[j]
  BY <1>1, <1>6
<1> QED BY <1>0, <1>4, <1>8, <1>9 DEF u, a, b

(* The oldest of the waiting tasks goes. *)
LEMMA TailFacts ==
  ASSUME NEW S, NEW s \in Seq(S), s # <<>>,
         \A i, j \in DOMAIN s : s[i] = s[j] => i = j
  PROVE  /\ Tail(s) \in Seq(S) /\ Head(s) = s[1] /\ 1 \in DOMAIN s
         /\ \A i, j \in DOMAIN Tail(s) : Tail(s)[i] = Tail(s)[j] => i = j
         /\ \A i \in DOMAIN Tail(s) : Tail(s)[i] # Head(s) /\ \E j \in DOMAIN s : Tail(s)[i] = s[j]
         /\ \A j \in DOMAIN s : s[j] # Head(s) => \E i \in DOMAIN Tail(s) : Tail(s)[i] = s[j]
<1>1. Len(s) \in Nat /\ DOMAIN s = 1..Len(s) /\ Len(s) # 0
  BY LenProperties, EmptySeq
<1>2. /\ Tail(s) \in Seq(S) /\ Len(Tail(s)) = Len(s) - 1
      /\ \A i \in 1..(Len(s) - 1) : Tail(s)[i] = s[i + 1]
      /\ Head(s) = s[1]
  BY HeadTailProperties
<1>3. DOMAIN Tail(s) = 1..(Len(s) - 1)
  BY <1>2, LenProperties
<1>4. \A i \in DOMAIN Tail(s) : i + 1 \in DOMAIN s /\ i + 1 # 1 /\ Tail(s)[i] = s[i + 1]
  BY <1>1, <1>2, <1>3
<1>5. \A i, j \in DOMAIN Tail(s) : i + 1 = j + 1 => i = j
  BY <1>3
<1>6. \A j \in DOMAIN s : j # 1 => j - 1 \in DOMAIN Tail(s) /\ Tail(s)[j - 1] = s[j]
  BY <1>1, <1>2, <1>3
<1>7. \A j \in DOMAIN s : s[j] # Head(s) => \E i \in DOMAIN Tail(s) : Tail(s)[i] = s[j]
  BY <1>2, <1>6
<1> QED BY <1>1, <1>2, <1>4, <1>5, <1>7

(* A task that is erased is not in the list any more, the others are.      *)
LEMMA ErasedIs ==
  ASSUME NEW S, NEW s \in Seq(S), Injective(s), NEW k, In(s, k)
  PROVE  /\ Without(k, s) \in Seq(S) /\ Injective(Without(k, s))
         /\ \A x : In(Without(k, s), x) <=> In(s, x) /\ x # k
<1> DEFINE i == PositionOf(k, s)
           u == SubSeq(s, 1, i - 1) \o SubSeq(s, i + 1, Len(s))
<1>1. PICK j \in DOMAIN s : s[j] = k
  BY DEF In
<1>2. \A n \in DOMAIN s : s[n] = k => n = j
  BY <1>1 DEF Injective
<1>3. DOMAIN s \subseteq Nat
  <2>1. DOMAIN s = 1..Len(s)
    BY LenProperties
  <2> QED BY <2>1
<1>4. i \in DOMAIN s /\ s[i] = k
  <2>1. \E n \in DOMAIN s : s[n] = k /\ \A m \in DOMAIN s : s[m] = k => n <= m
    BY <1>1, <1>2, <1>3
  <2> QED BY <2>1 DEF PositionOf
<1>5. \A m, n \in DOMAIN s : s[m] = s[n] => m = n
  BY DEF Injective
<1> HIDE DEF i
<1>6. /\ u \in Seq(S)
      /\ \A m, n \in DOMAIN u : u[m] = u[n] => m = n
      /\ \A m \in DOMAIN u : u[m] # s[i] /\ \E n \in DOMAIN s : u[m] = s[n]
      /\ \A n \in DOMAIN s : n # i => \E m \in DOMAIN u : u[m] = s[n]
  BY <1>4, <1>5, ErasingFacts
<1> HIDE DEF u
<1>7. \A x : In(u, x) <=> In(s, x) /\ x # k
  BY <1>4, <1>6 DEF In
<1>8. Without(k, s) = u
  BY DEF Without, u, i
<1> QED BY <1>6, <1>7, <1>8 DEF Injective

(* A task that is appended is in the list, too. *)
LEMMA AppendedIs ==
  ASSUME NEW S, NEW s \in Seq(S), Injective(s), NEW k \in S, ~In(s, k)
  PROVE  /\ Append(s, k) \in Seq(S) /\ Injective(Append(s, k))
         /\ \A x : In(Append(s, k), x) <=> In(s, x) \/ x = k
<1>1. Len(s) \in Nat /\ DOMAIN s = 1..Len(s)
  BY LenProperties
<1>2. /\ Append(s, k) \in Seq(S) /\ Len(Append(s, k)) = Len(s) + 1
      /\ \A i \in 1..Len(s) : Append(s, k)[i] = s[i]
      /\ Append(s, k)[Len(s) + 1] = k
  BY AppendProperties
<1>3. DOMAIN Append(s, k) = 1..(Len(s) + 1)
  BY <1>2, LenProperties
<1>4. \A i \in DOMAIN Append(s, k) : i \in DOMAIN s \/ i = Len(s) + 1
  BY <1>1, <1>3
<1>5. DOMAIN s \subseteq DOMAIN Append(s, k) /\ Len(s) + 1 \in DOMAIN Append(s, k)
  BY <1>1, <1>3
<1>6. \A x : In(Append(s, k), x) <=> In(s, x) \/ x = k
  BY <1>1, <1>2, <1>4, <1>5 DEF In
<1>7. Injective(Append(s, k))
  BY <1>1, <1>2, <1>4 DEF In, Injective
<1> QED BY <1>2, <1>6, <1>7

(* The task at the front. *)
LEMMA TailIs ==
  ASSUME NEW S, NEW s \in Seq(S), Injective(s), s # <<>>
  PROVE  /\ Tail(s) \in Seq(S) /\ Injective(Tail(s)) /\ Head(s) \in S /\ In(s, Head(s))
         /\ \A x : In(Tail(s), x) <=> In(s, x) /\ x # Head(s)
<1>1. \A m, n \in DOMAIN s : s[m] = s[n] => m = n
  BY DEF Injective
<1>2. /\ Tail(s) \in Seq(S) /\ Head(s) = s[1] /\ 1 \in DOMAIN s
      /\ \A i, j \in DOMAIN Tail(s) : Tail(s)[i] = Tail(s)[j] => i = j
      /\ \A i \in DOMAIN Tail(s) : Tail(s)[i] # Head(s) /\ \E j \in DOMAIN s : Tail(s)[i] = s[j]
      /\ \A j \in DOMAIN s : s[j] # Head(s) => \E i \in DOMAIN Tail(s) : Tail(s)[i] = s[j]
  BY <1>1, TailFacts
<1>3. Head(s) \in S
  <2>1. 1 \in 1..Len(s)
    BY <1>2, LenProperties
  <2> QED BY <1>2, <2>1, ElementOfSeq
<1> QED BY <1>2, <1>3 DEF In, Injective

(* Two lists that have no task in common, one after the other. *)
LEMMA JoinedIs ==
  ASSUME NEW S, NEW a \in Seq(S), NEW b \in Seq(S), Injective(a), Injective(b),
         \A x : ~(In(a, x) /\ In(b, x))
  PROVE  /\ a \o b \in Seq(S) /\ Injective(a \o b)
         /\ \A x : In(a \o b, x) <=> In(a, x) \/ In(b, x)
<1> DEFINE u == a \o b
<1>1. /\ Len(a) \in Nat /\ DOMAIN a = 1..Len(a)
      /\ Len(b) \in Nat /\ DOMAIN b = 1..Len(b)
  BY LenProperties
<1>2. /\ u \in Seq(S) /\ Len(u) = Len(a) + Len(b)
      /\ \A j \in 1..(Len(a) + Len(b)) : u[j] = IF j <= Len(a) THEN a[j] ELSE b[j - Len(a)]
  BY ConcatProperties
<1> HIDE DEF u
<1>3. DOMAIN u = 1..(Len(a) + Len(b))
  BY <1>2, LenProperties
<1>4. ASSUME NEW j \in DOMAIN u
      PROVE  \/ j \in DOMAIN a /\ u[j] = a[j]
             \/ j - Len(a) \in DOMAIN b /\ u[j] = b[j - Len(a)] /\ j \in Int
  <2>0. j \in 1..(Len(a) + Len(b))
    BY <1>3
  <2>1. /\ j \in 1..(Len(a) + Len(b)) /\ j \in Int
        /\ u[j] = IF j <= Len(a) THEN a[j] ELSE b[j - Len(a)]
    BY <2>0, <1>1, <1>2
  <2>2. CASE j <= Len(a)
    BY <2>1, <2>2, <1>1
  <2>3. CASE ~(j <= Len(a))
    <3>1. j - Len(a) \in 1..Len(b)
      BY <2>1, <2>3, <1>1
    <3> QED BY <3>1, <2>1, <2>3, <1>1
  <2> QED BY <2>2, <2>3
<1>5. \A j \in DOMAIN a : j \in DOMAIN u /\ u[j] = a[j]
  BY <1>1, <1>2, <1>3
<1>6. \A j \in DOMAIN b : j + Len(a) \in DOMAIN u /\ u[j + Len(a)] = b[j]
  BY <1>1, <1>2, <1>3
<1>7. \A x : In(u, x) <=> In(a, x) \/ In(b, x)
  BY <1>4, <1>5, <1>6 DEF In
<1>8. \A i, j \in Int : i - Len(a) = j - Len(a) => i = j
  BY <1>1
<1>9. ASSUME NEW i \in DOMAIN u, NEW j \in DOMAIN u, u[i] = u[j] PROVE i = j
  <2>1. CASE i \in DOMAIN a /\ u[i] = a[i] /\ j \in DOMAIN a /\ u[j] = a[j]
    BY <2>1, <1>9 DEF Injective
  <2>2. CASE /\ i - Len(a) \in DOMAIN b /\ u[i] = b[i - Len(a)]
             /\ j - Len(a) \in DOMAIN b /\ u[j] = b[j - Len(a)] /\ i \in Int /\ j \in Int
    BY <2>2, <1>8, <1>9 DEF Injective
  <2>3. CASE i \in DOMAIN a /\ u[i] = a[i] /\ j - Len(a) \in DOMAIN b /\ u[j] = b[j - Len(a)]
    BY <2>3, <1>9 DEF In
  <2>4. CASE j \in DOMAIN a /\ u[j] = a[j] /\ i - Len(a) \in DOMAIN b /\ u[i] = b[i - Len(a)]
    BY <2>4, <1>9 DEF In
  <2> QED BY <1>4, <2>1, <2>2, <2>3, <2>4
<1> QED BY <1>2, <1>7, <1>9 DEF Injective, u

(* The rank of a position tells it from the others. *)
LEMMA RanksDiffer ==
  ASSUME NEW n \in Nat, NEW P \in SUBSET (1..n)
  PROVE  /\ IsFiniteSet(P)
         /\ \A i \in P : Rank(i, P) \in 1..Cardinality(P)
         /\ \A i, j \in P : Rank(i, P) = Rank(j, P) => i = j
<1> DEFINE Upto(i) == {j \in P : j <= i}
<1>1. IsFiniteSet(P)
  <2>1. IsFiniteSet(1..n)
    BY FS_Interval
  <2> QED BY <2>1, FS_Subset
<1>2. ASSUME NEW i \in P PROVE IsFiniteSet(Upto(i)) /\ Rank(i, P) \in 1..Cardinality(P)
  <2>1. Upto(i) \in SUBSET P /\ Upto(i) # {}
    BY <1>2
  <2>2. /\ IsFiniteSet(Upto(i)) /\ Cardinality(Upto(i)) <= Cardinality(P)
        /\ Cardinality(P) \in Nat /\ Cardinality(Upto(i)) \in Nat
    BY <1>1, <2>1, FS_Subset, FS_CardinalityType
  <2>3. Cardinality(Upto(i)) # 0
    BY <2>1, <2>2, FS_EmptySet
  <2> QED BY <2>2, <2>3 DEF Rank
<1>3. ASSUME NEW i \in P, NEW j \in P, Rank(i, P) = Rank(j, P), i <= j PROVE i = j
  <2>1. Upto(i) \in SUBSET Upto(j)
    <3>1. /\ \A p \in P : p \in Int
          /\ i \in Int /\ j \in Int
      OBVIOUS
    <3>2. ASSUME NEW p \in Upto(i) PROVE p \in Upto(j)
      <4>1. p \in P /\ p \in Int /\ p <= i
        BY <3>1, <3>2
      <4>2. p <= j
        BY <4>1, <3>1, <1>3
      <4> QED BY <4>1, <4>2
    <3> QED BY <3>2
  <2>2. Upto(i) = Upto(j)
    BY <1>2, <1>3, <2>1, FS_Subset DEF Rank
  <2>3. j \in Upto(i)
    BY <2>2
  <2> QED BY <1>3, <2>3
<1>4. \A i, j \in P : i <= j \/ j <= i
  OBVIOUS
<1> QED BY <1>1, <1>2, <1>3, <1>4

(* The tasks that are chosen are those at the positions P. *)
LEMMA ChosenIs ==
  ASSUME NEW S, NEW s \in Seq(S), Injective(s), NEW P \in SUBSET DOMAIN s
  PROVE  /\ Chosen(s, P) \in Seq(S) /\ Injective(Chosen(s, P))
         /\ \A x : In(Chosen(s, P), x) <=> \E i \in P : s[i] = x
<1> DEFINE m == Cardinality(P)
           f == [i \in P |-> Rank(i, P)]
           at(n) == CHOOSE i \in P : Rank(i, P) = n
           u == [n \in 1..m |-> s[at(n)]]
<1>1. Len(s) \in Nat /\ DOMAIN s = 1..Len(s)
  BY LenProperties
<1>2. /\ IsFiniteSet(P) /\ m \in Nat
      /\ \A i \in P : Rank(i, P) \in 1..m
      /\ \A i, j \in P : Rank(i, P) = Rank(j, P) => i = j
  <2>1. P \in SUBSET (1..Len(s))
    BY <1>1
  <2>2. /\ IsFiniteSet(P)
        /\ \A i \in P : Rank(i, P) \in 1..Cardinality(P)
        /\ \A i, j \in P : Rank(i, P) = Rank(j, P) => i = j
    BY <1>1, <2>1, RanksDiffer
  <2> QED BY <2>2, FS_CardinalityType
<1>3. f \in Injection(P, 1..m)
  BY <1>2 DEF Injection, IsInjective
<1>4. IsFiniteSet(1..m) /\ Cardinality(1..m) = m
  <2> HIDE DEF m
  <2> QED BY <1>2, FS_Interval
<1>5. f \in Surjection(P, 1..m)
  <2>1. Cardinality(P) = Cardinality(1..m)
    BY <1>4
  <2> HIDE DEF f, m
  <2> QED BY <1>3, <1>4, <2>1, FS_Injection
<1>6. ASSUME NEW n \in 1..m PROVE at(n) \in P /\ Rank(at(n), P) = n
  <2>1. \E i \in P : f[i] = n
    BY <1>5, <1>6 DEF Surjection
  <2>2. \E i \in P : Rank(i, P) = n
    BY <2>1
  <2> QED BY <2>2
<1>7. ASSUME NEW i \in P PROVE at(Rank(i, P)) = i
  <2> DEFINE n == Rank(i, P)
  <2>1. n \in 1..m
    BY <1>2
  <2> HIDE DEF n
  <2>2. at(n) \in P /\ Rank(at(n), P) = n
    BY <2>1, <1>6
  <2> HIDE DEF at
  <2> QED BY <1>2, <2>2 DEF n
<1> HIDE DEF at, m
<1>8. u \in Seq(S)
  <2>1. \A n \in 1..m : s[at(n)] \in S
    BY <1>1, <1>6, ElementOfSeq
  <2>2. u \in [1..m -> S]
    BY <2>1
  <2> HIDE DEF u
  <2> QED BY <1>2, <2>2, SeqDef
<1>9. \A x : In(u, x) <=> \E i \in P : s[i] = x
  BY <1>2, <1>6, <1>7 DEF In
<1>10. ASSUME NEW a \in 1..m, NEW b \in 1..m, s[at(a)] = s[at(b)] PROVE a = b
  <2>1. at(a) = at(b)
    BY <1>6, <1>10 DEF Injective
  <2> QED BY <1>6, <2>1
<1>11. Injective(u)
  BY <1>10 DEF Injective
<1>12. Chosen(s, P) = u
  BY DEF Chosen, u, at, m
<1> HIDE DEF u
<1> QED BY <1>8, <1>9, <1>11, <1>12

(* A list of one task. *)
LEMMA SingleIs ==
  ASSUME NEW S, NEW k \in S
  PROVE  <<k>> \in Seq(S) /\ Injective(<<k>>) /\ \A x : In(<<k>>, x) <=> x = k
<1>1. <<k>> \in Seq(S) /\ DOMAIN <<k>> = 1..1 /\ <<k>>[1] = k
  BY SeqDef
<1> QED BY <1>1 DEF In, Injective

(* The empty list. *)
LEMMA EmptyIs == Injective(<<>>) /\ \A x : ~In(<<>>, x)
  BY DEF In, Injective

----------------------------------------------------------------------------
(* What steps do to counts, names and places. *)

(* The members of a list are tasks. *)
LEMMA MembersAreTasks ==
  ASSUME NEW S, NEW s \in Seq(S), NEW k, In(s, k)
  PROVE  k \in S
<1>1. PICK i \in DOMAIN s : s[i] = k
  BY DEF In
<1>2. i \in 1..Len(s)
  BY LenProperties
<1> QED BY <1>1, <1>2, ElementOfSeq

(* A reference to c is dropped; ks is what c has queued after that. *)
Drops(c, ks) ==
  /\ \A d \in Conds \ {c} : cond'[d] = cond[d]
  /\ \/ cond[c].refCount = 1 /\ cond[c].name = Anonymous /\ cond'[c] = None
     \/ /\ cond'[c] # None /\ cond'[c].refCount = cond[c].refCount - 1
        /\ cond'[c].name = cond[c].name /\ cond'[c].tasks = ks

(* TryRemoveCondition drops a reference. *)
LEMMA TryRemoveDrops ==
  ASSUME TypeOK, NEW t \in Threads, NEW c \in Conds, NEW q \in CondRecord,
         q.refCount = cond[c].refCount, q.name = cond[c].name, q.refCount # 0,
         TryRemoveCondition(t, c, q)
  PROVE  /\ Drops(c, q.tasks)
         /\ cond' \in [Conds -> CondRecord \cup {None}]
         /\ removing' \in [Threads -> [cond : Conds, name : Names] \cup {None}]
<1> DEFINE left == q.refCount - 1
           p == [q EXCEPT !.refCount = left]
<1>1. left \in Nat /\ q.name \in Names \cup {Anonymous}
  BY CondFields
<1>2. p \in CondRecord /\ p.refCount = left /\ p.name = q.name /\ p.tasks = q.tasks /\ p # None
  <2> HIDE DEF left
  <2>1. p \in CondRecord /\ p.refCount = left /\ p.name = q.name /\ p.tasks = q.tasks
    BY <1>1, NewCount
  <2> QED BY <2>1, CondFields
<1>3. cond \in [Conds -> CondRecord \cup {None}]
      /\ removing \in [Threads -> [cond : Conds, name : Names] \cup {None}]
  BY DEF TypeOK
<1>4. CASE left # 0 /\ cond' = [cond EXCEPT ![c] = p] /\ UNCHANGED removing
  <2> HIDE DEF p
  <2> QED BY <1>2, <1>3, <1>4 DEF Drops
<1>5. CASE left = 0 /\ q.name = Anonymous /\ cond' = [cond EXCEPT ![c] = None] /\ UNCHANGED removing
  <2>1. q.refCount = 1
    BY <1>5, CondFields
  <2> QED BY <2>1, <1>3, <1>5 DEF Drops
<1>6. CASE /\ left = 0 /\ q.name # Anonymous /\ cond' = [cond EXCEPT ![c] = p]
           /\ removing' = [removing EXCEPT ![t] = [cond |-> c, name |-> q.name]]
  <2> HIDE DEF p
  <2>1. [cond |-> c, name |-> q.name] \in [cond : Conds, name : Names]
    BY <1>1, <1>6
  <2> QED BY <2>1, <1>2, <1>3, <1>6 DEF Drops
<1>7. \/ left # 0 /\ cond' = [cond EXCEPT ![c] = p] /\ UNCHANGED removing
      \/ left = 0 /\ q.name = Anonymous /\ cond' = [cond EXCEPT ![c] = None] /\ UNCHANGED removing
      \/ /\ left = 0 /\ q.name # Anonymous /\ cond' = [cond EXCEPT ![c] = p]
         /\ removing' = [removing EXCEPT ![t] = [cond |-> c, name |-> q.name]]
  <2>1. left = 0 => p = [q EXCEPT !.refCount = 0]
    OBVIOUS
  <2> QED BY <2>1 DEF TryRemoveCondition
<1> QED BY <1>4, <1>5, <1>6, <1>7

(* The names still stand for conditions. *)
LEMMA DropsMap ==
  ASSUME TypeOK, MapOK, NEW c \in Conds, NEW ks, Drops(c, ks), condMap' = condMap
  PROVE  MapOK'
<1> SUFFICES ASSUME NEW n \in Names, condMap[n] # None
             PROVE  cond'[condMap[n]] # None /\ cond'[condMap[n]].name = n
  BY DEF MapOK
<1>1. condMap[n] \in Conds /\ cond[condMap[n]] # None /\ cond[condMap[n]].name = n /\ n # Anonymous
  BY NamesAreNotEmpty DEF TypeOK, MapOK
<1> QED BY <1>1 DEF Drops

(* Its count is one less, the others are as they were. *)
LEMMA DropsCount ==
  ASSUME TypeOK, NEW c \in Conds, NEW ks, Drops(c, ks), cond[c] # None
  PROVE  /\ Count(c)' = Count(c) - 1
         /\ \A d \in Conds \ {c} : Count(d)' = Count(d) /\ Queue(d)' = Queue(d)
         /\ cond'[c] # None => Queue(c)' = ks
         /\ cond'[c] = None => cond[c].refCount = 1 /\ Queue(c)' = <<>>
BY DEF Drops, Count, Queue

(* Counts that are not touched. *)
LEMMA CountsKept ==
  ASSUME NEW D \in SUBSET Conds, \A c \in D : CountOK(c), handle' = handle,
         \A c \in D : TasksOf(c)' = TasksOf(c) /\ Count(c)' = Count(c)
  PROVE  \A c \in D : CountOK(c)'
<1>1. \A c \in D : HandlesOf(c)' = HandlesOf(c)
  BY DEF HandlesOf
<1> QED BY <1>1 DEF CountOK

(* Tasks that stay as they are, apart from their timers and hooks. *)
SameTasks ==
  \A k \in Tasks :
    /\ task'[k] # None <=> task[k] # None
    /\ task[k] # None => task'[k].cond = task[k].cond /\ task'[k].owner = task[k].owner

(* No task moves. *)
LEMMA PlacesKept ==
  ASSUME TypeOK, PlacesOK, SameTasks, \A c \in Conds : Queue(c)' = Queue(c), events' = events,
         \A t \in Threads : env'[t] = "alive" => env[t] = "alive"
  PROVE  PlacesOK'
<1>1. \A k \in Tasks : task[k] # None => task[k].cond \in Conds /\ task[k].owner \in Threads
  BY TaskFields
<1>2. \A c \in Conds : \A k : InQueue(c, k)' <=> InQueue(c, k)
  BY DEF InQueue
<1>3. \A t \in Threads : \A k : InEvents(t, k)' <=> InEvents(t, k)
  BY DEF InEvents
<1>4. QueuesOK'
  BY <1>2 DEF PlacesOK, QueuesOK, SameTasks
<1>5. EventsOK'
  BY <1>3 DEF PlacesOK, EventsOK, SameTasks
<1>6. WaysOK'
  BY <1>1, <1>2, <1>3 DEF PlacesOK, WaysOK, SameTasks
<1> QED BY <1>4, <1>5, <1>6 DEF PlacesOK

(* One task is finished. *)
LEMMA PlacesFinished ==
  ASSUME TypeOK, PlacesOK, NEW k \in Tasks, task'[k] = None, env' = env,
         \A j \in Tasks : j # k => task'[j] = task[j],
         \A c \in Conds : Injective(Queue(c))' /\ \A j \in Tasks : InQueue(c, j)' <=> InQueue(c, j) /\ j # k,
         \A t \in Threads : Injective(events[t])' /\ \A j \in Tasks : InEvents(t, j)' <=> InEvents(t, j) /\ j # k
  PROVE  PlacesOK'
<1>1. \A j \in Tasks : task[j] # None => task[j].cond \in Conds /\ task[j].owner \in Threads
  BY TaskFields
<1>2. QueuesOK'
  BY DEF PlacesOK, QueuesOK
<1>3. EventsOK'
  BY DEF PlacesOK, EventsOK
<1>4. WaysOK'
  BY <1>1 DEF PlacesOK, WaysOK
<1> QED BY <1>2, <1>3, <1>4 DEF PlacesOK

(* What is posted. *)
LEMMA PostedIs ==
  ASSUME TypeOK, EventsOK, NEW ks \in Seq(Tasks), Injective(ks),
         \A t \in Threads : \A k : ~(InEvents(t, k) /\ In(ks, k))
  PROVE  /\ Posted(ks) \in [Threads -> Seq(Tasks)]
         /\ \A t \in Threads :
              /\ Injective(Posted(ks)[t])
              /\ \A k : In(Posted(ks)[t], k) <=>
                          InEvents(t, k) \/ (In(ks, k) /\ task[k].owner = t /\ env[t] = "alive")
<1>1. ASSUME NEW t \in Threads
      PROVE  LET s == events[t] \o Chosen(ks, Positions(t, ks)) IN
             /\ s \in Seq(Tasks) /\ Injective(s)
             /\ \A k : In(s, k) <=>
                         InEvents(t, k) \/ (In(ks, k) /\ task[k].owner = t /\ env[t] = "alive")
  <2> DEFINE P == Positions(t, ks)
             a == events[t]
             b == Chosen(ks, P)
  <2>1. a \in Seq(Tasks) /\ Injective(a)
    BY DEF TypeOK, EventsOK
  <2>2. P \in SUBSET DOMAIN ks
    BY DEF Positions
  <2> HIDE DEF P
  <2>3. b \in Seq(Tasks) /\ Injective(b) /\ \A k : In(b, k) <=> \E i \in P : ks[i] = k
    BY <2>2, ChosenIs
  <2>4. \A k : In(b, k) <=> In(ks, k) /\ task[k].owner = t /\ env[t] = "alive"
    BY <2>3 DEF P, Positions, In
  <2>5. \A k : ~(In(a, k) /\ In(b, k))
    BY <2>4 DEF InEvents
  <2> HIDE DEF a, b
  <2>6. /\ a \o b \in Seq(Tasks) /\ Injective(a \o b)
        /\ \A k : In(a \o b, k) <=> In(a, k) \/ In(b, k)
    BY <2>1, <2>3, <2>5, JoinedIs
  <2>7. \A k : In(a, k) <=> InEvents(t, k)
    BY DEF a, InEvents
  <2> QED BY <2>4, <2>6, <2>7 DEF a, b, P
<1>2. \A t \in Threads : Posted(ks)[t] = events[t] \o Chosen(ks, Positions(t, ks))
  BY DEF Posted
<1>3. Posted(ks) \in [Threads -> Seq(Tasks)]
  <2> DEFINE s(t) == events[t] \o Chosen(ks, Positions(t, ks))
  <2>1. \A t \in Threads : s(t) \in Seq(Tasks)
    BY <1>1
  <2>2. Posted(ks) = [t \in Threads |-> s(t)]
    BY DEF Posted
  <2> HIDE DEF s
  <2> QED BY <2>1, <2>2
<1>4. ASSUME NEW t \in Threads
      PROVE  /\ Injective(Posted(ks)[t])
             /\ \A k : In(Posted(ks)[t], k) <=>
                         InEvents(t, k) \/ (In(ks, k) /\ task[k].owner = t /\ env[t] = "alive")
  <2> DEFINE s == events[t] \o Chosen(ks, Positions(t, ks))
  <2>1. /\ Injective(s)
        /\ \A k : In(s, k) <=>
                    InEvents(t, k) \/ (In(ks, k) /\ task[k].owner = t /\ env[t] = "alive")
    BY <1>1
  <2>2. Posted(ks)[t] = s
    BY <1>2
  <2> HIDE DEF s
  <2> QED BY <2>1, <2>2
<1> QED BY <1>3, <1>4

(* Tasks ks of the queue of c are notified, the rest of it stays. *)
LEMMA PlacesNotified ==
  ASSUME TypeOK, PlacesOK, NEW c \in Conds, NEW ks \in Seq(Tasks), NEW rest \in Seq(Tasks),
         Injective(ks), Injective(rest),
         \A k : InQueue(c, k) <=> In(ks, k) \/ In(rest, k),
         \A k : ~(In(ks, k) /\ In(rest, k)),
         Queue(c)' = rest, \A d \in Conds : d # c => Queue(d)' = Queue(d),
         events' = Posted(ks), task' = task, env' = env
  PROVE  PlacesOK' /\ events' \in [Threads -> Seq(Tasks)]
<1>1. \A k : In(ks, k) => k \in Tasks
  BY MembersAreTasks
<1>2. \A t \in Threads : \A k : ~(InEvents(t, k) /\ In(ks, k))
  <2> SUFFICES ASSUME NEW t \in Threads, NEW k, InEvents(t, k), In(ks, k) PROVE FALSE
    OBVIOUS
  <2>1. k \in Tasks /\ InQueue(c, k)
    BY <1>1
  <2>2. task[k] # None /\ task[k].cond = c /\ task[k].owner = t
    BY <2>1 DEF PlacesOK, QueuesOK, EventsOK
  <2> QED BY <2>1, <2>2 DEF PlacesOK, WaysOK
<1>3. /\ events' \in [Threads -> Seq(Tasks)]
      /\ \A t \in Threads :
           /\ Injective(events'[t])
           /\ \A k : In(events'[t], k) <=>
                       InEvents(t, k) \/ (In(ks, k) /\ task[k].owner = t /\ env[t] = "alive")
  BY <1>2, PostedIs DEF PlacesOK
<1>4. \A t \in Threads : \A k : InEvents(t, k)' <=>
        InEvents(t, k) \/ (In(ks, k) /\ task[k].owner = t /\ env[t] = "alive")
  BY <1>3 DEF InEvents
<1>5. /\ \A k : InQueue(c, k)' <=> In(rest, k)
      /\ \A d \in Conds : d # c => \A k : InQueue(d, k)' <=> InQueue(d, k)
  BY DEF InQueue
<1>6. \A d \in Conds : Injective(Queue(d))'
  BY DEF PlacesOK, QueuesOK
<1>7. QueuesOK'
  BY <1>5, <1>6 DEF PlacesOK, QueuesOK
<1>8. EventsOK'
  <2>1. \A t \in Threads : Injective(events[t])'
    BY <1>3
  <2>2. \A k : In(ks, k) => task[k] # None
    BY <1>1 DEF PlacesOK, QueuesOK
  <2> QED BY <1>4, <2>1, <2>2 DEF PlacesOK, EventsOK
<1>9. WaysOK'
  <2> SUFFICES ASSUME NEW k \in Tasks, task[k] # None
               PROVE  /\ ~(InQueue(task[k].cond, k)' /\ InEvents(task[k].owner, k)')
                      /\ env[task[k].owner] = "alive"
                           => InQueue(task[k].cond, k)' \/ InEvents(task[k].owner, k)'
    BY DEF WaysOK
  <2>1. task[k].cond \in Conds /\ task[k].owner \in Threads
    BY TaskFields
  <2>2. /\ ~(InQueue(task[k].cond, k) /\ InEvents(task[k].owner, k))
        /\ env[task[k].owner] = "alive"
             => InQueue(task[k].cond, k) \/ InEvents(task[k].owner, k)
    BY DEF PlacesOK, WaysOK
  <2>3. In(ks, k) => task[k].cond = c
    BY DEF PlacesOK, QueuesOK
  <2>4. CASE task[k].cond = c
    BY <2>1, <2>2, <2>4, <1>4, <1>5
  <2>5. CASE task[k].cond # c
    BY <2>1, <2>2, <2>3, <2>5, <1>4, <1>5
  <2> QED BY <2>4, <2>5
<1> QED BY <1>3, <1>7, <1>8, <1>9 DEF PlacesOK

(* A handle of a condition is collected. *)
LEMMA HandleDropped ==
  ASSUME TypeOK, CountsOK, NEW h \in Handles, handle[h] # None, NEW ks, Drops(handle[h], ks),
         handle' = [handle EXCEPT ![h] = None], task' = task
  PROVE  CountsOK'
<1>0. PICK c \in Conds : c = handle[h]
  BY HandleIsCounted
<1> DEFINE A == HandlesOf(c)
           B == TasksOf(c)
<1>1. c \in Conds /\ h \in A /\ cond[c] # None /\ CountOK(c)
  BY <1>0, HandleIsCounted DEF CountsOK
<1>2. HandlesOf(c)' = A \ {h} /\ TasksOf(c)' = B
  BY <1>0, <1>1 DEF HandlesOf, TasksOf, TypeOK
<1>3. \A d \in Conds : d # c => HandlesOf(d)' = HandlesOf(d) /\ TasksOf(d)' = TasksOf(d)
  BY <1>0, ConditionConstants DEF HandlesOf, TasksOf, TypeOK
<1>4. /\ Count(c)' = Count(c) - 1
      /\ \A d \in Conds \ {c} : Count(d)' = Count(d)
  <2>1. Drops(c, ks)
    BY <1>0
  <2> QED BY <1>1, <2>1, DropsCount
<1>5. CountOK(c)'
  <2>1. /\ h \in A /\ IsFiniteSet(A) /\ IsFiniteSet(B) /\ Count(c) = Cardinality(A) + Cardinality(B)
        /\ Cardinality(A) \in Nat /\ Cardinality(B) \in Nat
    BY <1>1, FS_CardinalityType DEF CountOK
  <2> HIDE DEF A, B
  <2>0. h \in A /\ IsFiniteSet(A) /\ IsFiniteSet(B)
    BY <2>1
  <2>2. IsFiniteSet(A \ {h}) /\ Cardinality(A \ {h}) = Cardinality(A) - 1
    BY <2>0, FS_RemoveElement
  <2>3. Cardinality(A \ {h}) \in Nat
    BY <2>2, FS_CardinalityType
  <2>4. /\ IsFiniteSet(HandlesOf(c)') /\ IsFiniteSet(TasksOf(c)')
        /\ Count(c)' = Cardinality(HandlesOf(c)') + Cardinality(TasksOf(c)')
    BY <1>2, <1>4, <2>1, <2>2, <2>3
  <2> QED BY <2>4 DEF CountOK
<1>6. \A d \in Conds : d # c => CountOK(d)'
  BY <1>3, <1>4 DEF CountsOK, CountOK
<1>7. ASSUME NEW d \in Conds PROVE CountOK(d)'
  BY <1>5, <1>6
<1> QED BY <1>7 DEF CountsOK

(* A task of a condition is finished. *)
LEMMA TaskDropped ==
  ASSUME TypeOK, CountsOK, NEW k \in Tasks, task[k] # None, NEW ks, Drops(task[k].cond, ks),
         task' = [task EXCEPT ![k] = None], handle' = handle
  PROVE  CountsOK'
<1>0. PICK c \in Conds : c = task[k].cond
  BY TaskIsCounted
<1> DEFINE A == TasksOf(c)
           B == HandlesOf(c)
<1>1. c \in Conds /\ k \in A /\ cond[c] # None /\ CountOK(c)
  BY <1>0, TaskIsCounted DEF CountsOK
<1>2. TasksOf(c)' = A \ {k} /\ HandlesOf(c)' = B
  BY <1>0, <1>1 DEF HandlesOf, TasksOf, TypeOK
<1>3. \A d \in Conds : d # c => HandlesOf(d)' = HandlesOf(d) /\ TasksOf(d)' = TasksOf(d)
  BY <1>0 DEF HandlesOf, TasksOf, TypeOK
<1>4. /\ Count(c)' = Count(c) - 1
      /\ \A d \in Conds \ {c} : Count(d)' = Count(d)
  <2>1. Drops(c, ks)
    BY <1>0
  <2> QED BY <1>1, <2>1, DropsCount
<1>5. CountOK(c)'
  <2>1. /\ k \in A /\ IsFiniteSet(A) /\ IsFiniteSet(B) /\ Count(c) = Cardinality(B) + Cardinality(A)
        /\ Cardinality(A) \in Nat /\ Cardinality(B) \in Nat
    BY <1>1, FS_CardinalityType DEF CountOK
  <2> HIDE DEF A, B
  <2>0. k \in A /\ IsFiniteSet(A) /\ IsFiniteSet(B)
    BY <2>1
  <2>2. IsFiniteSet(A \ {k}) /\ Cardinality(A \ {k}) = Cardinality(A) - 1
    BY <2>0, FS_RemoveElement
  <2>3. Cardinality(A \ {k}) \in Nat
    BY <2>2, FS_CardinalityType
  <2>4. /\ IsFiniteSet(HandlesOf(c)') /\ IsFiniteSet(TasksOf(c)')
        /\ Count(c)' = Cardinality(HandlesOf(c)') + Cardinality(TasksOf(c)')
    BY <1>2, <1>4, <2>1, <2>2, <2>3
  <2> QED BY <2>4 DEF CountOK
<1>6. \A d \in Conds : d # c => CountOK(d)'
  BY <1>3, <1>4 DEF CountsOK, CountOK
<1>7. ASSUME NEW d \in Conds PROVE CountOK(d)'
  BY <1>5, <1>6
<1> QED BY <1>7 DEF CountsOK

(* A condition gets a handle: a new one its first. *)
LEMMA HandleAdded ==
  ASSUME TypeOK, CountsOK, NEW h \in Handles, handle[h] = None, NEW c \in Conds,
         handle' = [handle EXCEPT ![h] = c], task' = task,
         Count(c)' = Count(c) + 1, \A d \in Conds : d # c => Count(d)' = Count(d)
  PROVE  CountsOK'
<1> DEFINE A == HandlesOf(c)
           B == TasksOf(c)
<1>1. CountOK(c) /\ h \notin A
  BY ConditionConstants DEF CountsOK, HandlesOf
<1>2. HandlesOf(c)' = A \cup {h} /\ TasksOf(c)' = B
  BY DEF HandlesOf, TasksOf, TypeOK
<1>3. \A d \in Conds : d # c => HandlesOf(d)' = HandlesOf(d) /\ TasksOf(d)' = TasksOf(d)
  BY ConditionConstants DEF HandlesOf, TasksOf, TypeOK
<1>5. CountOK(c)'
  <2>1. IsFiniteSet(A) /\ IsFiniteSet(B) /\ Count(c) = Cardinality(A) + Cardinality(B)
    BY <1>1 DEF CountOK
  <2> HIDE DEF A, B
  <2>2. /\ IsFiniteSet(A \cup {h})
        /\ Cardinality(A \cup {h}) + Cardinality(B) = Cardinality(A) + Cardinality(B) + 1
    BY <1>1, <2>1, OneMore
  <2>3. /\ IsFiniteSet(HandlesOf(c)') /\ IsFiniteSet(TasksOf(c)')
        /\ Count(c)' = Cardinality(HandlesOf(c)') + Cardinality(TasksOf(c)')
    BY <1>2, <2>1, <2>2
  <2> QED BY <2>3 DEF CountOK
<1>6. \A d \in Conds : d # c => CountOK(d)'
  BY <1>3 DEF CountsOK, CountOK
<1>7. ASSUME NEW d \in Conds PROVE CountOK(d)'
  BY <1>5, <1>6
<1> QED BY <1>7 DEF CountsOK

(* A condition gets a task. *)
LEMMA TaskAdded ==
  ASSUME TypeOK, CountsOK, NEW k \in Tasks, task[k] = None, NEW c \in Conds,
         task' = [task EXCEPT ![k] = task'[k]], task'[k] # None, task'[k].cond = c, handle' = handle,
         Count(c)' = Count(c) + 1, \A d \in Conds : d # c => Count(d)' = Count(d)
  PROVE  CountsOK'
<1> DEFINE A == TasksOf(c)
           B == HandlesOf(c)
<1>0. \A j \in Tasks : j # k => task'[j] = task[j]
  BY DEF TypeOK
<1>1. CountOK(c) /\ k \notin A
  BY DEF CountsOK, TasksOf
<1>2. TasksOf(c)' = A \cup {k} /\ HandlesOf(c)' = B
  BY <1>0 DEF HandlesOf, TasksOf, TypeOK
<1>3. \A d \in Conds : d # c => HandlesOf(d)' = HandlesOf(d) /\ TasksOf(d)' = TasksOf(d)
  <2> SUFFICES ASSUME NEW d \in Conds, d # c, NEW j \in Tasks
               PROVE  j \in TasksOf(d)' <=> j \in TasksOf(d)
    BY DEF HandlesOf, TasksOf
  <2>1. CASE j = k
    BY <2>1 DEF TasksOf
  <2>2. CASE j # k
    BY <2>2, <1>0 DEF TasksOf
  <2> QED BY <2>1, <2>2
<1>5. CountOK(c)'
  <2>1. /\ IsFiniteSet(A) /\ IsFiniteSet(B) /\ Count(c) = Cardinality(B) + Cardinality(A)
        /\ Cardinality(A) \in Nat /\ Cardinality(B) \in Nat
    BY <1>1, FS_CardinalityType DEF CountOK
  <2> HIDE DEF A, B
  <2>2. /\ IsFiniteSet(A \cup {k})
        /\ Cardinality(A \cup {k}) + Cardinality(B) = Cardinality(A) + Cardinality(B) + 1
    BY <1>1, <2>1, OneMore
  <2>3. Cardinality(A \cup {k}) \in Nat
    BY <2>2, FS_CardinalityType
  <2>4. /\ IsFiniteSet(HandlesOf(c)') /\ IsFiniteSet(TasksOf(c)')
        /\ Count(c)' = Cardinality(HandlesOf(c)') + Cardinality(TasksOf(c)')
    BY <1>2, <2>1, <2>2, <2>3
  <2> QED BY <2>4 DEF CountOK
<1>6. \A d \in Conds : d # c => CountOK(d)'
  BY <1>3 DEF CountsOK, CountOK
<1>7. ASSUME NEW d \in Conds PROVE CountOK(d)'
  BY <1>5, <1>6
<1> QED BY <1>7 DEF CountsOK

----------------------------------------------------------------------------
(* Each action keeps the invariant. *)

(* TryRemoveCondition, second critical section. *)
LEMMA EraseNameKeepsIInv ==
  ASSUME IInv, NEW t \in Threads, EraseName(t)
  PROVE  IInv'
<1> USE DEF IInv
<1>1. PICK c \in Conds : c = removing[t].cond
  BY DEF EraseName, TypeOK
<1>0. PICK n : n = cond[c].name
  OBVIOUS
<1> DEFINE deleted == /\ cond[c] # None /\ cond[c].refCount = 0 /\ n \in Names
                      /\ condMap' = [condMap EXCEPT ![n] = None]
                      /\ cond' = [cond EXCEPT ![c] = None]
<1>2. /\ removing' = [removing EXCEPT ![t] = None]
      /\ UNCHANGED <<env, handle, task, promise, events>>
      /\ condMap' \in [Names -> Conds \cup {None}]
  BY DEF EraseName, TypeOK
<1>3. \/ deleted
      \/ /\ condMap' \in {condMap, [condMap EXCEPT ![removing[t].name] = None]}
         /\ UNCHANGED cond
  BY <1>0, <1>1 DEF EraseName
<1>4. ASSUME deleted
      PROVE  Count(c) = 0 /\ Queue(c) = <<>>
  <2>1. Count(c) = 0
    BY <1>4 DEF Count
  <2>2. TasksOf(c) = {}
    BY <1>1, <2>1, CountZero DEF CountsOK
  <2> QED BY <1>1, <2>1, <2>2, NoTasksNoQueue DEF PlacesOK
<1>5. /\ \A d \in Conds : Count(d)' = Count(d) /\ Queue(d)' = Queue(d)
      /\ \A d \in Conds : cond'[d] # cond[d] => d = c /\ deleted
      /\ cond' \in [Conds -> CondRecord \cup {None}]
  <2>1. CASE deleted
    <3>1. Count(c)' = 0 /\ Queue(c)' = <<>> /\ cond' \in [Conds -> CondRecord \cup {None}]
      BY <2>1, <1>1 DEF Count, Queue, TypeOK
    <3>2. \A d \in Conds : d # c => cond'[d] = cond[d]
      BY <2>1 DEF TypeOK
    <3> HIDE DEF deleted
    <3> QED BY <2>1, <3>1, <3>2, <1>4 DEF Count, Queue
  <2>2. CASE UNCHANGED cond
    BY <2>2 DEF Count, Queue, TypeOK
  <2> QED BY <1>3, <2>1, <2>2
<1>6. TypeOK'
  BY <1>2, <1>5 DEF TypeOK
<1>7. CountsOK'
  <2>1. \A d \in Conds : CountOK(d) /\ TasksOf(d)' = TasksOf(d)
    BY <1>2 DEF CountsOK, TasksOf
  <2>2. \A d \in Conds : CountOK(d)'
    BY <1>2, <1>5, <2>1, CountsKept
  <2> QED BY <2>2 DEF CountsOK
<1>8. MapOK'
  <2> SUFFICES ASSUME NEW m \in Names, condMap'[m] # None
               PROVE  cond'[condMap'[m]] # None /\ cond'[condMap'[m]].name = m
    BY DEF MapOK
  <2>1. condMap'[m] = condMap[m] /\ (deleted => m # n)
    BY <1>3 DEF TypeOK
  <2>2. condMap[m] \in Conds /\ cond[condMap[m]] # None /\ cond[condMap[m]].name = m
    BY <2>1 DEF MapOK, TypeOK
  <2>3. ~(condMap[m] = c /\ deleted)
    BY <2>1, <2>2, <1>0
  <2> HIDE DEF deleted
  <2> QED BY <2>1, <2>2, <2>3, <1>5
<1>9. PlacesOK'
  <2>1. SameTasks
    BY <1>2 DEF SameTasks
  <2> QED BY <1>2, <1>5, <2>1, PlacesKept
<1>10. FinishedOnce'
  BY <1>2 DEF FinishedOnce
<1> QED BY <1>6, <1>7, <1>8, <1>9, <1>10

(* FindOrCreateCondition. *)
LEMMA RequestKeepsIInv ==
  ASSUME IInv, NEW t \in Threads, NEW h \in Handles, NEW n \in Names, NEW c \in Conds,
         Request(t, h, n, c)
  PROVE  IInv'
<1> USE DEF IInv
<1> DEFINE new == [name |-> n, refCount |-> 1, tasks |-> <<>>]
           old == [cond[c] EXCEPT !.refCount = @ + 1]
<1>1. /\ handle[h] = None /\ handle' = [handle EXCEPT ![h] = c]
      /\ UNCHANGED <<env, task, promise, events, removing>>
  BY DEF Request
<1>2. new \in CondRecord /\ new.refCount = 1 /\ new.name = n /\ new.tasks = <<>> /\ new # None
  BY NewCondition, CondFields
<1>3. ASSUME cond[c] # None
      PROVE  /\ old \in CondRecord /\ old # None /\ old.refCount = cond[c].refCount + 1
             /\ old.name = cond[c].name /\ old.tasks = cond[c].tasks
  <2>1. cond[c] \in CondRecord
    BY <1>3 DEF TypeOK
  <2>2. cond[c].refCount + 1 \in Nat
    BY <2>1, CondFields
  <2> QED BY <2>1, <2>2, NewCount, CondFields
<1>4. \/ /\ condMap[n] = None /\ cond[c] = None /\ cond' = [cond EXCEPT ![c] = new]
         /\ condMap' = [condMap EXCEPT ![n] = c]
      \/ /\ condMap[n] = c /\ cond[c] # None /\ cond' = [cond EXCEPT ![c] = old]
         /\ condMap' = condMap
  BY ConditionConstants DEF Request, MapOK
<1> HIDE DEF new, old
<1>5. /\ cond' \in [Conds -> CondRecord \cup {None}] /\ condMap' \in [Names -> Conds \cup {None}]
      /\ \A d \in Conds : d # c => cond'[d] = cond[d]
      /\ cond'[c] # None
      /\ cond[c] = None => cond'[c].refCount = 1 /\ cond'[c].name = n /\ cond'[c].tasks = <<>>
      /\ cond[c] # None => /\ cond'[c].refCount = cond[c].refCount + 1
                           /\ cond'[c].name = cond[c].name /\ cond'[c].tasks = cond[c].tasks
  <2>1. cond \in [Conds -> CondRecord \cup {None}] /\ condMap \in [Names -> Conds \cup {None}]
    BY DEF TypeOK
  <2>2. CASE cond[c] = None
    BY <2>1, <2>2, <1>2, <1>4
  <2>3. CASE cond[c] # None
    BY <2>1, <2>3, <1>3, <1>4
  <2> QED BY <2>2, <2>3
<1>6. TypeOK'
  BY <1>1, <1>5 DEF TypeOK
<1>7. /\ \A d \in Conds : Queue(d)' = Queue(d)
      /\ Count(c)' = Count(c) + 1 /\ \A d \in Conds : d # c => Count(d)' = Count(d)
  BY <1>5 DEF Queue, Count
<1>8. CountsOK'
  BY <1>1, <1>7, HandleAdded
<1>9. MapOK'
  <2> SUFFICES ASSUME NEW m \in Names, condMap'[m] # None
               PROVE  cond'[condMap'[m]] # None /\ cond'[condMap'[m]].name = m
    BY DEF MapOK
  <2>1. CASE condMap'[m] = condMap[m]
    <3>1. condMap[m] \in Conds /\ cond[condMap[m]] # None /\ cond[condMap[m]].name = m
      BY <2>1 DEF MapOK, TypeOK
    <3> QED BY <2>1, <3>1, <1>5
  <2>2. CASE condMap'[m] # condMap[m]
    <3>1. m = n /\ condMap'[m] = c /\ cond[c] = None
      BY <2>2, <1>4 DEF TypeOK
    <3> QED BY <3>1, <1>5
  <2> QED BY <2>1, <2>2
<1>10. PlacesOK'
  <2>1. SameTasks
    BY <1>1 DEF SameTasks
  <2> QED BY <1>1, <1>7, <2>1, PlacesKept
<1>11. FinishedOnce'
  BY <1>1 DEF FinishedOnce
<1> QED BY <1>6, <1>8, <1>9, <1>10, <1>11

(* Constructor without a name. *)
LEMMA ConstructAnonymousKeepsIInv ==
  ASSUME IInv, NEW t \in Threads, NEW h \in Handles, NEW c \in Conds, ConstructAnonymous(t, h, c)
  PROVE  IInv'
<1> USE DEF IInv
<1> DEFINE new == [name |-> Anonymous, refCount |-> 1, tasks |-> <<>>]
<1>1. /\ handle[h] = None /\ handle' = [handle EXCEPT ![h] = c]
      /\ cond[c] = None /\ cond' = [cond EXCEPT ![c] = new]
      /\ UNCHANGED <<env, condMap, task, promise, events, removing>>
  BY DEF ConstructAnonymous
<1>2. new \in CondRecord /\ new.refCount = 1 /\ new.name = Anonymous /\ new.tasks = <<>> /\ new # None
  BY NewCondition, CondFields
<1> HIDE DEF new
<1>3. /\ cond' \in [Conds -> CondRecord \cup {None}]
      /\ \A d \in Conds : d # c => cond'[d] = cond[d]
      /\ cond'[c] # None /\ cond'[c].refCount = 1 /\ cond'[c].tasks = <<>>
  BY <1>1, <1>2 DEF TypeOK
<1>4. TypeOK'
  BY <1>1, <1>3 DEF TypeOK
<1>5. /\ \A d \in Conds : Queue(d)' = Queue(d)
      /\ Count(c)' = Count(c) + 1 /\ \A d \in Conds : d # c => Count(d)' = Count(d)
  BY <1>1, <1>3 DEF Queue, Count
<1>6. CountsOK'
  BY <1>1, <1>5, HandleAdded
<1>7. MapOK'
  <2> SUFFICES ASSUME NEW m \in Names, condMap[m] # None
               PROVE  cond'[condMap[m]] # None /\ cond'[condMap[m]].name = m
    BY <1>1 DEF MapOK
  <2>1. condMap[m] \in Conds /\ cond[condMap[m]] # None /\ cond[condMap[m]].name = m
    BY DEF MapOK, TypeOK
  <2> QED BY <2>1, <1>1, <1>3
<1>8. PlacesOK'
  <2>1. SameTasks
    BY <1>1 DEF SameTasks
  <2> QED BY <1>1, <1>5, <2>1, PlacesKept
<1>9. FinishedOnce'
  BY <1>1 DEF FinishedOnce
<1> QED BY <1>4, <1>6, <1>7, <1>8, <1>9

(* A handle is collected. *)
LEMMA DestructorKeepsIInv ==
  ASSUME IInv, NEW t \in Threads, NEW h \in Handles, Destructor(t, h)
  PROVE  IInv'
<1> USE DEF IInv
<1>1. /\ handle[h] # None /\ handle' = [handle EXCEPT ![h] = None]
      /\ UNCHANGED <<env, condMap, task, promise, events>>
  BY DEF Destructor
<1>2. PICK c \in Conds : c = handle[h]
  BY <1>1, HandleIsCounted
<1>3. /\ cond[c] \in CondRecord /\ cond[c] # None /\ cond[c].refCount \in Nat \ {0}
      /\ cond[c].refCount = 1 => TasksOf(c) = {}
  BY <1>1, <1>2, HandleIsCounted
<1>4. TryRemoveCondition(t, c, cond[c])
  BY <1>2 DEF Destructor
<1>5. /\ Drops(c, cond[c].tasks)
      /\ cond' \in [Conds -> CondRecord \cup {None}]
      /\ removing' \in [Threads -> [cond : Conds, name : Names] \cup {None}]
  BY <1>3, <1>4, TryRemoveDrops
<1>6. TypeOK'
  BY <1>1, <1>5 DEF TypeOK
<1>7. CountsOK'
  BY <1>1, <1>2, <1>5, HandleDropped
<1>8. MapOK'
  BY <1>1, <1>5, DropsMap
<1>9. PlacesOK'
  <2>1. SameTasks
    BY <1>1 DEF SameTasks
  <2>2. /\ \A d \in Conds \ {c} : Queue(d)' = Queue(d)
        /\ cond'[c] # None => Queue(c)' = cond[c].tasks
        /\ cond'[c] = None => cond[c].refCount = 1 /\ Queue(c)' = <<>>
    BY <1>3, <1>5, DropsCount
  <2>3. cond[c].refCount = 1 => Queue(c) = <<>>
    BY <1>3, NoTasksNoQueue DEF PlacesOK
  <2>4. Queue(c)' = Queue(c)
    BY <2>2, <2>3, <1>3 DEF Queue
  <2>5. \A d \in Conds : Queue(d)' = Queue(d)
    BY <2>2, <2>4
  <2> QED BY <1>1, <2>1, <2>5, PlacesKept
<1>10. FinishedOnce'
  BY <1>1 DEF FinishedOnce
<1> QED BY <1>6, <1>7, <1>8, <1>9, <1>10

(* Wait and WaitFor. *)
LEMMA WaitKeepsIInv ==
  ASSUME IInv, NEW t \in Threads, NEW h \in Handles, NEW k \in Tasks, NEW timer \in BOOLEAN,
         Wait(t, h, k, timer)
  PROVE  IInv'
<1> USE DEF IInv
<1>1. handle[h] # None /\ task[k] = None /\ UNCHANGED <<env, condMap, handle, events, removing>>
      /\ promise' = [promise EXCEPT ![k] = "open"]
  BY DEF Wait
<1>2. PICK c \in Conds : c = handle[h]
  BY <1>1, HandleIsCounted
<1>3. cond[c] \in CondRecord /\ cond[c] # None
  BY <1>1, <1>2, HandleIsCounted
<1>4. PICK new : new = [cond |-> c, owner |-> t, timer |-> timer, hook |-> TRUE]
  OBVIOUS
<1>5. /\ task' = [task EXCEPT ![k] = new]
      /\ cond' = [cond EXCEPT ![c].tasks = Append(@, k), ![c].refCount = @ + 1]
  BY <1>2, <1>4 DEF Wait
<1>6. new \in TaskRecord /\ new # None /\ new.cond = c /\ new.owner = t
  <2>1. new \in TaskRecord
    BY <1>4, Zenon DEF TaskRecord
  <2>2. new.cond = c /\ new.owner = t
    BY <1>4
  <2> QED BY <2>1, <2>2, NoneIsNoObject
<1>7. ~InQueue(c, k) /\ \A s \in Threads : ~InEvents(s, k)
  BY <1>1 DEF PlacesOK, QueuesOK, EventsOK
<1>8. /\ Append(cond[c].tasks, k) \in Seq(Tasks) /\ Injective(Append(cond[c].tasks, k))
      /\ \A x : In(Append(cond[c].tasks, k), x) <=> InQueue(c, x) \/ x = k
  <2>1. Queue(c) = cond[c].tasks
    BY <1>3 DEF Queue
  <2>2. cond[c].tasks \in Seq(Tasks) /\ Injective(cond[c].tasks) /\ ~In(cond[c].tasks, k)
    BY <1>3, <1>7, <2>1, CondFields DEF PlacesOK, QueuesOK, InQueue
  <2>3. /\ Append(cond[c].tasks, k) \in Seq(Tasks) /\ Injective(Append(cond[c].tasks, k))
        /\ \A x : In(Append(cond[c].tasks, k), x) <=> In(cond[c].tasks, x) \/ x = k
    BY <2>2, AppendedIs
  <2> QED BY <2>1, <2>3 DEF InQueue
<1>9. /\ cond' \in [Conds -> CondRecord \cup {None}]
      /\ \A d \in Conds : d # c => cond'[d] = cond[d]
      /\ cond'[c] # None /\ cond'[c].refCount = cond[c].refCount + 1
      /\ cond'[c].name = cond[c].name /\ cond'[c].tasks = Append(cond[c].tasks, k)
  <2> DEFINE q == [cond[c] EXCEPT !.tasks = Append(cond[c].tasks, k)]
             p == [q EXCEPT !.refCount = cond[c].refCount + 1]
  <2>1. /\ q \in CondRecord /\ q.refCount = cond[c].refCount
        /\ q.name = cond[c].name /\ q.tasks = Append(cond[c].tasks, k)
    BY <1>3, <1>8, NewTasks
  <2>2. cond[c].refCount + 1 \in Nat
    BY <1>3, CondFields
  <2>3. cond' = [cond EXCEPT ![c] = p]
    BY <1>3, <1>5 DEF TypeOK, CondRecord
  <2> HIDE DEF q
  <2>4. p \in CondRecord /\ p # None /\ p.refCount = cond[c].refCount + 1 /\ p.name = q.name /\ p.tasks = q.tasks
    BY <2>1, <2>2, NewCount, CondFields
  <2> HIDE DEF p
  <2> QED BY <2>1, <2>3, <2>4 DEF TypeOK
<1>10. task' \in [Tasks -> TaskRecord \cup {None}] /\ task'[k] = new
       /\ \A j \in Tasks : j # k => task'[j] = task[j]
  BY <1>5, <1>6 DEF TypeOK
<1>11. TypeOK'
  BY <1>1, <1>9, <1>10 DEF TypeOK
<1>12. CountsOK'
  <2>1. Count(c)' = Count(c) + 1 /\ \A d \in Conds : d # c => Count(d)' = Count(d)
    BY <1>3, <1>9 DEF Count
  <2> QED BY <1>1, <1>5, <1>6, <1>10, <2>1, TaskAdded
<1>13. MapOK'
  <2> SUFFICES ASSUME NEW m \in Names, condMap[m] # None
               PROVE  cond'[condMap[m]] # None /\ cond'[condMap[m]].name = m
    BY <1>1 DEF MapOK
  <2>1. condMap[m] \in Conds /\ cond[condMap[m]] # None /\ cond[condMap[m]].name = m
    BY DEF MapOK, TypeOK
  <2> QED BY <2>1, <1>9
<1>14. PlacesOK'
  <2>1. /\ \A d \in Conds : d # c => Queue(d)' = Queue(d)
        /\ Queue(c)' = Append(cond[c].tasks, k)
    BY <1>9 DEF Queue
  <2>2. /\ \A d \in Conds : Injective(Queue(d))'
        /\ \A d \in Conds : \A j : InQueue(d, j)' <=> InQueue(d, j) \/ (d = c /\ j = k)
    BY <2>1, <1>8 DEF InQueue, PlacesOK, QueuesOK
  <2>3. \A s \in Threads : Injective(events[s])' /\ \A j : InEvents(s, j)' <=> InEvents(s, j)
    BY <1>1 DEF InEvents, PlacesOK, EventsOK
  <2>4. \A j \in Tasks : task[j] # None => task[j].cond \in Conds /\ task[j].owner \in Threads
    BY TaskFields
  <2>5. QueuesOK'
    <3>1. ASSUME NEW d \in Conds, NEW j \in Tasks, InQueue(d, j)'
          PROVE  task'[j] # None /\ task'[j].cond = d
      <4>1. CASE j = k
        <5>1. ~InQueue(d, j) \/ d = c
          BY <1>1, <4>1 DEF PlacesOK, QueuesOK
        <5>2. d = c
          BY <2>2, <3>1, <5>1
        <5> QED BY <4>1, <5>2, <1>6, <1>10
      <4>2. CASE j # k
        BY <2>2, <3>1, <4>2, <1>10 DEF PlacesOK, QueuesOK
      <4> QED BY <4>1, <4>2
    <3> QED BY <2>2, <3>1 DEF QueuesOK
  <2>6. EventsOK'
    BY <1>7, <1>10, <2>3 DEF PlacesOK, EventsOK
  <2>7. WaysOK'
    BY <1>1, <1>6, <1>7, <1>10, <2>2, <2>3, <2>4 DEF PlacesOK, WaysOK
  <2> QED BY <2>5, <2>6, <2>7 DEF PlacesOK
<1>15. FinishedOnce'
  <2>1. \A j \in Tasks : promise'[j] = IF j = k THEN "open" ELSE promise[j]
    BY <1>1 DEF TypeOK
  <2> QED BY <1>6, <1>10, <2>1 DEF FinishedOnce
<1> QED BY <1>11, <1>12, <1>13, <1>14, <1>15

(* The queue of c is cut to rest, those of ks are notified. *)
LEMMA NotifiedKeepsIInv ==
  ASSUME IInv, NEW c \in Conds, cond[c] \in CondRecord, cond[c] # None,
         NEW ks \in Seq(Tasks), NEW rest \in Seq(Tasks), Injective(ks), Injective(rest),
         \A k : In(cond[c].tasks, k) <=> In(ks, k) \/ In(rest, k),
         \A k : ~(In(ks, k) /\ In(rest, k)),
         cond' = [cond EXCEPT ![c].tasks = rest], events' = Posted(ks),
         UNCHANGED <<env, condMap, handle, task, promise, removing>>
  PROVE  IInv'
<1> USE DEF IInv
<1> DEFINE q == [cond[c] EXCEPT !.tasks = rest]
<1>1. q \in CondRecord /\ q.refCount = cond[c].refCount /\ q.name = cond[c].name /\ q.tasks = rest /\ q # None
  <2>1. q \in CondRecord /\ q.refCount = cond[c].refCount /\ q.name = cond[c].name /\ q.tasks = rest
    BY NewTasks
  <2> QED BY <2>1, CondFields
<1>2. cond' = [cond EXCEPT ![c] = q]
  OBVIOUS
<1> HIDE DEF q
<1>3. /\ cond' \in [Conds -> CondRecord \cup {None}]
      /\ \A d \in Conds : d # c => cond'[d] = cond[d]
      /\ cond'[c] # None /\ cond'[c].refCount = cond[c].refCount
      /\ cond'[c].name = cond[c].name /\ cond'[c].tasks = rest
  BY <1>1, <1>2 DEF TypeOK
<1>4. /\ Queue(c) = cond[c].tasks /\ Queue(c)' = rest
      /\ \A d \in Conds : d # c => Queue(d)' = Queue(d)
      /\ \A d \in Conds : Count(d)' = Count(d)
  BY <1>3 DEF Queue, Count
<1>5. PlacesOK' /\ events' \in [Threads -> Seq(Tasks)]
  <2>1. \A k : InQueue(c, k) <=> In(ks, k) \/ In(rest, k)
    BY <1>4 DEF InQueue
  <2> QED BY <2>1, <1>4, PlacesNotified
<1>6. TypeOK'
  BY <1>3, <1>5 DEF TypeOK
<1>7. CountsOK'
  <2>1. \A d \in Conds : CountOK(d) /\ TasksOf(d)' = TasksOf(d)
    BY DEF CountsOK, TasksOf
  <2>2. \A d \in Conds : CountOK(d)'
    BY <1>4, <2>1, CountsKept
  <2> QED BY <2>2 DEF CountsOK
<1>8. MapOK'
  <2> SUFFICES ASSUME NEW m \in Names, condMap[m] # None
               PROVE  cond'[condMap[m]] # None /\ cond'[condMap[m]].name = m
    BY DEF MapOK
  <2>1. condMap[m] \in Conds /\ cond[condMap[m]] # None /\ cond[condMap[m]].name = m
    BY DEF MapOK, TypeOK
  <2> QED BY <2>1, <1>3
<1>9. FinishedOnce'
  BY DEF FinishedOnce
<1> QED BY <1>5, <1>6, <1>7, <1>8, <1>9

(* The oldest task is notified. *)
LEMMA NotifyOneKeepsIInv ==
  ASSUME IInv, NEW t \in Threads, NEW h \in Handles, NotifyOne(t, h)
  PROVE  IInv'
<1> USE DEF IInv
<1>1. handle[h] # None /\ UNCHANGED <<env, condMap, handle, task, promise, removing>>
  BY DEF NotifyOne
<1>2. PICK c \in Conds : c = handle[h]
  BY <1>1, HandleIsCounted
<1>3. cond[c] \in CondRecord /\ cond[c] # None
  BY <1>1, <1>2, HandleIsCounted
<1>4. PICK s : s = cond[c].tasks
  OBVIOUS
<1>5. /\ s # <<>> /\ cond' = [cond EXCEPT ![c].tasks = Tail(s)] /\ events' = Posted(<<Head(s)>>)
  BY <1>2, <1>4 DEF NotifyOne
<1>6. s \in Seq(Tasks) /\ Injective(s)
  <2>1. Queue(c) = s
    BY <1>3, <1>4 DEF Queue
  <2> QED BY <1>3, <1>4, <2>1, CondFields DEF PlacesOK, QueuesOK
<1>7. /\ Tail(s) \in Seq(Tasks) /\ Injective(Tail(s)) /\ Head(s) \in Tasks /\ In(s, Head(s))
      /\ \A x : In(Tail(s), x) <=> In(s, x) /\ x # Head(s)
  BY <1>5, <1>6, TailIs
<1>8. /\ <<Head(s)>> \in Seq(Tasks) /\ Injective(<<Head(s)>>)
      /\ \A x : In(<<Head(s)>>, x) <=> x = Head(s)
  BY <1>7, SingleIs
<1>9. PICK ks, rest : ks = <<Head(s)>> /\ rest = Tail(s)
  OBVIOUS
<1>10. /\ ks \in Seq(Tasks) /\ rest \in Seq(Tasks) /\ Injective(ks) /\ Injective(rest)
       /\ \A k : In(cond[c].tasks, k) <=> In(ks, k) \/ In(rest, k)
       /\ \A k : ~(In(ks, k) /\ In(rest, k))
  BY <1>4, <1>7, <1>8, <1>9
<1>11. cond' = [cond EXCEPT ![c].tasks = rest] /\ events' = Posted(ks)
  BY <1>5, <1>9
<1> QED BY <1>1, <1>3, <1>10, <1>11, NotifiedKeepsIInv

(* All tasks are notified. *)
LEMMA NotifyAllKeepsIInv ==
  ASSUME IInv, NEW t \in Threads, NEW h \in Handles, NotifyAll(t, h)
  PROVE  IInv'
<1> USE DEF IInv
<1>1. handle[h] # None /\ UNCHANGED <<env, condMap, handle, task, promise, removing>>
  BY DEF NotifyAll
<1>2. PICK c \in Conds : c = handle[h]
  BY <1>1, HandleIsCounted
<1>3. cond[c] \in CondRecord /\ cond[c] # None
  BY <1>1, <1>2, HandleIsCounted
<1>4. PICK ks, rest : ks = cond[c].tasks /\ rest = <<>>
  OBVIOUS
<1>5. cond' = [cond EXCEPT ![c].tasks = rest] /\ events' = Posted(ks)
  BY <1>2, <1>4 DEF NotifyAll
<1>6. ks \in Seq(Tasks) /\ Injective(ks)
  <2>1. Queue(c) = ks
    BY <1>3, <1>4 DEF Queue
  <2> QED BY <1>3, <1>4, <2>1, CondFields DEF PlacesOK, QueuesOK
<1>7. /\ rest \in Seq(Tasks) /\ Injective(rest)
      /\ \A k : In(cond[c].tasks, k) <=> In(ks, k) \/ In(rest, k)
      /\ \A k : ~(In(ks, k) /\ In(rest, k))
  BY <1>4, EmptyIs, EmptySeq
<1> QED BY <1>1, <1>3, <1>5, <1>6, <1>7, NotifiedKeepsIInv

(* A task that is nowhere any more is finished. *)
LEMMA FinishedKeepsIInv ==
  ASSUME IInv, NEW t \in Threads, NEW k \in Tasks, task[k] # None,
         NEW q \in CondRecord, q.refCount = cond[task[k].cond].refCount,
         q.name = cond[task[k].cond].name,
         Injective(q.tasks), \A x : In(q.tasks, x) <=> InQueue(task[k].cond, x) /\ x # k,
         TryRemoveCondition(t, task[k].cond, q),
         Settle(k), task' = [task EXCEPT ![k] = None], UNCHANGED <<env, condMap, handle>>,
         events' \in [Threads -> Seq(Tasks)],
         \A s \in Threads : Injective(events[s])' /\ \A j \in Tasks : InEvents(s, j)' <=> InEvents(s, j) /\ j # k
  PROVE  IInv'
<1> USE DEF IInv
<1>1. PICK c \in Conds : c = task[k].cond
  BY TaskIsCounted
<1>2. /\ cond[c] # None /\ cond[c].refCount \in Nat \ {0}
      /\ cond[c].refCount = 1 => TasksOf(c) = {k}
  BY <1>1, TaskIsCounted
<1>3. /\ q.refCount = cond[c].refCount /\ q.name = cond[c].name /\ q.refCount # 0
      /\ TryRemoveCondition(t, c, q)
  BY <1>1, <1>2
<1>4. /\ Drops(c, q.tasks)
      /\ cond' \in [Conds -> CondRecord \cup {None}]
      /\ removing' \in [Threads -> [cond : Conds, name : Names] \cup {None}]
  BY <1>3, TryRemoveDrops
<1>5. /\ \A j \in Tasks : j # k => task'[j] = task[j]
      /\ task'[k] = None /\ task' \in [Tasks -> TaskRecord \cup {None}]
  BY DEF TypeOK
<1>6. promise[k] = "open"
  BY DEF FinishedOnce
<1>7. promise' = [promise EXCEPT ![k] = "settled"]
  BY <1>6 DEF Settle
<1>8. TypeOK'
  BY <1>4, <1>5, <1>7 DEF TypeOK
<1>9. CountsOK'
  <2>1. Drops(task[k].cond, q.tasks) /\ handle' = handle
    BY <1>1, <1>4
  <2> QED BY <2>1, TaskDropped
<1>10. MapOK'
  BY <1>4, DropsMap
<1>11. PlacesOK'
  <2>1. /\ \A d \in Conds \ {c} : Queue(d)' = Queue(d)
        /\ cond'[c] # None => Queue(c)' = q.tasks
        /\ cond'[c] = None => cond[c].refCount = 1 /\ Queue(c)' = <<>>
    BY <1>2, <1>4, DropsCount
  <2>2. ASSUME NEW d \in Conds, d # c
        PROVE  Injective(Queue(d))' /\ \A j \in Tasks : InQueue(d, j)' <=> InQueue(d, j) /\ j # k
    <3>1. Queue(d)' = Queue(d) /\ ~InQueue(d, k)
      BY <2>1, <2>2, <1>1 DEF PlacesOK, QueuesOK
    <3> QED BY <3>1 DEF InQueue, PlacesOK, QueuesOK
  <2>3. CASE cond'[c] # None
    <3>1. Injective(Queue(c))' /\ \A j \in Tasks : InQueue(c, j)' <=> InQueue(c, j) /\ j # k
      <4>1. \A x : In(q.tasks, x) <=> InQueue(c, x) /\ x # k
        BY <1>1
      <4>2. Queue(c)' = q.tasks
        BY <2>1, <2>3
      <4> QED BY <4>1, <4>2 DEF InQueue
    <3>2. \A d \in Conds : Injective(Queue(d))' /\ \A j \in Tasks : InQueue(d, j)' <=> InQueue(d, j) /\ j # k
      BY <2>2, <3>1
    <3> QED BY <1>5, <3>2, PlacesFinished
  <2>4. CASE cond'[c] = None
    <3>1. Injective(Queue(c))' /\ \A j \in Tasks : ~InQueue(c, j)'
      BY <2>1, <2>4, EmptyIs DEF InQueue
    <3>2. \A j \in Tasks : InQueue(c, j) => j = k
      BY <1>2, <2>1, <2>4 DEF PlacesOK, QueuesOK, TasksOf
    <3>3. \A d \in Conds : Injective(Queue(d))' /\ \A j \in Tasks : InQueue(d, j)' <=> InQueue(d, j) /\ j # k
      BY <2>2, <3>1, <3>2
    <3> QED BY <1>5, <3>3, PlacesFinished
  <2> QED BY <2>3, <2>4
<1>12. FinishedOnce'
  <2>1. \A j \in Tasks : promise'[j] = IF j = k THEN "settled" ELSE promise[j]
    BY <1>7 DEF TypeOK
  <2> QED BY <2>1, <1>5 DEF FinishedOnce
<1> QED BY <1>8, <1>9, <1>10, <1>11, <1>12

(* A notification arrives. *)
LEMMA RunEventKeepsIInv ==
  ASSUME IInv, NEW t \in Threads, RunEvent(t)
  PROVE  IInv'
<1> USE DEF IInv
<1>1. PICK s : s = events[t]
  OBVIOUS
<1>2. s \in Seq(Tasks) /\ Injective(s) /\ s # <<>>
  BY <1>1 DEF TypeOK, PlacesOK, EventsOK, RunEvent
<1>3. PICK k : k = Head(s)
  OBVIOUS
<1>4. /\ Tail(s) \in Seq(Tasks) /\ Injective(Tail(s)) /\ k \in Tasks /\ In(s, k)
      /\ \A x : In(Tail(s), x) <=> In(s, x) /\ x # k
  BY <1>2, <1>3, TailIs
<1>5. InEvents(t, k) /\ task[k] # None /\ task[k].owner = t
  BY <1>1, <1>4 DEF InEvents, PlacesOK, EventsOK
<1>6. /\ Settle(k) /\ task' = [task EXCEPT ![k] = None]
      /\ TryRemoveCondition(t, task[k].cond, cond[task[k].cond])
      /\ events' = [events EXCEPT ![t] = Tail(s)]
      /\ UNCHANGED <<env, condMap, handle>>
  BY <1>1, <1>3 DEF RunEvent
<1>7. PICK c \in Conds : c = task[k].cond
  BY <1>4, <1>5, TaskIsCounted
<1>8. cond[c] \in CondRecord /\ cond[c] # None
  BY <1>4, <1>5, <1>7, TaskIsCounted
<1>9. PICK q \in CondRecord : q = cond[c]
  BY <1>8
<1>10. Injective(q.tasks) /\ \A x : In(q.tasks, x) <=> InQueue(c, x) /\ x # k
  <2>1. Queue(c) = q.tasks
    BY <1>8, <1>9 DEF Queue
  <2>2. ~InQueue(c, k)
    BY <1>4, <1>5, <1>7 DEF PlacesOK, WaysOK
  <2> QED BY <2>1, <2>2 DEF InQueue, PlacesOK, QueuesOK
<1>11. events' \in [Threads -> Seq(Tasks)]
  BY <1>4, <1>6 DEF TypeOK
<1>12. \A p \in Threads : Injective(events[p])' /\ \A j \in Tasks : InEvents(p, j)' <=> InEvents(p, j) /\ j # k
  <2> SUFFICES ASSUME NEW p \in Threads
               PROVE  Injective(events[p])' /\ \A j \in Tasks : InEvents(p, j)' <=> InEvents(p, j) /\ j # k
    OBVIOUS
  <2>1. CASE p = t
    <3>1. events'[p] = Tail(s) /\ events[p] = s
      BY <2>1, <1>1, <1>6 DEF TypeOK
    <3> QED BY <3>1, <1>4 DEF InEvents
  <2>2. CASE p # t
    <3>1. events'[p] = events[p] /\ ~InEvents(p, k)
      BY <2>2, <1>4, <1>5, <1>6 DEF TypeOK, PlacesOK, EventsOK
    <3> QED BY <3>1 DEF InEvents, PlacesOK, EventsOK
  <2> QED BY <2>1, <2>2
<1>13. /\ q.refCount = cond[task[k].cond].refCount /\ q.name = cond[task[k].cond].name
       /\ \A x : In(q.tasks, x) <=> InQueue(task[k].cond, x) /\ x # k
       /\ TryRemoveCondition(t, task[k].cond, q)
  BY <1>6, <1>7, <1>9, <1>10
<1> QED BY <1>4, <1>5, <1>6, <1>10, <1>11, <1>12, <1>13, FinishedKeepsIInv

(* A task that waits is found and finished. *)
LEMMA FindAndFinishTaskKeepsIInv ==
  ASSUME IInv, NEW k \in Tasks, task[k] # None, FindAndFinishTask(k),
         UNCHANGED <<env, condMap, handle, events>>
  PROVE  IInv'
<1> USE DEF IInv
<1>1. PICK c \in Conds : c = task[k].cond
  BY TaskIsCounted
<1>2. cond[c] \in CondRecord /\ cond[c] # None
  BY <1>1, TaskIsCounted
<1>3. PICK t \in Threads : t = task[k].owner
  BY TaskFields
<1>4. PICK s : s = cond[c].tasks
  OBVIOUS
<1>5. s \in Seq(Tasks) /\ Injective(s) /\ Queue(c) = s
  <2>1. Queue(c) = s
    BY <1>2, <1>4 DEF Queue
  <2> QED BY <1>2, <1>4, <2>1, CondFields DEF PlacesOK, QueuesOK
<1>6. In(s, k)
  BY <1>1, <1>4 DEF FindAndFinishTask, Queued, In
<1>7. /\ Without(k, s) \in Seq(Tasks) /\ Injective(Without(k, s))
      /\ \A x : In(Without(k, s), x) <=> In(s, x) /\ x # k
  BY <1>5, <1>6, ErasedIs
<1>8. PICK q : q = [cond[c] EXCEPT !.tasks = Without(k, s)]
  OBVIOUS
<1>9. /\ q \in CondRecord /\ q.refCount = cond[c].refCount
      /\ q.name = cond[c].name /\ q.tasks = Without(k, s)
  BY <1>2, <1>7, <1>8, NewTasks
<1>10. /\ Settle(k) /\ task' = [task EXCEPT ![k] = None]
       /\ TryRemoveCondition(t, c, q)
  BY <1>1, <1>3, <1>4, <1>8 DEF FindAndFinishTask
<1>11. Injective(q.tasks) /\ \A x : In(q.tasks, x) <=> InQueue(c, x) /\ x # k
  BY <1>5, <1>7, <1>9 DEF InQueue
<1>12. ~InEvents(t, k)
  BY <1>1, <1>3, <1>5, <1>6 DEF PlacesOK, WaysOK, InQueue
<1>13. events' \in [Threads -> Seq(Tasks)]
  BY DEF TypeOK
<1>14. \A p \in Threads : Injective(events[p])' /\ \A j \in Tasks : InEvents(p, j)' <=> InEvents(p, j) /\ j # k
  <2>1. \A p \in Threads : ~InEvents(p, k)
    BY <1>3, <1>12 DEF PlacesOK, EventsOK
  <2> QED BY <2>1 DEF InEvents, PlacesOK, EventsOK
<1>15. /\ q.refCount = cond[task[k].cond].refCount /\ q.name = cond[task[k].cond].name
       /\ \A x : In(q.tasks, x) <=> InQueue(task[k].cond, x) /\ x # k
       /\ TryRemoveCondition(t, task[k].cond, q)
  BY <1>1, <1>9, <1>10, <1>11
<1> QED BY <1>9, <1>10, <1>11, <1>13, <1>14, <1>15, FinishedKeepsIInv

(* A flag of a task is cleared. *)
LEMMA FlagKeepsIInv ==
  ASSUME IInv, SameTasks, task' \in [Tasks -> TaskRecord \cup {None}],
         UNCHANGED <<env, cond, condMap, handle, promise, events, removing>>
  PROVE  IInv'
<1> USE DEF IInv
<1>1. TypeOK'
  BY DEF TypeOK
<1>2. \A d \in Conds : Queue(d)' = Queue(d) /\ Count(d)' = Count(d)
  BY DEF Queue, Count
<1>3. CountsOK'
  <2>1. \A d \in Conds : CountOK(d) /\ TasksOf(d)' = TasksOf(d)
    BY DEF CountsOK, TasksOf, SameTasks
  <2>2. \A d \in Conds : CountOK(d)'
    BY <1>2, <2>1, CountsKept
  <2> QED BY <2>2 DEF CountsOK
<1>4. MapOK'
  BY DEF MapOK
<1>5. PlacesOK'
  BY <1>2, PlacesKept
<1>6. FinishedOnce'
  BY DEF FinishedOnce, SameTasks
<1> QED BY <1>1, <1>3, <1>4, <1>5, <1>6

(* The timer goes off. *)
LEMMA TimerCallbackKeepsIInv ==
  ASSUME IInv, NEW k \in Tasks, TimerCallback(k)
  PROVE  IInv'
<1>1. task[k] # None /\ UNCHANGED <<env, condMap, handle, events>>
  BY DEF TimerCallback
<1>2. CASE FindAndFinishTask(k)
  BY <1>1, <1>2, FindAndFinishTaskKeepsIInv
<1>3. CASE task' = [task EXCEPT ![k].timer = FALSE] /\ UNCHANGED <<cond, promise, removing>>
  <2> DEFINE new == [task[k] EXCEPT !.timer = FALSE]
  <2>1. task \in [Tasks -> TaskRecord \cup {None}] /\ task[k] \in TaskRecord
    BY <1>1 DEF IInv, TypeOK
  <2>2. new \in TaskRecord /\ new.cond = task[k].cond /\ new.owner = task[k].owner
    BY <2>1 DEF TaskRecord
  <2>3. task' = [task EXCEPT ![k] = new] /\ new # None
    BY <1>3, <2>2, NoneIsNoObject
  <2> HIDE DEF new
  <2>4. task' \in [Tasks -> TaskRecord \cup {None}] /\ SameTasks
    BY <1>1, <2>1, <2>2, <2>3 DEF SameTasks
  <2> QED BY <1>1, <1>3, <2>4, FlagKeepsIInv
<1> QED BY <1>2, <1>3 DEF TimerCallback

(* The cleanup hook of a task is called. *)
LEMMA EnvCleanupKeepsIInv ==
  ASSUME IInv, NEW k \in Tasks, EnvCleanup(k)
  PROVE  IInv'
<1>1. task[k] # None /\ UNCHANGED <<env, condMap, handle, events>>
  BY DEF EnvCleanup
<1>2. CASE FindAndFinishTask(k)
  BY <1>1, <1>2, FindAndFinishTaskKeepsIInv
<1>3. CASE task' = [task EXCEPT ![k].hook = FALSE] /\ UNCHANGED <<cond, promise, removing>>
  <2> DEFINE new == [task[k] EXCEPT !.hook = FALSE]
  <2>1. task \in [Tasks -> TaskRecord \cup {None}] /\ task[k] \in TaskRecord
    BY <1>1 DEF IInv, TypeOK
  <2>2. new \in TaskRecord /\ new.cond = task[k].cond /\ new.owner = task[k].owner
    BY <2>1 DEF TaskRecord
  <2>3. task' = [task EXCEPT ![k] = new] /\ new # None
    BY <1>3, <2>2, NoneIsNoObject
  <2> HIDE DEF new
  <2>4. task' \in [Tasks -> TaskRecord \cup {None}] /\ SameTasks
    BY <1>1, <2>1, <2>2, <2>3 DEF SameTasks
  <2> QED BY <1>1, <1>3, <2>4, FlagKeepsIInv
<1> QED BY <1>2, <1>3 DEF EnvCleanup

(* An engine begins to be destroyed. *)
LEMMA DestroyEngineKeepsIInv ==
  ASSUME IInv, NEW t \in Threads, DestroyEngine(t)
  PROVE  IInv'
<1> USE DEF IInv
<1>1. /\ env' = [env EXCEPT ![t] = "closing"]
      /\ UNCHANGED <<cond, condMap, handle, task, promise, events, removing>>
  BY DEF DestroyEngine
<1>2. TypeOK'
  BY <1>1 DEF TypeOK
<1>3. \A d \in Conds : Queue(d)' = Queue(d) /\ Count(d)' = Count(d)
  BY <1>1 DEF Queue, Count
<1>4. CountsOK'
  <2>1. \A d \in Conds : CountOK(d) /\ TasksOf(d)' = TasksOf(d)
    BY <1>1 DEF CountsOK, TasksOf
  <2>2. \A d \in Conds : CountOK(d)'
    BY <1>1, <1>3, <2>1, CountsKept
  <2> QED BY <2>2 DEF CountsOK
<1>5. MapOK'
  BY <1>1 DEF MapOK
<1>6. PlacesOK'
  <2>1. SameTasks
    BY <1>1 DEF SameTasks
  <2>2. \A s \in Threads : env'[s] = "alive" => env[s] = "alive"
    BY <1>1 DEF TypeOK
  <2> QED BY <1>1, <1>3, <2>1, <2>2, PlacesKept
<1>7. FinishedOnce'
  BY <1>1 DEF FinishedOnce
<1> QED BY <1>2, <1>4, <1>5, <1>6, <1>7

(* An engine is gone, and what was posted to it. *)
LEMMA EngineDestroyedKeepsIInv ==
  ASSUME IInv, NEW t \in Threads, EngineDestroyed(t)
  PROVE  IInv'
<1> USE DEF IInv
<1>1. /\ env' = [env EXCEPT ![t] = "dead"] /\ events' = [events EXCEPT ![t] = <<>>]
      /\ UNCHANGED <<cond, condMap, handle, task, promise, removing>>
  BY DEF EngineDestroyed
<1>2. TypeOK'
  BY <1>1, EmptySeq DEF TypeOK
<1>3. \A d \in Conds : Queue(d)' = Queue(d) /\ Count(d)' = Count(d)
  BY <1>1 DEF Queue, Count
<1>4. CountsOK'
  <2>1. \A d \in Conds : CountOK(d) /\ TasksOf(d)' = TasksOf(d)
    BY <1>1 DEF CountsOK, TasksOf
  <2>2. \A d \in Conds : CountOK(d)'
    BY <1>1, <1>3, <2>1, CountsKept
  <2> QED BY <2>2 DEF CountsOK
<1>5. MapOK'
  BY <1>1 DEF MapOK
<1>6. PlacesOK'
  <2>1. /\ events'[t] = <<>> /\ env'[t] # "alive"
        /\ \A s \in Threads : s # t => events'[s] = events[s] /\ env'[s] = env[s]
    BY <1>1 DEF TypeOK
  <2>2. \A d \in Conds : Injective(Queue(d))' /\ \A k : InQueue(d, k)' <=> InQueue(d, k)
    BY <1>3 DEF InQueue, PlacesOK, QueuesOK
  <2>3. \A s \in Threads : Injective(events[s])' /\ \A k : InEvents(s, k)' <=> InEvents(s, k) /\ s # t
    BY <2>1, EmptyIs DEF InEvents, PlacesOK, EventsOK
  <2>4. \A k \in Tasks : task[k] # None => task[k].cond \in Conds /\ task[k].owner \in Threads
    BY TaskFields
  <2>5. QueuesOK'
    BY <1>1, <2>2 DEF PlacesOK, QueuesOK
  <2>6. EventsOK'
    BY <1>1, <2>3 DEF PlacesOK, EventsOK
  <2>7. WaysOK'
    BY <1>1, <2>1, <2>2, <2>3, <2>4 DEF PlacesOK, WaysOK
  <2> QED BY <2>5, <2>6, <2>7 DEF PlacesOK
<1>7. FinishedOnce'
  BY <1>1 DEF FinishedOnce
<1> QED BY <1>2, <1>4, <1>5, <1>6, <1>7

(* The invariant holds at the start. *)
LEMMA InitEstablishesIInv == Init => IInv
<1> SUFFICES ASSUME Init PROVE IInv
  OBVIOUS
<1>1. TypeOK
  BY EmptySeq DEF Init, TypeOK
<1>2. CountsOK
  <2> SUFFICES ASSUME NEW c \in Conds PROVE CountOK(c)
    BY DEF CountsOK
  <2>1. HandlesOf(c) = {} /\ TasksOf(c) = {} /\ Count(c) = 0
    BY ConditionConstants DEF Init, HandlesOf, TasksOf, Count
  <2>2. IsFiniteSet({}) /\ Cardinality({}) = 0
    BY FS_EmptySet
  <2> QED BY <2>1, <2>2 DEF CountOK
<1>3. MapOK
  BY DEF Init, MapOK
<1>4. PlacesOK
  <2>1. \A c \in Conds : Queue(c) = <<>>
    BY DEF Init, Queue
  <2>2. QueuesOK
    BY <2>1, EmptyIs DEF QueuesOK, InQueue
  <2>3. EventsOK
    BY EmptyIs DEF Init, EventsOK, InEvents
  <2>4. WaysOK
    BY DEF Init, WaysOK
  <2> QED BY <2>2, <2>3, <2>4 DEF PlacesOK
<1>5. FinishedOnce
  BY DEF Init, FinishedOnce
<1> QED BY <1>1, <1>2, <1>3, <1>4, <1>5 DEF IInv

(* A step that changes nothing keeps the invariant. *)
LEMMA StutterKeepsIInv == IInv /\ UNCHANGED vars => IInv'
<1> SUFFICES ASSUME IInv, UNCHANGED vars PROVE IInv'
  OBVIOUS
<1>1. SameTasks /\ task' \in [Tasks -> TaskRecord \cup {None}]
  BY DEF vars, SameTasks, IInv, TypeOK
<1> QED BY <1>1, FlagKeepsIInv DEF vars

(* Every step keeps the invariant. *)
LEMMA NextKeepsIInv == IInv /\ [Next]_vars => IInv'
<1> SUFFICES ASSUME IInv, [Next]_vars PROVE IInv'
  OBVIOUS
<1>1. ASSUME NEW t \in Threads, EraseName(t) PROVE IInv'
  BY <1>1, EraseNameKeepsIInv
<1>2. ASSUME NEW t \in Threads, RunEvent(t) PROVE IInv'
  BY <1>2, RunEventKeepsIInv
<1>3. ASSUME NEW t \in Threads, DestroyEngine(t) PROVE IInv'
  BY <1>3, DestroyEngineKeepsIInv
<1>4. ASSUME NEW t \in Threads, EngineDestroyed(t) PROVE IInv'
  BY <1>4, EngineDestroyedKeepsIInv
<1>5. ASSUME NEW t \in Threads, NEW h \in Handles, Destructor(t, h) PROVE IInv'
  BY <1>5, DestructorKeepsIInv
<1>6. ASSUME NEW t \in Threads, NEW h \in Handles, NotifyOne(t, h) PROVE IInv'
  BY <1>6, NotifyOneKeepsIInv
<1>7. ASSUME NEW t \in Threads, NEW h \in Handles, NotifyAll(t, h) PROVE IInv'
  BY <1>7, NotifyAllKeepsIInv
<1>8. ASSUME NEW t \in Threads, NEW h \in Handles, NEW c \in Conds, ConstructAnonymous(t, h, c)
      PROVE  IInv'
  BY <1>8, ConstructAnonymousKeepsIInv
<1>9. ASSUME NEW t \in Threads, NEW h \in Handles, NEW c \in Conds, NEW n \in Names, Request(t, h, n, c)
      PROVE  IInv'
  BY <1>9, RequestKeepsIInv
<1>10. ASSUME NEW t \in Threads, NEW h \in Handles, NEW k \in Tasks, NEW timer \in BOOLEAN,
              Wait(t, h, k, timer)
       PROVE  IInv'
  BY <1>10, WaitKeepsIInv
<1>11. ASSUME NEW k \in Tasks, TimerCallback(k) PROVE IInv'
  BY <1>11, TimerCallbackKeepsIInv
<1>12. ASSUME NEW k \in Tasks, EnvCleanup(k) PROVE IInv'
  BY <1>12, EnvCleanupKeepsIInv
<1>13. CASE UNCHANGED vars
  BY <1>13, StutterKeepsIInv
<1> QED BY <1>1, <1>2, <1>3, <1>4, <1>5, <1>6, <1>7, <1>8, <1>9, <1>10, <1>11, <1>12, <1>13 DEF Next

(* The invariant holds in every state. *)
THEOREM ConditionsAreSound == Spec => []IInv
<1> QED BY InitEstablishesIInv, NextKeepsIInv, PTL DEF Spec

----------------------------------------------------------------------------
(* The properties. *)

(* Every variable has its type: a queue is a list of tasks, a count never  *)
(* goes below zero.                                                        *)
THEOREM ConditionTypes == Spec => []TypeOK
<1>1. IInv => TypeOK
  BY DEF IInv
<1> QED BY <1>1, ConditionsAreSound, PTL

(* Counts are exact: what the invariant says of them. *)
LEMMA CountsAreExact == IInv => RefCountIsExact
<1> SUFFICES ASSUME IInv, NEW c \in Conds
             PROVE  /\ cond[c] # None =>
                         cond[c].refCount = Cardinality(HandlesOf(c)) + Cardinality(TasksOf(c))
                    /\ cond[c] = None => HandlesOf(c) = {} /\ TasksOf(c) = {}
  BY DEF RefCountIsExact
<1>1. CountOK(c)
  BY DEF IInv, CountsOK
<1>2. cond[c] = None => HandlesOf(c) = {} /\ TasksOf(c) = {}
  BY <1>1, CountZero DEF Count
<1>3. cond[c] # None => cond[c].refCount = Cardinality(HandlesOf(c)) + Cardinality(TasksOf(c))
  BY <1>1 DEF CountOK, Count
<1> QED BY <1>2, <1>3

(* ... and after a step. *)
LEMMA CountsAreExactNext == IInv' => RefCountIsExact'
  BY CountsAreExact, PTL

(* A condition is counted for each of its handles and tasks, so it lives   *)
(* as long as one of them.                                                 *)
THEOREM ReferencesAreCounted == Spec => []RefCountIsExact
<1> QED BY CountsAreExact, ConditionsAreSound, PTL

(* How often a task is in a list that has no task twice. *)
LEMMA OccursOnce ==
  ASSUME NEW s, NEW k, Injective(s)
  PROVE  OccurrencesIn(s, k) = IF In(s, k) THEN 1 ELSE 0
<1> DEFINE P == {i \in DOMAIN s : s[i] = k}
<1>1. CASE In(s, k)
  <2>1. PICK i \in DOMAIN s : s[i] = k
    BY <1>1 DEF In
  <2>2. P = {i}
    BY <2>1 DEF Injective
  <2>3. Cardinality({i}) = 1
    BY FS_Singleton
  <2> QED BY <1>1, <2>2, <2>3 DEF OccurrencesIn
<1>2. CASE ~In(s, k)
  <2>1. P = {}
    BY <1>2 DEF In
  <2> QED BY <1>2, <2>1, FS_EmptySet DEF OccurrencesIn
<1> QED BY <1>1, <1>2

(* No waiter is lost and none is woken twice. *)
THEOREM TasksHaveOneFate == Spec => []OneFate
<1>1. IInv => OneFate
  <2> SUFFICES ASSUME IInv, NEW k \in Tasks, task[k] # None
               PROVE  LET queued == OccurrencesIn(cond[task[k].cond].tasks, k)
                          posted == OccurrencesIn(events[task[k].owner], k)
                      IN IF env[task[k].owner] = "alive" THEN queued + posted = 1 ELSE queued + posted <= 1
    BY DEF OneFate
  <2>1. PICK c \in Conds : c = task[k].cond
    BY TaskIsCounted DEF IInv
  <2>2. cond[c] # None
    BY <2>1, TaskIsCounted DEF IInv
  <2>3. PICK t \in Threads : t = task[k].owner
    BY TaskFields DEF IInv
  <2>4. Queue(c) = cond[c].tasks /\ Injective(cond[c].tasks) /\ Injective(events[t])
    BY <2>2 DEF IInv, PlacesOK, QueuesOK, EventsOK, Queue
  <2>5. /\ OccurrencesIn(cond[c].tasks, k) = IF InQueue(c, k) THEN 1 ELSE 0
        /\ OccurrencesIn(events[t], k) = IF InEvents(t, k) THEN 1 ELSE 0
    BY <2>4, OccursOnce DEF InQueue, InEvents
  <2>6. /\ ~(InQueue(c, k) /\ InEvents(t, k))
        /\ env[t] = "alive" => InQueue(c, k) \/ InEvents(t, k)
    BY <2>1, <2>3 DEF IInv, PlacesOK, WaysOK
  <2> QED BY <2>1, <2>3, <2>5, <2>6
<1> QED BY <1>1, ConditionsAreSound, PTL

(* A promise is settled once, and no task is destroyed before.             *)
THEOREM TasksFinishOnce == Spec => []FinishedOnce
<1>1. IInv => FinishedOnce
  BY DEF IInv
<1> QED BY <1>1, ConditionsAreSound, PTL

----------------------------------------------------------------------------
(* The registry, where references are dropped on one thread only.          *)

(* A thread that is between the two critical sections of                   *)
(* TryRemoveCondition has a condition that exists, and every named         *)
(* condition is registered.                                                *)
RegistryInv ==
  /\ \A k \in Tasks : task[k] # None => task[k].owner \in Releasers
  /\ \A t \in Threads : removing[t] # None =>
       /\ t \in Releasers
       /\ cond[removing[t].cond] # None /\ cond[removing[t].cond].name = removing[t].name
  /\ \A c \in Conds : cond[c] # None /\ cond[c].name # Anonymous => condMap[cond[c].name] = c

(* Conditions that stay, apart from their counts and queues. *)
SameConds ==
  \A c \in Conds : /\ cond'[c] # None <=> cond[c] # None
                   /\ cond[c] # None => cond'[c].name = cond[c].name

(* The registry does not change. *)
LEMMA RegistryKept ==
  ASSUME TypeOK, RegistryInv, SameTasks, SameConds, removing' = removing, condMap' = condMap
  PROVE  RegistryInv'
<1>1. \A t \in Threads : removing[t] # None => removing[t].cond \in Conds
  BY DEF TypeOK
<1> QED BY <1>1 DEF RegistryInv, SameTasks, SameConds

(* What TryRemoveCondition leaves to do. *)
LEMMA TryRemoveLeaves ==
  ASSUME TypeOK, NEW t \in Threads, NEW c \in Conds, NEW q \in CondRecord, TryRemoveCondition(t, c, q)
  PROVE  \/ removing' = removing
         \/ removing' = [removing EXCEPT ![t] = [cond |-> c, name |-> q.name]] /\ cond'[c] # None
<1>1. CASE UNCHANGED removing
  BY <1>1
<1>2. CASE /\ cond' = [cond EXCEPT ![c] = [q EXCEPT !.refCount = 0]]
           /\ removing' = [removing EXCEPT ![t] = [cond |-> c, name |-> q.name]]
  <2> DEFINE p == [q EXCEPT !.refCount = 0]
  <2>1. p # None
    BY NewCount, CondFields
  <2> HIDE DEF p
  <2>2. cond' = [cond EXCEPT ![c] = p]
    BY <1>2 DEF p
  <2> QED BY <1>2, <2>1, <2>2 DEF TypeOK
<1> QED BY <1>1, <1>2 DEF TryRemoveCondition

(* The thread that drops a reference is the one that ever does.            *)
LEMMA RegistryDropped ==
  ASSUME TypeOK, CountsOK, RegistryInv, NEW r, Releasers \subseteq {r},
         NEW t \in Threads, t \in Releasers, removing[t] = None,
         NEW c \in Conds, cond[c] # None, cond[c].refCount # 0,
         NEW q \in CondRecord, q.refCount = cond[c].refCount, q.name = cond[c].name,
         TryRemoveCondition(t, c, q), condMap' = condMap,
         \A k \in Tasks : task'[k] # None => task'[k] = task[k]
  PROVE  RegistryInv'
<1>1. Drops(c, q.tasks)
  BY TryRemoveDrops
<1>2. \A s \in Threads : removing[s] = None
  BY DEF RegistryInv
<1>3. ASSUME NEW s \in Threads, removing'[s] # None
      PROVE  /\ s \in Releasers
             /\ cond'[removing'[s].cond] # None /\ cond'[removing'[s].cond].name = removing'[s].name
  <2>1. removing' = [removing EXCEPT ![t] = [cond |-> c, name |-> q.name]] /\ cond'[c] # None
    BY <1>2, <1>3, TryRemoveLeaves
  <2>2. s = t /\ removing'[s] = [cond |-> c, name |-> q.name]
    BY <1>2, <1>3, <2>1 DEF TypeOK
  <2> QED BY <1>1, <2>1, <2>2 DEF Drops
<1>4. ASSUME NEW d \in Conds, cond'[d] # None, cond'[d].name # Anonymous
      PROVE  condMap'[cond'[d].name] = d
  BY <1>1, <1>4 DEF RegistryInv, Drops
<1>5. \A k \in Tasks : task'[k] # None => task'[k].owner \in Releasers
  BY DEF RegistryInv
<1> QED BY <1>3, <1>4, <1>5 DEF RegistryInv

(* The second critical section. *)
LEMMA RegistryErased ==
  ASSUME IInv, RegistryInv, NEW r, Releasers \subseteq {r}, NEW t \in Threads, EraseName(t)
  PROVE  RegistryInv'
<1>1. PICK c \in Conds : c = removing[t].cond
  BY DEF EraseName, IInv, TypeOK
<1>2. PICK n : n = cond[c].name
  OBVIOUS
<1>3. removing[t] # None /\ t \in Releasers /\ cond[c] # None
  BY <1>1 DEF EraseName, RegistryInv
<1>4. \A s \in Threads : removing'[s] = None
  BY <1>3 DEF EraseName, RegistryInv, IInv, TypeOK
<1>5. \/ /\ n \in Names /\ condMap' = [condMap EXCEPT ![n] = None]
         /\ cond' = [cond EXCEPT ![c] = None]
      \/ UNCHANGED <<condMap, cond>>
  BY <1>1, <1>2, <1>3 DEF EraseName
<1>6. ASSUME NEW d \in Conds, cond'[d] # None, cond'[d].name # Anonymous
      PROVE  condMap'[cond'[d].name] = d
  <2>1. CASE /\ n \in Names /\ condMap' = [condMap EXCEPT ![n] = None]
             /\ cond' = [cond EXCEPT ![c] = None]
    <3>1. d # c /\ cond'[d] = cond[d]
      BY <1>6, <2>1 DEF IInv, TypeOK
    <3>2. cond[d].name \in Names
      BY <1>6, <3>1, CondFields DEF IInv, TypeOK
    <3>3. condMap[cond[d].name] = d /\ condMap[n] = c
      BY <1>2, <1>3, <1>6, <2>1, <3>1, NamesAreNotEmpty DEF RegistryInv
    <3>4. cond[d].name # n
      BY <3>1, <3>3
    <3> QED BY <2>1, <3>1, <3>2, <3>3, <3>4 DEF IInv, TypeOK
  <2>2. CASE UNCHANGED <<condMap, cond>>
    BY <1>6, <2>2 DEF RegistryInv
  <2> QED BY <1>5, <2>1, <2>2
<1>7. \A k \in Tasks : task'[k] # None => task'[k].owner \in Releasers
  BY DEF EraseName, RegistryInv
<1> QED BY <1>4, <1>6, <1>7 DEF RegistryInv

(* A handle is requested or constructed. *)
LEMMA RegistryRequested ==
  ASSUME IInv, RegistryInv, NEW t \in Threads, NEW h \in Handles, NEW c \in Conds,
         \/ \E n \in Names : Request(t, h, n, c)
         \/ ConstructAnonymous(t, h, c)
  PROVE  RegistryInv'
<1>1. UNCHANGED <<task, removing>>
  BY DEF Request, ConstructAnonymous
<1>2. CASE cond[c] # None
  <2>1. PICK n \in Names : Request(t, h, n, c)
    BY <1>2 DEF ConstructAnonymous
  <2>2. /\ condMap' = condMap /\ cond[c] \in CondRecord
        /\ cond' = [cond EXCEPT ![c] = [cond[c] EXCEPT !.refCount = cond[c].refCount + 1]]
    BY <1>2, <2>1 DEF Request, IInv, TypeOK
  <2> DEFINE q == [cond[c] EXCEPT !.refCount = cond[c].refCount + 1]
  <2>3. q # None /\ q.name = cond[c].name
    <3>1. cond[c].refCount + 1 \in Nat
      BY <2>2, CondFields
    <3> QED BY <2>2, <3>1, NewCount, CondFields
  <2>4. cond' = [cond EXCEPT ![c] = q]
    BY <2>2
  <2> HIDE DEF q
  <2>5. SameConds
    BY <1>2, <2>3, <2>4 DEF SameConds, IInv, TypeOK
  <2>6. SameTasks
    BY <1>1 DEF SameTasks
  <2> QED BY <1>1, <2>2, <2>5, <2>6, RegistryKept DEF IInv
<1>3. CASE cond[c] = None
  <2>1. PICK n \in Names \cup {Anonymous} :
          /\ cond' = [cond EXCEPT ![c] = [name |-> n, refCount |-> 1, tasks |-> <<>>]]
          /\ \/ n \in Names /\ condMap[n] = None /\ condMap' = [condMap EXCEPT ![n] = c]
             \/ n = Anonymous /\ condMap' = condMap
    <3>1. CASE ConstructAnonymous(t, h, c)
      BY <3>1 DEF ConstructAnonymous
    <3>2. ASSUME NEW n \in Names, Request(t, h, n, c)
          PROVE  /\ cond' = [cond EXCEPT ![c] = [name |-> n, refCount |-> 1, tasks |-> <<>>]]
                 /\ condMap[n] = None /\ condMap' = [condMap EXCEPT ![n] = c]
      BY <1>3, <3>2, ConditionConstants DEF Request, IInv, MapOK
    <3> QED BY <3>1, <3>2
  <2>2. PICK new : new = [name |-> n, refCount |-> 1, tasks |-> <<>>]
    OBVIOUS
  <2>3. new # None /\ new.name = n
    BY <2>2, NewCondition, CondFields
  <2>4. cond'[c] = new /\ \A d \in Conds : d # c => cond'[d] = cond[d]
    BY <2>1, <2>2 DEF IInv, TypeOK
  <2>5. \A s \in Threads : removing[s] # None => removing[s].cond \in Conds /\ removing[s].cond # c
    BY <1>3 DEF RegistryInv, IInv, TypeOK
  <2>6. ASSUME NEW d \in Conds, cond'[d] # None, cond'[d].name # Anonymous
        PROVE  condMap'[cond'[d].name] = d
    <3>1. CASE d = c
      BY <3>1, <2>1, <2>3, <2>4, <2>6 DEF IInv, TypeOK
    <3>2. CASE d # c
      <4>1. cond'[d] = cond[d] /\ condMap[cond[d].name] = d /\ cond[d].name \in Names
        BY <3>2, <2>4, <2>6, CondFields DEF RegistryInv, IInv, TypeOK
      <4>2. condMap[n] = None => cond[d].name # n
        BY <4>1, ConditionConstants
      <4> QED BY <2>1, <4>1, <4>2 DEF IInv, TypeOK
    <3> QED BY <3>1, <3>2
  <2> QED BY <1>1, <2>4, <2>5, <2>6 DEF RegistryInv
<1> QED BY <1>2, <1>3

(* A task begins to wait. *)
LEMMA RegistryWaits ==
  ASSUME IInv, RegistryInv, NEW t \in Threads, NEW h \in Handles, NEW k \in Tasks, NEW timer \in BOOLEAN,
         Wait(t, h, k, timer)
  PROVE  RegistryInv'
<1>1. t \in Releasers /\ handle[h] # None /\ UNCHANGED <<condMap, removing>>
  BY DEF Wait
<1>2. PICK c \in Conds : c = handle[h] /\ cond[c] \in CondRecord /\ cond[c] # None
  BY <1>1, HandleIsCounted DEF IInv
<1>3. PICK new : new = [cond |-> c, owner |-> t, timer |-> timer, hook |-> TRUE]
  OBVIOUS
<1>4. /\ task' = [task EXCEPT ![k] = new] /\ new.owner = t
      /\ cond' = [cond EXCEPT ![c].tasks = Append(@, k), ![c].refCount = @ + 1]
  BY <1>2, <1>3 DEF Wait
<1>5. SameConds
  <2>1. IInv'
    BY WaitKeepsIInv
  <2>2. cond'[c] # None
    <3>1. handle' = handle /\ HandlesOf(c)' # {}
      BY <1>2 DEF Wait, HandlesOf
    <3>2. RefCountIsExact'
      BY <2>1, CountsAreExactNext
    <3> QED BY <3>1, <3>2 DEF RefCountIsExact
  <2>3. cond'[c].name = cond[c].name /\ \A d \in Conds : d # c => cond'[d] = cond[d]
    BY <1>2, <1>4 DEF IInv, TypeOK, CondRecord
  <2> QED BY <1>2, <2>2, <2>3 DEF SameConds
<1>6. \A j \in Tasks : task'[j] # None => task'[j].owner \in Releasers
  BY <1>1, <1>4 DEF RegistryInv, IInv, TypeOK
<1>7. \A s \in Threads : removing[s] # None => removing[s].cond \in Conds
  BY DEF IInv, TypeOK
<1> QED BY <1>1, <1>5, <1>6, <1>7 DEF RegistryInv, SameConds

(* The invariant holds at the start. *)
LEMMA InitEstablishesRegistry == Init => RegistryInv
BY DEF Init, RegistryInv

(* Every step keeps it. *)
LEMMA NextKeepsRegistry ==
  ASSUME NEW r, Releasers \subseteq {r}, IInv, RegistryInv, [Next]_vars
  PROVE  RegistryInv'
<1>0. TypeOK /\ CountsOK
  BY DEF IInv
<1>1. ASSUME NEW t \in Threads, EraseName(t) PROVE RegistryInv'
  BY <1>1, RegistryErased
<1>2. ASSUME NEW t \in Threads, RunEvent(t) PROVE RegistryInv'
  <2>1. PICK k : k = Head(events[t])
    OBVIOUS
  <2>2. events[t] \in Seq(Tasks) /\ events[t] # <<>> /\ Injective(events[t])
    BY <1>2 DEF RunEvent, IInv, TypeOK, PlacesOK, EventsOK
  <2>3. k \in Tasks /\ InEvents(t, k)
    BY <2>1, <2>2, TailIs DEF InEvents
  <2>4. task[k] # None /\ task[k].owner = t
    BY <2>3 DEF IInv, PlacesOK, EventsOK
  <2>5. PICK c \in Conds : c = task[k].cond /\ cond[c] \in CondRecord /\ cond[c] # None /\ cond[c].refCount # 0
    BY <2>3, <2>4, <1>0, TaskIsCounted
  <2>6. PICK q \in CondRecord : q = cond[c]
    BY <2>5
  <2>7. /\ t \in Releasers /\ removing[t] = None
        /\ q.refCount = cond[c].refCount /\ q.name = cond[c].name
    BY <1>2, <2>3, <2>4, <2>6 DEF RunEvent, Running, Idle, RegistryInv
  <2>8. /\ TryRemoveCondition(t, c, q) /\ condMap' = condMap
        /\ \A j \in Tasks : task'[j] # None => task'[j] = task[j]
    BY <1>2, <2>1, <2>3, <2>5, <2>6, <1>0 DEF RunEvent, TypeOK
  <2> QED BY <1>0, <2>5, <2>7, <2>8, RegistryDropped
<1>3. ASSUME NEW t \in Threads, DestroyEngine(t) \/ EngineDestroyed(t) PROVE RegistryInv'
  <2>1. UNCHANGED <<cond, condMap, task, removing>>
    BY <1>3 DEF DestroyEngine, EngineDestroyed
  <2>2. SameTasks /\ SameConds
    BY <2>1 DEF SameTasks, SameConds
  <2> QED BY <1>0, <2>1, <2>2, RegistryKept
<1>4. ASSUME NEW t \in Threads, NEW h \in Handles, Destructor(t, h) PROVE RegistryInv'
  <2>1. PICK c \in Conds : c = handle[h] /\ cond[c] \in CondRecord /\ cond[c] # None /\ cond[c].refCount # 0
    BY <1>0, <1>4, HandleIsCounted DEF Destructor
  <2>2. PICK q \in CondRecord : q = cond[c]
    BY <2>1
  <2>3. /\ t \in Releasers /\ removing[t] = None
        /\ q.refCount = cond[c].refCount /\ q.name = cond[c].name
    BY <1>4, <2>2 DEF Destructor, Running, Idle
  <2>4. /\ TryRemoveCondition(t, c, q) /\ condMap' = condMap
        /\ \A j \in Tasks : task'[j] # None => task'[j] = task[j]
    BY <1>4, <2>1, <2>2 DEF Destructor
  <2> QED BY <1>0, <2>1, <2>3, <2>4, RegistryDropped
<1>5. ASSUME NEW t \in Threads, NEW h \in Handles, NotifyOne(t, h) \/ NotifyAll(t, h) PROVE RegistryInv'
  <2>1. UNCHANGED <<condMap, task, removing>> /\ handle[h] # None
    BY <1>5 DEF NotifyOne, NotifyAll
  <2>2. PICK c \in Conds : c = handle[h] /\ cond[c] \in CondRecord /\ cond[c] # None
    BY <1>0, <2>1, HandleIsCounted
  <2>3. PICK rest \in Seq(Tasks) : cond' = [cond EXCEPT ![c].tasks = rest]
    <3>1. cond[c].tasks \in Seq(Tasks)
      BY <2>2, CondFields
    <3>2. CASE NotifyOne(t, h)
      <4>1. Tail(cond[c].tasks) \in Seq(Tasks)
        BY <3>1, <3>2, <2>2, HeadTailProperties DEF NotifyOne
      <4> QED BY <3>2, <4>1, <2>2 DEF NotifyOne
    <3>3. CASE NotifyAll(t, h)
      <4>1. <<>> \in Seq(Tasks)
        BY EmptySeq
      <4> QED BY <3>3, <4>1, <2>2 DEF NotifyAll
    <3> QED BY <1>5, <3>2, <3>3
  <2>4. PICK q : q = [cond[c] EXCEPT !.tasks = rest]
    OBVIOUS
  <2>5. q # None /\ q.name = cond[c].name
    BY <2>2, <2>4, NewTasks, CondFields
  <2>6. cond' = [cond EXCEPT ![c] = q]
    BY <2>3, <2>4
  <2>7. SameTasks /\ SameConds
    BY <2>1, <2>2, <2>5, <2>6, <1>0 DEF SameTasks, SameConds, TypeOK
  <2> QED BY <1>0, <2>1, <2>7, RegistryKept
<1>6. ASSUME NEW t \in Threads, NEW h \in Handles, NEW c \in Conds,
             ConstructAnonymous(t, h, c) \/ \E n \in Names : Request(t, h, n, c)
      PROVE  RegistryInv'
  BY <1>6, RegistryRequested
<1>7. ASSUME NEW t \in Threads, NEW h \in Handles, NEW k \in Tasks, NEW timer \in BOOLEAN,
             Wait(t, h, k, timer)
      PROVE  RegistryInv'
  BY <1>7, RegistryWaits
<1>8. ASSUME NEW k \in Tasks, TimerCallback(k) \/ EnvCleanup(k) PROVE RegistryInv'
  <2>1. task[k] # None /\ condMap' = condMap /\ removing[task[k].owner] = None
    BY <1>8 DEF TimerCallback, EnvCleanup, Running, Idle
  <2>2. CASE FindAndFinishTask(k)
    <3>1. PICK t \in Threads : t = task[k].owner
      BY <1>0, <2>1, TaskFields
    <3>2. PICK c \in Conds : c = task[k].cond /\ cond[c] \in CondRecord /\ cond[c] # None /\ cond[c].refCount # 0
      BY <1>0, <2>1, TaskIsCounted
    <3>3. Queue(c) = cond[c].tasks /\ cond[c].tasks \in Seq(Tasks) /\ Injective(cond[c].tasks)
      BY <3>2, CondFields DEF Queue, IInv, PlacesOK, QueuesOK
    <3>4. In(cond[c].tasks, k)
      BY <2>2, <3>2 DEF FindAndFinishTask, Queued, In
    <3>5. Without(k, cond[c].tasks) \in Seq(Tasks)
      BY <3>3, <3>4, ErasedIs
    <3>6. PICK q : q = [cond[c] EXCEPT !.tasks = Without(k, cond[c].tasks)]
      OBVIOUS
    <3>7. q \in CondRecord /\ q.refCount = cond[c].refCount /\ q.name = cond[c].name
      BY <3>2, <3>5, <3>6, NewTasks
    <3>8. TryRemoveCondition(t, c, q) /\ \A j \in Tasks : task'[j] # None => task'[j] = task[j]
      BY <2>2, <3>1, <3>2, <3>6, <1>0 DEF FindAndFinishTask, TypeOK
    <3>9. t \in Releasers /\ removing[t] = None
      BY <2>1, <3>1 DEF RegistryInv
    <3> QED BY <1>0, <2>1, <3>2, <3>7, <3>8, <3>9, RegistryDropped
  <2>3. CASE ~FindAndFinishTask(k)
    <3>1. UNCHANGED <<cond, removing>>
      BY <1>8, <2>3 DEF TimerCallback, EnvCleanup
    <3>2. \/ task' = [task EXCEPT ![k].timer = FALSE] \/ task' = [task EXCEPT ![k].hook = FALSE]
      BY <1>8, <2>3 DEF TimerCallback, EnvCleanup
    <3>3. task[k] \in TaskRecord
      BY <1>0, <2>1 DEF TypeOK
    <3>4. PICK new \in TaskRecord : /\ new.cond = task[k].cond /\ new.owner = task[k].owner
                                    /\ task' = [task EXCEPT ![k] = new]
      BY <3>2, <3>3 DEF TaskRecord
    <3>5. new # None
      BY NoneIsNoObject
    <3>6. SameTasks /\ SameConds
      BY <2>1, <3>1, <3>4, <3>5, <1>0 DEF SameTasks, SameConds, TypeOK
    <3> QED BY <1>0, <2>1, <3>1, <3>6, RegistryKept
  <2> QED BY <2>2, <2>3
<1>9. CASE UNCHANGED vars
  <2>1. UNCHANGED <<cond, condMap, task, removing>>
    BY <1>9 DEF vars
  <2>2. SameTasks /\ SameConds
    BY <2>1 DEF SameTasks, SameConds
  <2> QED BY <1>0, <2>1, <2>2, RegistryKept
<1> QED BY <1>1, <1>2, <1>3, <1>4, <1>5, <1>6, <1>7, <1>8, <1>9 DEF Next

(* Where references are dropped on one thread only, a named condition is   *)
(* registered as long as it has a handle: the race that condition_registry *)
(* shows takes two threads that drop references.                           *)
THEOREM RegistryOfOneReleaser ==
  ASSUME NEW CONSTANT r, Releasers \subseteq {r}
  PROVE  Spec => []RegisteredWhileReferenced
<1>1. Init => RegistryInv
  BY InitEstablishesRegistry
<1>2. IInv /\ RegistryInv /\ [Next]_vars => RegistryInv'
  BY NextKeepsRegistry
<1>3. IInv /\ RegistryInv => RegisteredWhileReferenced
  <2> SUFFICES ASSUME IInv, RegistryInv, NEW h \in Handles, handle[h] # None,
                      cond[handle[h]].name # Anonymous
               PROVE  condMap[cond[handle[h]].name] = handle[h]
    BY DEF RegisteredWhileReferenced
  <2>1. handle[h] \in Conds /\ cond[handle[h]] # None
    BY HandleIsCounted DEF IInv
  <2> QED BY <2>1 DEF RegistryInv
<1> QED BY <1>1, <1>2, <1>3, ConditionsAreSound, PTL DEF Spec

=============================================================================
