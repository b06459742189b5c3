------------------------- MODULE ConditionVariable -------------------------
(***************************************************************************)
(* The ConditionVariable of @arkts.utils: its registry of names, its queue *)
(* of waiting tasks and the reference count that decides when it is        *)
(* deleted.  js_concurrent_module/utils/condition.                         *)
(*                                                                         *)
(* A handle is a JS object that wraps a condition; handles are sendable,   *)
(* every thread can use them.  A reference is a handle or a ConditionTask. *)
(* Dropping the last reference of a named condition takes two critical     *)
(* sections: what a thread has to do between them is in removing.  The     *)
(* empty name is a name like others for the registry, and no name for the  *)
(* release: Names may contain it.  What is done with the memory of a       *)
(* condition after it was deleted is followed in EraseName and Request.    *)
(***************************************************************************)
EXTENDS Naturals, Sequences, FiniteSets

CONSTANTS
  Threads,     \* threads, one engine each
  Mortal,      \* those whose engine may be destroyed
  Releasers,   \* those that wait and that collect handles: references are
               \* dropped on them
  Names,       \* names of conditions
  Anonymous,   \* the empty name, of conditions that were made without one
  Conds,       \* addresses of ConditionVariable objects
  Tasks,       \* addresses of ConditionTask objects
  Handles,     \* JS objects
  None

ASSUME ConditionConstants ==
  /\ Mortal \subseteq Threads /\ Releasers \subseteq Threads
  /\ None \notin Conds \cup Tasks

VARIABLES
  env,       \* state of each engine
  cond,      \* the ConditionVariable objects
  condMap,   \* ConditionVariable::condMap_
  handle,    \* the condition each JS object wraps
  task,      \* the ConditionTask objects
  promise,   \* the promise of the task last created at an address
  events,    \* notifications posted to each engine
  removing   \* the condition a thread is about to remove from condMap_

vars == <<env, cond, condMap, handle, task, promise, events, removing>>

CondRecord == [name : Names \cup {Anonymous}, refCount : Nat, tasks : Seq(Tasks)]
TaskRecord == [cond : Conds, owner : Threads, timer : BOOLEAN, hook : BOOLEAN]

(* None stands for the null pointer, which is no object. *)
ASSUME NoneIsNoObject == None \notin CondRecord \cup TaskRecord

TypeOK ==
  /\ env \in [Threads -> {"alive", "closing", "dead"}]
  /\ cond \in [Conds -> CondRecord \cup {None}]
  /\ condMap \in [Names -> Conds \cup {None}]
  /\ handle \in [Handles -> Conds \cup {None}]
  /\ task \in [Tasks -> TaskRecord \cup {None}]
  /\ promise \in [Tasks -> {"open", "settled", "settledTwice"}]
  /\ events \in [Threads -> Seq(Tasks)]
  /\ removing \in [Threads -> [cond : Conds, name : Names] \cup {None}]

Init ==
  /\ env = [t \in Threads |-> "alive"]
  /\ cond = [c \in Conds |-> None]
  /\ condMap = [n \in Names |-> None]
  /\ handle = [h \in Handles |-> None]
  /\ task = [k \in Tasks |-> None]
  /\ promise = [k \in Tasks |-> "settled"]
  /\ events = [t \in Threads |-> <<>>]
  /\ removing = [t \in Threads |-> None]

(* The thread runs its event loop: it is not inside TryRemoveCondition.    *)
Idle(t) == removing[t] = None
Running(t) == Idle(t) /\ env[t] = "alive"

Settle(k) == promise' = [promise EXCEPT ![k] =
                           IF @ = "open" THEN "settled" ELSE "settledTwice"]

----------------------------------------------------------------------------
(* TryRemoveCondition, first critical section, on a condition that is as   *)
(* record says: count down; an anonymous condition is deleted at zero, a   *)
(* named one goes on to the second section.                                *)
TryRemoveCondition(t, c, record) ==
  LET left == record.refCount - 1 IN
  \/ /\ left # 0
     /\ cond' = [cond EXCEPT ![c] = [record EXCEPT !.refCount = left]]
     /\ UNCHANGED removing
  \/ /\ left = 0 /\ record.name = Anonymous
     /\ cond' = [cond EXCEPT ![c] = None]
     /\ UNCHANGED removing
  \/ /\ left = 0 /\ record.name # Anonymous
     /\ cond' = [cond EXCEPT ![c] = [record EXCEPT !.refCount = 0]]
     /\ removing' = [removing EXCEPT ![t] = [cond |-> c, name |-> record.name]]

(* Its second critical section, under mapMtx_ and mtx_.  When another      *)
(* thread has found the condition, dropped it and deleted it in between,   *)
(* the section works on freed memory: the count that is read there is      *)
(* still the zero left by the deletion, or anything else.  When the        *)
(* address has been taken by another condition, it works on that one.      *)
EraseName(t) ==
  /\ removing[t] # None
  /\ LET c == removing[t].cond
         n == IF cond[c] # None THEN cond[c].name ELSE removing[t].name
         countIsZero == cond[c] # None /\ cond[c].refCount = 0
         erases == n \in Names /\ condMap[n] # None
     IN \/ /\ countIsZero /\ erases
           /\ condMap' = [condMap EXCEPT ![n] = None]
           /\ cond' = [cond EXCEPT ![c] = None]
        \/ /\ cond[c] # None /\ ~(countIsZero /\ erases)
           /\ UNCHANGED <<condMap, cond>>
        \/ /\ cond[c] = None
           /\ condMap' \in {condMap, [condMap EXCEPT ![n] = None]}
           /\ UNCHANGED cond
  /\ removing' = [removing EXCEPT ![t] = None]
  /\ UNCHANGED <<env, handle, task, promise, events>>

\* Mutant: a condition that is found is not referenced.
RequestWithoutReference(t, h, n, c) ==
  /\ Running(t) /\ handle[h] = None
  /\ \/ /\ condMap[n] = None /\ cond[c] = None
        /\ cond' = [cond EXCEPT ![c] = [name |-> n, refCount |-> 1, tasks |-> <<>>]]
        /\ condMap' = [condMap EXCEPT ![n] = c]
     \/ condMap[n] = c /\ UNCHANGED <<cond, condMap>>
  /\ handle' = [handle EXCEPT ![h] = c]
  /\ UNCHANGED <<env, task, promise, events, removing>>

(* ConditionManager::Constructor with a name: FindOrCreateCondition.  The  *)
(* empty name stays when its condition is deleted; then the handle wraps   *)
(* freed memory.                                                           *)
Request(t, h, n, c) ==
  /\ Running(t) /\ handle[h] = None
  /\ \/ /\ condMap[n] = None /\ cond[c] = None
        /\ cond' = [cond EXCEPT ![c] = [name |-> n, refCount |-> 1, tasks |-> <<>>]]
        /\ condMap' = [condMap EXCEPT ![n] = c]
     \/ /\ condMap[n] = c
        /\ cond' = IF cond[c] = None THEN cond ELSE [cond EXCEPT ![c].refCount = @ + 1]
        /\ UNCHANGED condMap
  /\ handle' = [handle EXCEPT ![h] = c]
  /\ UNCHANGED <<env, task, promise, events, removing>>

(* ConditionManager::Constructor without a name. *)
ConstructAnonymous(t, h, c) ==
  /\ Running(t) /\ handle[h] = None /\ cond[c] = None
  /\ cond' = [cond EXCEPT ![c] = [name |-> Anonymous, refCount |-> 1, tasks |-> <<>>]]
  /\ handle' = [handle EXCEPT ![h] = c]
  /\ UNCHANGED <<env, condMap, task, promise, events, removing>>

(* ConditionManager::Destructor: a handle is collected on thread t. *)
Destructor(t, h) ==
  /\ t \in Releasers /\ Running(t) /\ handle[h] # None
  /\ TryRemoveCondition(t, handle[h], cond[handle[h]])
  /\ handle' = [handle EXCEPT ![h] = None]
  /\ UNCHANGED <<env, condMap, task, promise, events>>

(* Wait, and WaitFor when timer is TRUE: AddTask. *)
Wait(t, h, k, timer) ==
  /\ t \in Releasers /\ Running(t) /\ handle[h] # None /\ task[k] = None
  /\ LET c == handle[h] IN
     /\ task' = [task EXCEPT ![k] = [cond |-> c, owner |-> t, timer |-> timer, hook |-> TRUE]]
     /\ cond' = [cond EXCEPT ![c].tasks = Append(@, k), ![c].refCount = @ + 1]
  /\ promise' = [promise EXCEPT ![k] = "open"]
  /\ UNCHANGED <<env, condMap, handle, events, removing>>

(* FinishTask posts a notification to the engine of each task it takes out *)
(* of the queue; an engine that is being destroyed takes no more.  Chosen  *)
(* are the tasks at the positions P of ks, in their order.                 *)
Positions(t, ks) == {i \in DOMAIN ks : task[ks[i]].owner = t /\ env[t] = "alive"}
Rank(i, P) == Cardinality({j \in P : j <= i})
Chosen(ks, P) ==
  [n \in 1..Cardinality(P) |-> ks[CHOOSE i \in P : Rank(i, P) = n]]
Posted(ks) == [t \in Threads |-> events[t] \o Chosen(ks, Positions(t, ks))]

\* Mutant: the task that is notified stays in the queue.
NotifyOneKeepsTask(t, h) ==
  /\ Running(t) /\ handle[h] # None
  /\ cond[handle[h]].tasks # <<>>
  /\ events' = Posted(<<Head(cond[handle[h]].tasks)>>)
  /\ UNCHANGED <<env, cond, condMap, handle, task, promise, removing>>

NotifyOne(t, h) ==
  /\ Running(t) /\ handle[h] # None
  /\ LET c == handle[h] IN
     /\ cond[c].tasks # <<>>
     /\ cond' = [cond EXCEPT ![c].tasks = Tail(@)]
     /\ events' = Posted(<<Head(cond[c].tasks)>>)
  /\ UNCHANGED <<env, condMap, handle, task, promise, removing>>

\* Mutant: all tasks leave the queue, one of them is told.
NotifyAllTellsOne(t, h) ==
  /\ Running(t) /\ handle[h] # None
  /\ cond[handle[h]].tasks # <<>>
  /\ cond' = [cond EXCEPT ![handle[h]].tasks = <<>>]
  /\ events' = Posted(<<Head(cond[handle[h]].tasks)>>)
  /\ UNCHANGED <<env, condMap, handle, task, promise, removing>>

NotifyAll(t, h) ==
  /\ Running(t) /\ handle[h] # None
  /\ LET c == handle[h] IN
     /\ cond[c].tasks # <<>>
     /\ cond' = [cond EXCEPT ![c].tasks = <<>>]
     /\ events' = Posted(cond[c].tasks)
  /\ UNCHANGED <<env, condMap, handle, task, promise, removing>>

(* The notification arrives: the task finishes and drops its reference.    *)
RunEvent(t) ==
  /\ Running(t) /\ events[t] # <<>>
  /\ LET k == Head(events[t]) IN
     /\ Settle(k)
     /\ task' = [task EXCEPT ![k] = None]
     /\ TryRemoveCondition(t, task[k].cond, cond[task[k].cond])
  /\ events' = [events EXCEPT ![t] = Tail(@)]
  /\ UNCHANGED <<env, condMap, handle>>

Queued(k) == \E i \in DOMAIN cond[task[k].cond].tasks : cond[task[k].cond].tasks[i] = k

\* Mutant: the entry in the queue is cleared, not erased.
FindAndFinishTaskLeavesHole(k) ==
  /\ Queued(k)
  /\ Settle(k)
  /\ task' = [task EXCEPT ![k] = None]
  /\ TryRemoveCondition(task[k].owner, task[k].cond,
       LET Clear(j) == IF j = k THEN None ELSE j
           tasks == cond[task[k].cond].tasks
       IN [cond[task[k].cond] EXCEPT !.tasks = [i \in DOMAIN tasks |-> Clear(tasks[i])]])

(* The queue without the first entry of task k: std::find, erase. *)
PositionOf(k, ks) ==
  CHOOSE i \in DOMAIN ks : ks[i] = k /\ \A j \in DOMAIN ks : ks[j] = k => i <= j
Without(k, ks) ==
  LET i == PositionOf(k, ks) IN SubSeq(ks, 1, i - 1) \o SubSeq(ks, i + 1, Len(ks))

(* FindAndFinishTask on a task that is still in the queue. *)
FindAndFinishTask(k) ==
  LET c == task[k].cond IN
  /\ Queued(k)
  /\ Settle(k)
  /\ task' = [task EXCEPT ![k] = None]
  /\ TryRemoveCondition(task[k].owner, c,
                        [cond[c] EXCEPT !.tasks = Without(k, @)])

\* Mutant: the timer finishes a task that has been notified, too.
TimerIgnoresNotification(k) ==
  /\ task[k] # None /\ task[k].timer
  /\ Running(task[k].owner)
  /\ Settle(k)
  /\ task' = [task EXCEPT ![k].timer = FALSE]
  /\ UNCHANGED <<env, cond, condMap, handle, events, removing>>

(* The timer of a waitFor goes off. *)
TimerCallback(k) ==
  /\ task[k] # None /\ task[k].timer
  /\ Running(task[k].owner)
  /\ \/ FindAndFinishTask(k)
     \/ /\ ~Queued(k)
        /\ task' = [task EXCEPT ![k].timer = FALSE]
        /\ UNCHANGED <<cond, promise, removing>>
  /\ UNCHANGED <<env, condMap, handle, events>>

(* An engine is destroyed: its cleanup hooks run, then what is still       *)
(* posted to it is never delivered.                                        *)
DestroyEngine(t) ==
  /\ t \in Mortal /\ Running(t)
  /\ env' = [env EXCEPT ![t] = "closing"]
  /\ UNCHANGED <<cond, condMap, handle, task, promise, events, removing>>

EnvCleanup(k) ==
  /\ task[k] # None /\ task[k].hook
  /\ env[task[k].owner] = "closing" /\ Idle(task[k].owner)
  /\ \/ FindAndFinishTask(k)
     \/ /\ ~Queued(k)
        /\ task' = [task EXCEPT ![k].hook = FALSE]
        /\ UNCHANGED <<cond, promise, removing>>
  /\ UNCHANGED <<env, condMap, handle, events>>

EngineDestroyed(t) ==
  /\ env[t] = "closing" /\ Idle(t)
  /\ \A k \in Tasks : task[k] # None /\ task[k].owner = t => ~task[k].hook
  /\ env' = [env EXCEPT ![t] = "dead"]
  /\ events' = [events EXCEPT ![t] = <<>>]
  /\ UNCHANGED <<cond, condMap, handle, task, promise, removing>>

Next ==
  \/ \E t \in Threads :
       \/ EraseName(t) \/ RunEvent(t)
       \/ DestroyEngine(t) \/ EngineDestroyed(t)
       \/ \E h \in Handles :
            \/ Destructor(t, h) \/ NotifyOne(t, h) \/ NotifyAll(t, h)
            \/ \E c \in Conds : \/ ConstructAnonymous(t, h, c)
                                \/ \E n \in Names : Request(t, h, n, c)
            \/ \E k \in Tasks, timer \in BOOLEAN : Wait(t, h, k, timer)
  \/ \E k \in Tasks : TimerCallback(k) \/ EnvCleanup(k)

Spec == Init /\ [][Next]_vars

(* Event loops deliver what is posted to them and fire their timers.       *)
Fairness ==
  /\ \A t \in Threads : WF_vars(EraseName(t)) /\ SF_vars(RunEvent(t))
  /\ \A k \in Tasks : SF_vars(TimerCallback(k))

FairSpec == Spec /\ Fairness

----------------------------------------------------------------------------
(* What must hold. *)

HandlesOf(c) == {h \in Handles : handle[h] = c}
TasksOf(c) == {k \in Tasks : task[k] # None /\ task[k].cond = c}

(* The count of a condition is the number of its handles and of its tasks, *)
(* those that wait and those that are notified but not yet finished; so no *)
(* condition is deleted that has one of them.                              *)
RefCountIsExact ==
  /\ \A c \in Conds : cond[c] # None =>
       cond[c].refCount = Cardinality(HandlesOf(c)) + Cardinality(TasksOf(c))
  /\ \A c \in Conds : cond[c] = None => HandlesOf(c) = {} /\ TasksOf(c) = {}

(* A task of a live engine waits in the queue of its condition or has been *)
(* notified, never both, never neither: no waiter is lost or woken twice.  *)
OccurrencesIn(s, k) == Cardinality({i \in DOMAIN s : s[i] = k})

OneFate ==
  \A k \in Tasks : task[k] # None =>
    LET queued == OccurrencesIn(cond[task[k].cond].tasks, k)
        posted == OccurrencesIn(events[task[k].owner], k)
    IN IF env[task[k].owner] = "alive" THEN queued + posted = 1 ELSE queued + posted <= 1

(* A task is destroyed only after its promise was settled, once, whichever *)
(* of notification, timeout and cleanup came first.                        *)
FinishedOnce ==
  \A k \in Tasks : promise[k] = (IF task[k] = None THEN "settled" ELSE "open")

(* A handle and the registry agree: what a name stands for is the          *)
(* condition that the handles requested by that name wrap.                 *)
RegisteredWhileReferenced ==
  \A h \in Handles : handle[h] # None /\ cond[handle[h]].name # Anonymous
    => condMap[cond[handle[h]].name] = handle[h]

(* A task that was notified, or that has a timer, is finished in the end.  *)
WaitersAreWoken ==
  \A k \in Tasks :
    task[k] # None /\ (task[k].timer \/ ~Queued(k))
      ~> task[k] = None \/ env[task[k].owner] # "alive"
=============================================================================
