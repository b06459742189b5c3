---------------------------- MODULE ConcurrencyMC ----------------------------
(***************************************************************************)
(* The task pool, Worker, timers and child processes for model checking.   *)
(* The four modules of the task pool look at it each from another side.    *)
(***************************************************************************)
EXTENDS Naturals, TaskProofs, WorkerProofs

CONSTANTS MaxThreads, ExtraThreads, ShrinkStep, MaxTasks, MayFail  \* WorkerPool

CONSTANTS Signals, ExitCodes, Limits, PipeSize, ReadSize, MaxOut, MaxErr  \* ChildProcess

Pool == INSTANCE WorkerPoolProofs WITH pool <- state
Process == INSTANCE ChildProcess WITH child <- state, MaxWritten <- [out |-> MaxOut, err |-> MaxErr]

Init ==
  \/ part = "pool" /\ Pool!Init
  \/ part = "queues" /\ Queues!Init
  \/ part = "life" /\ Life!Init
  \/ part = "group" /\ Group!Init
  \/ part = "worker" /\ Worker!Init
  \/ part = "listeners" /\ Listener!Init
  \/ part = "timer" /\ Timer!Init
  \/ part = "child" /\ Process!Init

Next ==
  /\ UNCHANGED part
  /\ \/ part = "pool" /\ Pool!Next
     \/ part = "queues" /\ Queues!Next
     \/ part = "life" /\ Life!Next
     \/ part = "group" /\ Group!Next
     \/ part = "worker" /\ Worker!Next
     \/ part = "listeners" /\ Listener!Next
     \/ part = "timer" /\ Timer!Next
     \/ part = "child" /\ Process!Next

(* Pool!Fairness, while that part runs, and that of JsWorker while that    *)
(* one does: the loops of the two threads go on.  As only one part runs,   *)
(* one formula may speak of a step of each.                                *)
Fairness ==
  /\ WF_vars(Of("pool", Pool!NotifyEarly \/ Pool!NeedChecking))
  /\ WF_vars(Of("pool", Pool!MonitorStep) \/ Of("worker", Worker!ThreadStep))
  /\ WF_vars(Of("pool", Pool!NotifyShrink) \/ Of("worker", Worker!HostStep))
  /\ \A w \in Workers : WF_vars(Of("pool", Pool!DequeueTask(w))) /\ WF_vars(Of("pool", Pool!WorkerStep(w)))

Spec == Init /\ [][Next]_vars /\ Fairness

----------------------------------------------------------------------------
(* Every part keeps to its types. *)
TypeOK ==
  /\ part = "pool" => Pool!TypeOK
  /\ part = "queues" => Queues!TypeOK
  /\ part = "life" => Life!TypeOK
  /\ part = "group" => Group!TypeOK
  /\ part = "worker" => Worker!TypeOK
  /\ part = "listeners" => Listener!TypeOK
  /\ part = "timer" => Timer!TypeOK
  /\ part = "child" => Process!TypeOK

(* The pool never grows beyond its bound, a worker that is released has    *)
(* nothing to do and is found by nobody, those being created are counted.  *)
PoolIsSound == part = "pool" => Pool!BoundedPool /\ Pool!ReleasedWorkersAreFree /\ Pool!ExpandingIsExact

(* Every queued task is performed in the end, except for the lost wake-ups *)
(* that WorkerPool names.  A Worker that is terminated ends, unless it is  *)
(* deaf (JsWorker), and a host that deletes one or ends does not wait for  *)
(* ever for the lock that a thread keeps while it calls the host.          *)
NobodyWaitsForEver ==
  \/ part = "pool" /\ state.tasks # 0
  \/ part = "worker" /\ ~state.debug
       /\ (state.runner = "terminateing" \/ state.host \in Worker!Locking)
  ~>
  \/ part = "pool" /\ (state.tasks = 0 \/ Pool!Forgotten \/ Pool!Abandoned \/ Pool!Exhausted
                       \/ Pool!Failures # {})
  \/ part = "worker" /\ Worker!Settled

(* The counters agree with the queues, and a task of low priority has its  *)
(* turn after a bounded number of others.                                  *)
PrioritiesAreServed ==
  [][part = "queues" => Queues!LowHasItsTurn /\ (Queues!Consistent)']_vars

(* The promise of an execution, of a task or of a group, is settled once,  *)
(* and as long as it is open something is under way that will settle it.   *)
ExecutionsAreSettled ==
  /\ part = "life" => Life!SettledOnce /\ Life!Performed /\ Life!KeptAlive
  /\ part = "group" => Group!SettledOnce /\ Group!Counted

(* A Worker is deleted when nothing can reach it any more, is counted      *)
(* while its thread lives, and gets the answers to its own calls.          *)
WorkerIsSound ==
  part = "worker" => Worker!DeletedLast /\ Worker!CountedWhileAlive /\ Worker!AnswersMatch

(* The listeners of a Worker are called each once for an event, in order,  *)
(* whatever they add and remove, and no deleted one is left in a list.  A  *)
(* timer that was cleared, or whose thread has ended, does not fire.       *)
CallbacksAreSound ==
  /\ part = "listeners" => Listener!ListsAreSound /\ Listener!DispatchIsComplete /\ Listener!ReferencesAreExact
  /\ part = "timer" => Timer!TimersAreCleared

(* A child process is waited for, read from while it runs, and its output  *)
(* and its end are told as they were.                                      *)
ProcessIsSound ==
  part = "child" =>
    /\ Process!IsReaped /\ Process!StatusIsKept /\ Process!OutputIsInOrder
    /\ Process!OutputIsLimited /\ Process!ReadWhileItRuns
=============================================================================
