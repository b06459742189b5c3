------------------------------ MODULE SysTimer ------------------------------
(***************************************************************************)
(* setTimeout, setInterval and their clearing: timer/sys_timer.cpp.        *)
(*                                                                         *)
(* One table, under timeLock, holds the timers of all threads; a timer is  *)
(* started on the loop of the thread (env) that sets it, after the lock is *)
(* released.  The function of a timer runs on that loop without the lock   *)
(* and may itself set and clear timers.                                    *)
(***************************************************************************)
EXTENDS Naturals, FiniteSets, Functions

CONSTANTS
  Envs,
  Ids,       \* bound: values of the 32-bit timeCallbackId, which wraps around
  MaxTimers  \* bound: timers that are ever set

VARIABLE timers

Infos == 1..MaxTimers  \* TimerCallbackInfo objects, in the order of creation

(* table: timerTable, a partial function from ids to infos                 *)
(* info: what a TimerCallbackInfo is, [] before it is made; loop: its timer *)
(*   is "armed", "stopped" (has fired, or was not started), or closed with *)
(*   the deletion of the info                                              *)
(* calling: the info whose function runs on an env, 0 for none             *)
(* starting: the info that an env has still to start                       *)
(* fired: how often the function of a timer was called                     *)
TypeOK ==
  /\ timers.next \in 0..(Ids - 1) /\ timers.made \in 0..MaxTimers
  /\ DOMAIN timers.table \subseteq 0..(Ids - 1) /\ Range(timers.table) \subseteq Infos
  /\ \A i \in 1..timers.made : timers.info[i].env \in Envs
  /\ timers.loop \in [Infos -> {"none", "armed", "stopped", "closed"}]
  /\ timers.calling \in [Envs -> 0..MaxTimers] /\ timers.starting \in [Envs -> 0..MaxTimers]
  /\ timers.alive \subseteq Envs /\ timers.shadowed \subseteq Infos

Init ==
  timers = [next |-> 0, made |-> 0, table |-> << >>,
            info |-> [i \in Infos |-> [env |-> "none", id |-> 0, repeat |-> FALSE]],
            loop |-> [i \in Infos |-> "none"], calling |-> [e \in Envs |-> 0],
            starting |-> [e \in Envs |-> 0], fired |-> [i \in Infos |-> 0],
            alive |-> Envs, shadowed |-> {}]

----------------------------------------------------------------------------
Without(table, ids) == [id \in DOMAIN table \ ids |-> table[id]]
IsFree(e) == e \in timers.alive /\ timers.starting[e] = 0

(* The destructor of TimerCallbackInfo closes the timer.                   *)
Deleted(t, infos) == [t EXCEPT !.loop = [i \in Infos |-> IF i \in infos THEN "closed" ELSE @[i]]]

(* SetTimeoutInnerCore: the entry in the table, which a timer with the     *)
(* same number keeps ...                                                   *)
SetTimeout(e, repeat) ==
  /\ IsFree(e) /\ timers.made < MaxTimers
  /\ LET i == timers.made + 1
         id == timers.next
         taken == id \in DOMAIN timers.table
     IN timers' = [timers EXCEPT
          !.made = i, !.next = (@ + 1) % Ids, !.starting[e] = i,
          !.info[i] = [env |-> e, id |-> id, repeat |-> repeat], !.loop[i] = "stopped",
          !.table = IF taken THEN @ ELSE [n \in DOMAIN @ \cup {id} |-> IF n = id THEN i ELSE @[n]],
          !.shadowed = IF taken \/ \E f \in Envs : timers.calling[f] # 0 /\ timers.info[timers.calling[f]].id = id
                       THEN @ \cup {i} ELSE @]

(* ... and the start of the timer.                                         *)
StartTimer(e) ==
  /\ timers.starting[e] # 0
  /\ timers' = [timers EXCEPT !.starting[e] = 0, !.loop[timers.starting[e]] = "armed"]

\* Mutant: any thread may clear a timer.
ClearForeignTimer(e, id) ==
  /\ IsFree(e) /\ id \in DOMAIN timers.table
  /\ timers' = Deleted([timers EXCEPT !.table = Without(@, {id})], {timers.table[id]})

(* ClearTimer *)
ClearTimer(e, id) ==
  /\ IsFree(e) /\ id \in DOMAIN timers.table /\ timers.info[timers.table[id]].env = e
  /\ timers' = Deleted([timers EXCEPT !.table = Without(@, {id})], {timers.table[id]})

(* TimerCallback: libuv has stopped the timer, or armed it again.          *)
TimerCallback(i) ==
  LET e == timers.info[i].env IN
  /\ timers.loop[i] = "armed" /\ IsFree(e) /\ timers.calling[e] = 0
  /\ timers' = [timers EXCEPT !.calling[e] = i, !.fired[i] = @ + (IF @ < 2 THEN 1 ELSE 0)]

(* The function returns; it may have cleared its own timer.                *)
FunctionReturns(e, exception) ==
  /\ timers.calling[e] # 0 /\ timers.starting[e] = 0
  /\ LET i == timers.calling[e]
         id == timers.info[i].id
         returned == [timers EXCEPT !.calling[e] = 0]
     IN timers' = IF id \notin DOMAIN timers.table THEN returned
                  ELSE IF timers.info[i].repeat /\ ~exception THEN [returned EXCEPT !.loop[i] = "armed"]
                  ELSE Deleted([returned EXCEPT !.table = Without(@, {id})], {i})

(* ClearEnvironmentTimer *)
Cleared(e) ==
  LET ids == {id \in DOMAIN timers.table : timers.info[timers.table[id]].env = e} IN
  Deleted([timers EXCEPT !.table = Without(@, ids)], {timers.table[id] : id \in ids})

(* TerminateWorker: a worker closes, which the function of a timer may     *)
(* call for.  The engine is there for what is left of that function.       *)
TerminateWorker(e) == IsFree(e) /\ timers' = Cleared(e)

(* CleanUpHook, at the end of the engine; setTimeout then only counts. *)
CleanUpHook(e) ==
  /\ IsFree(e) /\ timers.calling[e] = 0
  /\ timers' = [Cleared(e) EXCEPT !.alive = @ \ {e}]

SetTimeOutFaker(e) ==
  /\ e \notin timers.alive
  /\ timers' = [timers EXCEPT !.next = (@ + 1) % Ids]

Next ==
  \E e \in Envs :
    \/ \E repeat \in BOOLEAN : SetTimeout(e, repeat)
    \/ StartTimer(e) \/ TerminateWorker(e) \/ CleanUpHook(e) \/ SetTimeOutFaker(e)
    \/ \E id \in 0..(Ids - 1) : ClearTimer(e, id)
    \/ \E i \in Infos : timers.info[i].env = e /\ TimerCallback(i)
    \/ \E exception \in BOOLEAN : FunctionReturns(e, exception)

----------------------------------------------------------------------------
(* What must hold, unless the counter has come round to a timer that is    *)
(* still there (shadowed): the new one is then in no table, or is taken    *)
(* for one whose function runs and has cleared it.                         *)

(* The timers that can fire are those in the table, each under its own     *)
(* number and on its own loop; so clearing a timer, by whichever thread    *)
(* that may, is the end of it, a timeout fires once, and the end of a      *)
(* thread leaves nothing of it.                                            *)
TimersAreCleared ==
  timers.shadowed = {} =>
    /\ \A i \in Infos :
         LET entry == timers.info[i] IN
         /\ timers.loop[i] = "armed" => entry.id \in DOMAIN timers.table /\ timers.table[entry.id] = i
         /\ ~entry.repeat => timers.fired[i] <= 1
         /\ timers.loop[i] = "closed" => i \notin Range(timers.table)
         /\ timers.loop[i] = "closed" /\ timers.fired[i] = 0 => timers.calling[entry.env] # i
    /\ \A id \in DOMAIN timers.table :
         timers.loop[timers.table[id]] # "closed" /\ timers.info[timers.table[id]].env \in timers.alive
=============================================================================
