----------------------------- MODULE RunnersMC -----------------------------
(* Runners on small sets: a sequence runner, and asynchronous runners with *)
(* and without a limit on what waits.                                      *)
EXTENDS Runners

CONSTANTS t1, t2, w1, a, b, c

SmallConfigs ==
  {[kind |-> "sequence", runningCapacity |-> 1, waitingCapacity |-> 0],
   [kind |-> "async", runningCapacity |-> 1, waitingCapacity |-> 1],
   [kind |-> "async", runningCapacity |-> 2, waitingCapacity |-> 0]}

(* Every thread has a task, and one has two. *)
SmallOwners == {[x \in {a, b, c} |-> IF x = c THEN t2 ELSE t1]}
=============================================================================
