------------------------- MODULE DeadlockDetectorMC -------------------------
(* A request times out while the locks are in some state; TLC tries every  *)
(* state of a few locks, one by one.                                       *)
EXTENDS DeadlockDetector

CONSTANTS Locks, MaxLen

VARIABLES locks, report

Init ==
  /\ locks \in [1..Locks -> LockInfo(MaxLen)]
  /\ \A l \in 1..Locks : locks[l].holders = <<>> => locks[l].waiters = <<>>
  /\ report = <<"none">>

DumpLocksInfoForThread ==
  /\ report = <<"none">>
  /\ report' = CheckDeadlocks(CollectLockDependencies(locks))
  /\ UNCHANGED locks

Spec == Init /\ [][DumpLocksInfoForThread]_<<locks, report>>

(* The deadlock warning is given only if some thread waits for itself      *)
(* through a chain of locks.                                               *)
WarnsOnlyOfDeadlocks ==
  report \notin {<<"none">>, <<>>} => Deadlocked(CollectLockDependencies(locks)) # {}
=============================================================================
