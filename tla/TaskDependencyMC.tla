------------------------- MODULE TaskDependencyMC -------------------------
(* Instances of TaskDependency for TLC. *)
EXTENDS TaskDependency, TLC

CONSTANTS a, b, c, w1, w2

TaskSymmetry == Permutations({a, b, c}) \cup Permutations({w1, w2})
=============================================================================
