------------------------ MODULE ConditionVariableMC ------------------------
(* Instances of ConditionVariable for TLC, with the assumption its theorems  *)
(* make about the names.                                                    *)
EXTENDS ConditionVariableProofs, TLC

CONSTANTS t1, t2, c1, c2, k1, k2, h1, h2

AddressSymmetry == Permutations(Conds) \cup Permutations(Tasks) \cup Permutations(Handles)
=============================================================================
