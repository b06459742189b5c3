---------------------------- MODULE AsyncLockMC ----------------------------
(* Instances of AsyncLock for TLC. *)
EXTENDS AsyncLock, TLC

CONSTANTS t1, t2, r1, r2, r3

\* Addresses are interchangeable; so are threads that are equally mortal.
AddressSymmetry == Permutations(Requests)
=============================================================================
