-------------------------------- MODULE Parts --------------------------------
(***************************************************************************)
(* The modules that ConcurrencyMC checks share no state: one of them is    *)
(* chosen in the beginning (part) and runs alone, on the variable that     *)
(* they have in common.                                                    *)
(***************************************************************************)
VARIABLES part, state
vars == <<part, state>>

(* A step of one of them. *)
Of(name, A) == part = name /\ A /\ UNCHANGED part
=============================================================================
