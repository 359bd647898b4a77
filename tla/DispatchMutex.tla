--------------------------- MODULE DispatchMutex ---------------------------
(***************************************************************************)
(* What the per-garden-id dispatch lock promises its callers, with the     *)
(* lock file, the reclaim marker and the nonces left out: one owner at a   *)
(* time, and an attempt that has given up or finished never owns again.    *)
(* DispatchLock is shown to implement this module.                         *)
(***************************************************************************)
CONSTANTS Attempt, \* the acquisitions made at one garden id
          None     \* no attempt

VARIABLES owner,   \* the attempt that owns the target, or None
          over     \* the attempts that have been refused, have released, or died

vars == <<owner, over>>

Init == owner = None /\ over = {}

(* The free target goes to an attempt that is still running. *)
Take(a) == /\ owner = None
           /\ a \notin over
           /\ owner' = a
           /\ UNCHANGED over

(* Attempts end: refused, released, or all of one process at its death. *)
Quit(S) == /\ S \cap over = {}
           /\ over' = over \cup S
           /\ owner' = IF owner \in S THEN None ELSE owner

Next == \/ \E a \in Attempt : Take(a)
        \/ \E S \in SUBSET Attempt : Quit(S)

Spec == Init /\ [][Next]_vars
=============================================================================
