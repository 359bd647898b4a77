----------------------------- MODULE TrueReceipt -----------------------------
(***************************************************************************)
(* What the answer to one call promises the caller, for a call that may    *)
(* act on a target whose answer gets lost or comes late: entwurf_v2, which *)
(* has a message taken, and entwurf_retire_call, which has a session ended.*)
(*                                                                         *)
(* A call acts at most once and answers at most once.  An answer that says *)
(* "untouched" is given only if the call has not acted, and then it never  *)
(* will; one that says "acted" is given only if it has.  Only an open      *)
(* answer leaves an act to come.  Dispatch, Retire and CcRetire are shown  *)
(* to implement this module.                                               *)
(***************************************************************************)
EXTENDS Naturals

CONSTANTS Untouched, \* the answers that say so
          Acted,     \* the answers that say that the target has been acted on
          Open       \* the answers that say neither

VARIABLES answer, \* the answer, "none" before it is given
          acts    \* how often the call has acted on its target

vars == <<answer, acts>>

Init == answer = "none" /\ acts = 0

(* The act: before the answer, or late, after an open one. *)
Act == acts = 0 /\ acts' = 1 /\ answer \notin Untouched /\ UNCHANGED answer

(* The answer, with the act that it may report in the same step. *)
Give(r) == /\ answer = "none" /\ answer' = r
           /\ UNCHANGED acts \/ (acts = 0 /\ acts' = 1)
           /\ r \in Untouched => acts' = 0
           /\ r \in Acted => acts' = 1

Next == Act \/ \E r \in Untouched \cup Acted \cup Open : Give(r)

Spec == Init /\ [][Next]_vars
=============================================================================
