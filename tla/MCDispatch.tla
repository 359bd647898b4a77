----------------------------- MODULE MCDispatch -----------------------------
(* Two dispatches that race for one target. *)
EXTENDS Dispatch

CONSTANTS d1, d2

MCDispatcher == {d1, d2}
=============================================================================
