-------------------------- MODULE MCControlSocket --------------------------
(* Two processes, the first with two sessions, one of which the second
   resumes.  One address is nobody's. *)
EXTENDS ControlSocket, TLC

CONSTANTS p1, p2, a1, a2, a3

Procs == {p1, p2}
Three == {a1, a2, a3}
Together == (p1 :> {a1, a2}) @@ (p2 :> {a1})
=============================================================================
