--------------------------- MODULE MCOmpBootstrap ---------------------------
(* Two native sessions in up to three conversations, two tool calls. *)
EXTENDS OmpBootstrap

CONSTANTS s1, s2, k1, k2

TwoSessions == {s1, s2}
TwoCalls == {k1, k2}
=============================================================================
