---------------------------- MODULE MCDoorbells ----------------------------
(* Two messages, two inbox reads, each of the three doorbells. *)
EXTENDS Doorbells

CONSTANTS r1, r2
Messages == 1..2
Readers == {r1, r2}
=============================================================================
