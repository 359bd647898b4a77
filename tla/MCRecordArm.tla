---------------------------- MODULE MCRecordArm ----------------------------
(* Two Claude processes and two native sessions, for RecordArm. *)
EXTENDS RecordArm, TLC

CONSTANTS p1, p2, n1, n2, g1, g2

Processes == {p1, p2}
Natives == {n1, n2}
Gardens == {g1, g2}
Symmetry == Permutations(Processes) \cup Permutations(Natives) \cup Permutations(Gardens)
=============================================================================
