------------------------------ MODULE MCRetire ------------------------------
(* Two requests at one garden id, for Retire. *)
EXTENDS Retire, TLC

CONSTANTS d1, d2, n1, n2

Two == {d1, d2}
Natives == {n1, n2}
Symmetry == Permutations(Two) \cup Permutations(Natives)
=============================================================================
