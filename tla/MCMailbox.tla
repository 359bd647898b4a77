----------------------------- MODULE MCMailbox ------------------------------
(* Two messages, two drains, two doorbells: each pair can race. *)
EXTENDS Mailbox, TLC

CONSTANTS r1, r2, d1, d2

TwoMessages == 1..2
TwoReaders == {r1, r2}
TwoDoorbells == {d1, d2}
Symmetry == Permutations(TwoReaders) \cup Permutations(TwoDoorbells)
=============================================================================
