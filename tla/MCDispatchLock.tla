--------------------------- MODULE MCDispatchLock ---------------------------
(* Four attempts of three processes: p1 makes two of them, and p3 runs on
   another host than p1 and p2. *)
EXTENDS DispatchLock, TLC

CONSTANTS a1, a2, a3, a4, p1, p2, p3, h1, h2

MCAttempt == {a1, a2, a3, a4}
MCProcess == {p1, p2, p3}

(* One host, two attempts of one process. *)
OneHostProc == (a1 :> p1) @@ (a2 :> p1) @@ (a3 :> p2) @@ (a4 :> p3)
OneHost     == [p \in MCProcess |-> h1]

(* p3 is remote: its claims are never reclaimed by the others, nor theirs by it. *)
TwoHosts    == (p1 :> h1) @@ (p2 :> h1) @@ (p3 :> h2)
=============================================================================
