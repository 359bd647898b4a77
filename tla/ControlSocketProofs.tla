------------------------ MODULE ControlSocketProofs ------------------------
(***************************************************************************)
(* The control-socket directory, for any number of processes and sessions. *)
(***************************************************************************)
EXTENDS ControlSocket, TLAPS

USE OwnsAssumption, NamesAssumption

(* Every variable of the directory and its processes keeps its type. *)
THEOREM TypeCorrect == Spec => []TypeOK
<1>1. Init => TypeOK
  BY DEF Init, TypeOK, Stage
<1>2. ASSUME TypeOK, [Next]_vars PROVE TypeOK'
  <2> USE <1>2 DEF TypeOK, Stage, Goto, Unlinked, sweep
  <2>1. ASSUME NEW p \in Proc, SessionStart(p) PROVE TypeOK'  BY <2>1 DEF SessionStart
  <2>2. ASSUME NEW p \in Proc, SessionShutdown(p) PROVE TypeOK'  BY <2>2 DEF SessionShutdown
  <2>3. ASSUME NEW p \in Proc, ReadDir(p) PROVE TypeOK'  BY <2>3 DEF ReadDir
  <2>4. ASSUME NEW p \in Proc, Probe(p) PROVE TypeOK'  BY <2>4 DEF Probe
  <2>5. ASSUME NEW p \in Proc, Unlink(p) PROVE TypeOK'  BY <2>5 DEF Unlink
  <2>6. ASSUME NEW p \in Proc, Swept(p) PROVE TypeOK'  BY <2>6 DEF Swept
  <2>7. ASSUME NEW p \in Proc, Stop(p) PROVE TypeOK'  BY <2>7 DEF Stop
  <2>8. ASSUME NEW p \in Proc, Closed(p) PROVE TypeOK'  BY <2>8 DEF Closed
  <2>9. ASSUME NEW p \in Proc, Remove(p) PROVE TypeOK'  BY <2>9 DEF Remove
  <2>10. ASSUME NEW p \in Proc, Listen(p) PROVE TypeOK'  BY <2>10 DEF Listen
  <2>11. ASSUME NEW p \in Proc, Crash(p) PROVE TypeOK'  BY <2>11 DEF Crash
  <2>12. CASE UNCHANGED vars  BY <2>12 DEF vars
  <2>13. QED  BY <2>1, <2>2, <2>3, <2>4, <2>5, <2>6, <2>7, <2>8, <2>9, <2>10, <2>11, <2>12
              DEF Next, Step
<1>3. QED  BY <1>1, <1>2, PTL DEF Spec

-----------------------------------------------------------------------------
(* Paths lead to the processes that serve them, stopped servers do not
   listen, and a sweep dooms only what was dead when it looked. *)
LEMMA BindingInvariant == Spec => [](Bindings /\ Doomed /\ Starting)
<1>1. Init => Bindings /\ Doomed /\ Starting
  BY DEF Init, Bindings, Doomed, Starting
<1>2. ASSUME TypeOK, Bindings, Doomed, Starting, [Next]_vars PROVE (Bindings /\ Doomed /\ Starting)'
  <2> USE <1>2 DEF TypeOK, Bindings, Doomed, Starting, Stage, Goto, Unlinked, sweep
  <2>1. ASSUME NEW p \in Proc, SessionStart(p) PROVE (Bindings /\ Doomed /\ Starting)'  BY <2>1 DEF SessionStart
  <2>2. ASSUME NEW p \in Proc, SessionShutdown(p) PROVE (Bindings /\ Doomed /\ Starting)'  BY <2>2 DEF SessionShutdown
  <2>3. ASSUME NEW p \in Proc, ReadDir(p) PROVE (Bindings /\ Doomed /\ Starting)'  BY <2>3 DEF ReadDir
  <2>4. ASSUME NEW p \in Proc, Probe(p) PROVE (Bindings /\ Doomed /\ Starting)'
    BY <2>4 DEF Probe, Liveness, shouldUnlinkOnGc
  <2>5. ASSUME NEW p \in Proc, Unlink(p) PROVE (Bindings /\ Doomed /\ Starting)'  BY <2>5 DEF Unlink
  <2>6. ASSUME NEW p \in Proc, Swept(p) PROVE (Bindings /\ Doomed /\ Starting)'  BY <2>6 DEF Swept
  <2>7. ASSUME NEW p \in Proc, Stop(p) PROVE (Bindings /\ Doomed /\ Starting)'  BY <2>7 DEF Stop
  <2>8. ASSUME NEW p \in Proc, Closed(p) PROVE (Bindings /\ Doomed /\ Starting)'  BY <2>8 DEF Closed
  <2>9. ASSUME NEW p \in Proc, Remove(p) PROVE (Bindings /\ Doomed /\ Starting)'  BY <2>9 DEF Remove
  <2>10. ASSUME NEW p \in Proc, Listen(p) PROVE (Bindings /\ Doomed /\ Starting)'  BY <2>10 DEF Listen
  <2>11. ASSUME NEW p \in Proc, Crash(p) PROVE (Bindings /\ Doomed /\ Starting)'  BY <2>11 DEF Crash
  <2>12. CASE UNCHANGED vars  BY <2>12 DEF vars
  <2>13. QED  BY <2>1, <2>2, <2>3, <2>4, <2>5, <2>6, <2>7, <2>8, <2>9, <2>10, <2>11, <2>12
              DEF Next, Step
<1>3. QED  BY <1>1, <1>2, TypeCorrect, PTL DEF Spec

(* A cleared path stays clear until its owner listens there, unless another
   process hosts a session with the same address. *)
LEMMA ClearedInvariant == Spec => []Cleared
<1>1. Init => Cleared
  BY DEF Init, Cleared
<1>2. ASSUME TypeOK, Bindings, Doomed, Starting, Cleared, [Next]_vars PROVE Cleared'
  <2> USE <1>2 DEF TypeOK, Bindings, Starting, Cleared, Shared, Stage, Goto, Unlinked, sweep
  <2>1. ASSUME NEW p \in Proc, SessionStart(p) PROVE Cleared'  BY <2>1 DEF SessionStart
  <2>2. ASSUME NEW p \in Proc, SessionShutdown(p) PROVE Cleared'  BY <2>2 DEF SessionShutdown
  <2>3. ASSUME NEW p \in Proc, ReadDir(p) PROVE Cleared'  BY <2>3 DEF ReadDir
  <2>4. ASSUME NEW p \in Proc, Probe(p) PROVE Cleared'  BY <2>4 DEF Probe
  <2>5. ASSUME NEW p \in Proc, Unlink(p) PROVE Cleared'  BY <2>5 DEF Unlink, Doomed
  <2>6. ASSUME NEW p \in Proc, Swept(p) PROVE Cleared'  BY <2>6 DEF Swept
  <2>7. ASSUME NEW p \in Proc, Stop(p) PROVE Cleared'  BY <2>7 DEF Stop
  <2>8. ASSUME NEW p \in Proc, Closed(p) PROVE Cleared'  BY <2>8 DEF Closed
  <2>9. ASSUME NEW p \in Proc, Remove(p) PROVE Cleared'  BY <2>9 DEF Remove
  <2>10. ASSUME NEW p \in Proc, Listen(p) PROVE Cleared'
    <3>1. \A q \in Proc : q # p /\ pc[q] = "listen" /\ want[q] = want[p] => Shared(q)
      BY <2>10 DEF Listen
    <3>2. QED  BY <2>10, <3>1 DEF Listen
  <2>11. ASSUME NEW p \in Proc, Crash(p) PROVE Cleared'  BY <2>11 DEF Crash
  <2>12. CASE UNCHANGED vars  BY <2>12 DEF vars
  <2>13. QED  BY <2>1, <2>2, <2>3, <2>4, <2>5, <2>6, <2>7, <2>8, <2>9, <2>10, <2>11, <2>12
              DEF Next, Step
<1>3. QED  BY <1>1, <1>2, TypeCorrect, BindingInvariant, PTL DEF Spec

(* The four parts together: the invariant the runs check. *)
THEOREM SocketInvariant == Spec => []ControlSocketInv
<1> QED  BY BindingInvariant, ClearedInvariant, PTL DEF ControlSocketInv

(* A listener keeps its path, but for an overtaken sweep or a rival. *)
THEOREM ListenersKeepTheirPath == Spec => OnlyYoungAreLost
<1> DEFINE Kept == \A p \in listening :
             Reached(p) /\ p \in listening' => Reached(p)' \/ LostToSweep(p) \/ LostToRival(p)
<1>1. ASSUME TypeOK, ControlSocketInv, [Next]_vars PROVE Kept \/ UNCHANGED vars
  <2> SUFFICES ASSUME NEW p \in listening, Reached(p), p \in listening', ~LostToRival(p),
                      ~LostToSweep(p), Next
               PROVE  Reached(p)'
    BY <1>1
  <2>1. /\ p \in Proc /\ at[p] \in Addr /\ file[at[p]] = p
        /\ \A q \in Proc \ {p} : at[q] # at[p] /\ want[q] # at[p]
        /\ \A q \in Proc : pc[q] = "unlink" => doomed[q] # at[p]
    BY <1>1 DEF TypeOK, ControlSocketInv, Bindings, Doomed, Reached, LostToRival, LostToSweep
  <2>2. PICK q \in Proc : SessionStart(q) \/ SessionShutdown(q) \/ Step(q) \/ Crash(q)
    BY DEF Next
  <2>3. file'[at[p]] = p
    <3> USE <1>1, <2>1 DEF TypeOK, Goto, Unlinked, sweep
    <3>1. CASE SessionStart(q)  BY <3>1 DEF SessionStart
    <3>2. CASE SessionShutdown(q)  BY <3>2 DEF SessionShutdown
    <3>3. CASE ReadDir(q)  BY <3>3 DEF ReadDir
    <3>4. CASE Probe(q)  BY <3>4 DEF Probe
    <3>5. CASE Unlink(q)  BY <3>5 DEF Unlink
    <3>6. CASE Swept(q)  BY <3>6 DEF Swept
    <3>7. CASE Stop(q)  BY <3>7 DEF Stop
    <3>8. CASE Closed(q)  BY <3>8 DEF Closed, ControlSocketInv, Starting
    <3>9. CASE Remove(q)  BY <3>9 DEF Remove, ControlSocketInv, Starting
    <3>10. CASE Listen(q)  BY <3>10 DEF Listen
    <3>11. CASE Crash(q)  BY <3>11 DEF Crash
    <3>12. QED  BY <2>2, <3>1, <3>2, <3>3, <3>4, <3>5, <3>6, <3>7, <3>8, <3>9, <3>10, <3>11 DEF Step
  <2>4. at'[p] = at[p]
    <3> USE <1>1, <2>1 DEF TypeOK
    <3>1. CASE q # p
      BY <2>2, <3>1 DEF Step, SessionStart, SessionShutdown, ReadDir, Probe, Unlink, Swept, Stop,
                        Closed, Remove, Listen, Crash
    <3>2. CASE q = p
      <4>1. ~Closed(p) /\ ~Remove(p) /\ ~Crash(p)
        BY DEF Closed, Remove, Crash, ControlSocketInv, Starting
      <4>2. QED
        BY <2>2, <3>2, <4>1 DEF Step, SessionStart, SessionShutdown, ReadDir, Probe, Unlink, Swept,
                                Stop, Listen
    <3>3. QED  BY <3>1, <3>2
  <2>5. QED  BY <2>3, <2>4 DEF Reached
<1>2. QED  BY <1>1, TypeCorrect, SocketInvariant, PTL DEF Spec, OnlyYoungAreLost

-----------------------------------------------------------------------------
(* No start fails on an occupied path unless it is a shared one. *)
THEOREM RoomToListen == Spec => []StartFindsRoom
<1>1. Init => StartFindsRoom
  BY DEF Init, StartFindsRoom
<1>2. ASSUME TypeOK, Cleared, StartFindsRoom, [Next]_vars PROVE StartFindsRoom'
  <2> USE <1>2 DEF TypeOK, Stage, StartFindsRoom, Cleared, Shared, Goto
  <2>1. CASE UNCHANGED vars  BY <2>1 DEF vars
  <2>2. CASE Next
    BY <2>2 DEF Next, Step, SessionStart, SessionShutdown, ReadDir, Probe, Unlink, Swept, Stop,
                Closed, Remove, Listen, Crash
  <2>3. QED  BY <2>1, <2>2
<1>3. QED  BY <1>1, <1>2, TypeCorrect, ClearedInvariant, PTL DEF Spec
=============================================================================
