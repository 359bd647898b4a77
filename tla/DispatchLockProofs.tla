------------------------- MODULE DispatchLockProofs -------------------------
(***************************************************************************)
(* The dispatch lock for any number of attempts, processes and hosts.      *)
(***************************************************************************)
EXTENDS DispatchLock, TLAPS

USE NoneAssumption, ProcAssumption

(* Every variable of the lock keeps its type. *)
THEOREM TypeCorrect == Spec => []TypeOK
<1>1. Init => TypeOK
  BY DEF Init, TypeOK, Stage, Verdict
<1>2. ASSUME TypeOK, [Next]_vars PROVE TypeOK'
  <2> USE <1>2 DEF TypeOK, Stage, InCall, Creating, Writing, Undoing, Marked, Verdict
  <2>1. ASSUME NEW a \in Attempt, Step(a) PROVE TypeOK'
    <3>1. CASE Enter(a)  BY <3>1 DEF Enter, Goto
    <3>2. CASE Create(a)  BY <3>2 DEF Create, Goto, Return
    <3>3. CASE Write(a)  BY <3>3 DEF Write, Return
    <3>4. CASE Undo(a)  BY <3>4 DEF Undo, Return
    <3>5. CASE Read(a)  BY <3>5 DEF Read, Goto, Return
    <3>6. CASE Probe(a)  BY <3>6 DEF Probe, Goto, Return
    <3>7. CASE Mark(a)  BY <3>7 DEF Mark, Goto, Return
    <3>8. CASE Reread(a)  BY <3>8 DEF Reread, Goto, Return
    <3>9. CASE UnlinkStale(a)  BY <3>9 DEF UnlinkStale, Goto
    <3>10. CASE Unmark(a)  BY <3>10 DEF Unmark, Goto
    <3>11. CASE ReleaseRead(a)  BY <3>11 DEF ReleaseRead, Goto, Finish
    <3>12. CASE ReleaseUnlink(a)  BY <3>12 DEF ReleaseUnlink, Finish
    <3>13. QED  BY <2>1, <3>1, <3>2, <3>3, <3>4, <3>5, <3>6, <3>7, <3>8, <3>9,
                   <3>10, <3>11, <3>12 DEF Step
  <2>2. ASSUME NEW a \in Attempt, WriteError(a) PROVE TypeOK'
    BY <2>2 DEF WriteError
  <2>3. ASSUME NEW a \in Attempt, CallError(a) PROVE TypeOK'
    BY <2>3 DEF CallError, Return, Finish, Goto
  <2>4. ASSUME NEW p \in Process, Crash(p) PROVE TypeOK'
    BY <2>4 DEF Crash
  <2>5. ASSUME NEW p \in Process, PidReuse(p) PROVE TypeOK'
    BY <2>5 DEF PidReuse
  <2>6. CASE HandClearLock  BY <2>6 DEF HandClearLock
  <2>7. CASE HandClearMarker  BY <2>7 DEF HandClearMarker
  <2>8. CASE UNCHANGED vars  BY <2>8 DEF vars
  <2>9. QED  BY <2>1, <2>2, <2>3, <2>4, <2>5, <2>6, <2>7, <2>8 DEF Next, Environment
<1>3. QED  BY <1>1, <1>2, PTL DEF Spec
-----------------------------------------------------------------------------
(* LockInv is inductive as long as no operator clears the claim of a dead
   holder by hand. *)
THEOREM LockInvariant ==
  ASSUME "claim" \notin HandClears
  PROVE  Spec => []LockInv
<1>1. Init => LockInv
  BY DEF Init, LockInv, OwnerOnDisk, MarkerIsMine, JudgedDead, DeadAreStopped, Owns,
         Marked, Writing, Undoing
<1>2. ASSUME TypeOK, LockInv, [Next]_vars PROVE LockInv'
  <2> USE <1>2 DEF TypeOK, LockInv, OwnerOnDisk, MarkerIsMine, JudgedDead, DeadAreStopped,
                   Owns, SameClaim, Creating, Writing, Undoing, Marked
  <2>1. ASSUME NEW a \in Attempt, Step(a) PROVE LockInv'
    <3>1. CASE Enter(a)  BY <3>1 DEF Enter, Goto, ThreadFree
    <3>2. CASE Create(a)  BY <3>2 DEF Create, Goto, Return
    <3>3. CASE Write(a)  BY <3>3 DEF Write, Return
    <3>4. CASE Undo(a)  BY <3>4 DEF Undo, Return
    <3>5. CASE Read(a)  BY <3>5 DEF Read, Goto, Return
    <3>6. CASE Probe(a)  BY <3>6, HostAssumption DEF Probe, Goto, Return, Reclaimable, Esrch
    <3>7. CASE Mark(a)  BY <3>7 DEF Mark, Goto, Return
    <3>8. CASE Reread(a)  BY <3>8 DEF Reread, Goto, Return
    <3>9. CASE UnlinkStale(a)  BY <3>9 DEF UnlinkStale, Goto
    <3>10. CASE Unmark(a)  BY <3>10 DEF Unmark, Goto
    <3>11. CASE ReleaseRead(a)  BY <3>11 DEF ReleaseRead, Goto, Finish
    <3>12. CASE ReleaseUnlink(a)  BY <3>12 DEF ReleaseUnlink, Finish
    <3>13. QED  BY <2>1, <3>1, <3>2, <3>3, <3>4, <3>5, <3>6, <3>7, <3>8, <3>9,
                   <3>10, <3>11, <3>12 DEF Step
  <2>2. ASSUME NEW a \in Attempt, WriteError(a) PROVE LockInv'
    BY <2>2 DEF WriteError
  <2>3. ASSUME NEW a \in Attempt, CallError(a) PROVE LockInv'
    BY <2>3 DEF CallError, Return, Finish, Goto
  <2>4. ASSUME NEW p \in Process, Crash(p) PROVE LockInv'
    BY <2>4 DEF Crash
  <2>5. ASSUME NEW p \in Process, PidReuse(p) PROVE LockInv'
    BY <2>5 DEF PidReuse
  <2>6. CASE HandClearLock  BY <2>6 DEF HandClearLock, Gone
  <2>7. CASE HandClearMarker  BY <2>7 DEF HandClearMarker, Gone
  <2>8. CASE UNCHANGED vars  BY <2>8 DEF vars
  <2>9. QED  BY <2>1, <2>2, <2>3, <2>4, <2>5, <2>6, <2>7, <2>8 DEF Next, Environment
<1>3. QED  BY <1>1, <1>2, TypeCorrect, PTL DEF Spec
-----------------------------------------------------------------------------
(* Two dispatchers never hold one garden id. *)
THEOREM Exclusion ==
  ASSUME "claim" \notin HandClears
  PROVE  Spec => []MutualExclusion
<1>1. LockInv => MutualExclusion
  BY DEF LockInv, OwnerOnDisk, MutualExclusion, Holds, Owns
<1>2. QED  BY <1>1, LockInvariant, PTL

(* A holder always finds its own complete claim on disk, so its release
   answers "released". *)
THEOREM HolderKeepsItsFile ==
  ASSUME "claim" \notin HandClears
  PROVE  Spec => []HolderIsOnDisk
<1>1. LockInv => HolderIsOnDisk
  BY DEF LockInv, OwnerOnDisk, HolderIsOnDisk, Holds, Owns, Writing, Undoing
<1>2. QED  BY <1>1, LockInvariant, PTL

(* Nobody but its own attempt removes the lock file of a living process, and
   no reclaimer removes an empty one. *)
THEOREM LivingClaimsStay ==
  ASSUME "claim" \notin HandClears
  PROVE  Spec => ForeignRemovalIsOfTheDead
<1> DEFINE Foreign == \A n \in Attempt :
       lockBy = n /\ lockBy' # n /\ pc'[n] = pc[n] =>
         /\ pid[proc[n]] # "alive"
         /\ lockFull \/ "torn" \in HandClears
<1>1. ASSUME TypeOK, LockInv, [Next]_vars PROVE Foreign
  <2> SUFFICES ASSUME NEW n \in Attempt, lockBy = n, lockBy' # n, pc'[n] = pc[n]
               PROVE  pid[proc[n]] # "alive" /\ (lockFull \/ "torn" \in HandClears)
    OBVIOUS
  <2> USE <1>1 DEF TypeOK, LockInv, OwnerOnDisk, JudgedDead, Owns, SameClaim, Writing, Undoing
  <2>1. ASSUME NEW a \in Attempt, Create(a) PROVE FALSE
    BY <2>1 DEF Create
  <2>2. ASSUME NEW a \in Attempt, Undo(a) PROVE FALSE
    BY <2>2 DEF Undo, Return, Marked
  <2>3. ASSUME NEW a \in Attempt, UnlinkStale(a)
        PROVE  pid[proc[n]] # "alive" /\ lockFull
    BY <2>3 DEF UnlinkStale, Goto
  <2>4. ASSUME NEW a \in Attempt, ReleaseUnlink(a) PROVE FALSE
    BY <2>4 DEF ReleaseUnlink, Finish
  <2>5. CASE HandClearLock
    BY <2>5 DEF HandClearLock, Gone
  <2>6. CASE UNCHANGED lockBy
    BY <2>6
  <2>7. QED
    BY <2>1, <2>2, <2>3, <2>4, <2>5, <2>6
    DEF Next, Environment, Step, Enter, Write, Read, Probe, Mark, Reread, Unmark,
        ReleaseRead, WriteError, CallError, Crash, PidReuse, HandClearMarker, vars
<1>2. TypeOK /\ LockInv /\ [Next]_vars => [Foreign]_vars
  BY <1>1
<1>3. QED
  BY <1>2, TypeCorrect, LockInvariant, PTL DEF Spec, ForeignRemovalIsOfTheDead

-----------------------------------------------------------------------------
(* What remains after everyone is done: the attempt that made the lock file
   either still owns it, or died, or told its caller that it failed; and the
   one that made the marker is still under it, or died, or could not unlink. *)
LockIsAccounted ==
  lockBy # None =>
    \/ Owns(lockBy) \/ pc[lockBy] = "crashed"
    \/ verdict[lockBy] \in {"threw", "stuck"} /\ pc[lockBy] \in {"unmark", "done"}
MarkerIsAccounted == marker # None => pc[marker] \in Marked \cup {"crashed"} \/ IOFaults

LEMMA StepAccounts ==
  ASSUME TypeOK, LockInv, LockIsAccounted, MarkerIsAccounted, [Next]_vars
  PROVE  LockIsAccounted' /\ MarkerIsAccounted'
<1> USE DEF TypeOK, LockInv, OwnerOnDisk, MarkerIsMine, LockIsAccounted, MarkerIsAccounted,
            Owns, Creating, Writing, Undoing, Marked
<1>1. ASSUME NEW a \in Attempt, Step(a) PROVE LockIsAccounted' /\ MarkerIsAccounted'
  <2>1. CASE Enter(a)  BY <2>1 DEF Enter, Goto
  <2>2. CASE Create(a)  BY <2>2 DEF Create, Goto, Return
  <2>3. CASE Write(a)  BY <2>3 DEF Write, Return
  <2>4. CASE Undo(a)  BY <2>4 DEF Undo, Return
  <2>5. CASE Read(a)  BY <2>5 DEF Read, Goto, Return
  <2>6. CASE Probe(a)  BY <2>6 DEF Probe, Goto, Return
  <2>7. CASE Mark(a)  BY <2>7 DEF Mark, Goto, Return
  <2>8. CASE Reread(a)  BY <2>8 DEF Reread, Goto, Return
  <2>9. CASE UnlinkStale(a)  BY <2>9 DEF UnlinkStale, Goto
  <2>10. CASE Unmark(a)  BY <2>10 DEF Unmark, Goto
  <2>11. CASE ReleaseRead(a)  BY <2>11 DEF ReleaseRead, Goto, Finish
  <2>12. CASE ReleaseUnlink(a)  BY <2>12 DEF ReleaseUnlink, Finish
  <2>13. QED  BY <1>1, <2>1, <2>2, <2>3, <2>4, <2>5, <2>6, <2>7, <2>8, <2>9,
                 <2>10, <2>11, <2>12 DEF Step
<1>2. ASSUME NEW a \in Attempt, WriteError(a) PROVE LockIsAccounted' /\ MarkerIsAccounted'
  BY <1>2 DEF WriteError
<1>3. ASSUME NEW a \in Attempt, CallError(a) PROVE LockIsAccounted' /\ MarkerIsAccounted'
  BY <1>3, IOFaultsAssumption DEF CallError, Return, Finish, Goto
<1>4. ASSUME NEW p \in Process, Crash(p) PROVE LockIsAccounted' /\ MarkerIsAccounted'
  BY <1>4 DEF Crash
<1>5. ASSUME NEW p \in Process, PidReuse(p) PROVE LockIsAccounted' /\ MarkerIsAccounted'
  BY <1>5 DEF PidReuse
<1>6. CASE HandClearLock  BY <1>6 DEF HandClearLock
<1>7. CASE HandClearMarker  BY <1>7 DEF HandClearMarker
<1>8. CASE UNCHANGED vars  BY <1>8 DEF vars
<1>9. QED  BY <1>1, <1>2, <1>3, <1>4, <1>5, <1>6, <1>7, <1>8 DEF Next, Environment

(* Normal completion leaks neither the lock nor the marker. *)
THEOREM LeftoversAreExplained ==
  ASSUME "claim" \notin HandClears
  PROVE  Spec => []NothingLeaks
<1>1. Init => LockIsAccounted /\ MarkerIsAccounted
  BY DEF Init, LockIsAccounted, MarkerIsAccounted
<1>2. LockIsAccounted /\ MarkerIsAccounted => NothingLeaks
  BY DEF LockIsAccounted, MarkerIsAccounted, NothingLeaks
<1>3. QED  BY <1>1, <1>2, StepAccounts, TypeCorrect, LockInvariant, PTL DEF Spec

-----------------------------------------------------------------------------
(* The lock file protocol implements the abstract mutex: every system call is
   a step of the mutex or a stutter. *)
LEMMA OwnerIsHolder ==
  ASSUME MutualExclusion, NEW a \in Attempt, Holds(a)
  PROVE  MutexOwner = a
  BY DEF MutualExclusion, MutexOwner

LEMMA NoOwner ==
  ASSUME \A a \in Attempt : ~Holds(a)
  PROVE  MutexOwner = None
  BY DEF MutexOwner

(* What a step may do to the standing of attempt b: the end is the end, a
   holder stops by ending, and whoever starts to hold moved alone. *)
Standing(b) ==
  /\ pc[b] \in {"done", "crashed"} => pc'[b] \in {"done", "crashed"}
  /\ pc[b] \in {"held", "peek"} => pc'[b] \in {"held", "peek", "done", "crashed"}
  /\ pc[b] \notin {"held", "peek"} /\ pc'[b] \in {"held", "peek"} =>
       /\ pc[b] \notin {"done", "crashed"}
       /\ \A c \in Attempt \ {b} : pc'[c] = pc[c]

LEMMA StepStanding ==
  ASSUME TypeOK, [Next]_vars, NEW b \in Attempt
  PROVE  Standing(b)
<1> USE DEF TypeOK, Standing, Creating, Writing, Undoing, Marked
<1>1. ASSUME NEW a \in Attempt, Step(a) PROVE Standing(b)
  <2>1. CASE Enter(a)  BY <2>1 DEF Enter, Goto
  <2>2. CASE Create(a)  BY <2>2 DEF Create, Goto, Return
  <2>3. CASE Write(a)  BY <2>3 DEF Write, Return
  <2>4. CASE Undo(a)  BY <2>4 DEF Undo, Return
  <2>5. CASE Read(a)  BY <2>5 DEF Read, Goto, Return
  <2>6. CASE Probe(a)  BY <2>6 DEF Probe, Goto, Return
  <2>7. CASE Mark(a)  BY <2>7 DEF Mark, Goto, Return
  <2>8. CASE Reread(a)  BY <2>8 DEF Reread, Goto, Return
  <2>9. CASE UnlinkStale(a)  BY <2>9 DEF UnlinkStale, Goto
  <2>10. CASE Unmark(a)  BY <2>10 DEF Unmark, Goto
  <2>11. CASE ReleaseRead(a)  BY <2>11 DEF ReleaseRead, Goto, Finish
  <2>12. CASE ReleaseUnlink(a)  BY <2>12 DEF ReleaseUnlink, Finish
  <2>13. QED  BY <1>1, <2>1, <2>2, <2>3, <2>4, <2>5, <2>6, <2>7, <2>8, <2>9,
                 <2>10, <2>11, <2>12 DEF Step
<1>2. ASSUME NEW a \in Attempt, WriteError(a) PROVE Standing(b)
  BY <1>2 DEF WriteError
<1>3. ASSUME NEW a \in Attempt, CallError(a) PROVE Standing(b)
  BY <1>3 DEF CallError, Return, Finish, Goto
<1>4. ASSUME NEW p \in Process, Crash(p) PROVE Standing(b)
  BY <1>4 DEF Crash
<1>5. CASE UNCHANGED pc
  BY <1>5
<1>6. QED
  BY <1>1, <1>2, <1>3, <1>4, <1>5
  DEF Next, Environment, PidReuse, HandClearLock, HandClearMarker, vars

(* The lock file protocol implements DispatchMutex. *)
THEOREM Implementation ==
  ASSUME "claim" \notin HandClears
  PROVE  Spec => ImplementsMutex
<1>1. Init => Mutex!Init
  BY DEF Init, Mutex!Init, MutexOwner, MutexOver, Holds
<1>2. ASSUME TypeOK, MutualExclusion, MutualExclusion', [Next]_vars
      PROVE  [Mutex!Next]_(Mutex!vars)
  <2>1. \A b \in Attempt : Standing(b)
    BY <1>2, StepStanding
  <2>2. ASSUME NEW a \in Attempt, ~Holds(a), Holds(a)'
        PROVE  Mutex!Take(a)
    <3>1. \A c \in Attempt \ {a} : pc'[c] = pc[c]
      BY <2>1, <2>2 DEF Standing, Holds
    <3>2. MutexOver' = MutexOver /\ a \notin MutexOver
      BY <2>1, <2>2, <3>1 DEF Standing, Holds, MutexOver
    <3>3. \A c \in Attempt : ~Holds(c)
      BY <1>2, <2>2, <3>1 DEF MutualExclusion, Holds
    <3>4. MutexOwner = None
      BY <3>3, NoOwner
    <3>5. MutexOwner' = a
      BY <1>2, <2>2 DEF MutualExclusion, MutexOwner
    <3>6. QED  BY <3>2, <3>4, <3>5 DEF Mutex!Take
  <2>3. ASSUME \A a \in Attempt : Holds(a)' => Holds(a)
        PROVE  Mutex!Quit(MutexOver' \ MutexOver)
    <3> DEFINE S == MutexOver' \ MutexOver
    <3>1. MutexOver' = MutexOver \cup S
      BY <2>1 DEF Standing, MutexOver
    <3>2. CASE \E a \in Attempt : Holds(a)
      <4>1. PICK a \in Attempt : Holds(a)
        BY <3>2
      <4>2. MutexOwner = a
        BY <1>2, <4>1, OwnerIsHolder
      <4>3. CASE Holds(a)'
        <5>1. MutexOwner' = a
          BY <1>2, <4>3 DEF MutualExclusion, MutexOwner
        <5>2. a \notin S
          BY <4>3 DEF MutexOver, Holds
        <5>3. QED  BY <3>1, <4>2, <5>1, <5>2 DEF Mutex!Quit
      <4>4. CASE ~Holds(a)'
        <5>1. a \in S
          BY <2>1, <4>1, <4>4 DEF Standing, MutexOver, Holds
        <5>2. \A c \in Attempt : ~Holds(c)'
          BY <1>2, <2>3, <4>1, <4>4 DEF MutualExclusion
        <5>3. MutexOwner' = None
          BY <5>2 DEF MutexOwner
        <5>4. QED  BY <3>1, <4>2, <5>1, <5>3 DEF Mutex!Quit
      <4>5. QED  BY <4>3, <4>4
    <3>3. CASE \A a \in Attempt : ~Holds(a)
      <4>1. MutexOwner = None /\ MutexOwner' = None
        BY <2>3, <3>3 DEF MutexOwner
      <4>2. None \notin S
        BY DEF MutexOver
      <4>3. QED  BY <3>1, <4>1, <4>2 DEF Mutex!Quit
    <3>4. QED  BY <3>2, <3>3
  <2>4. MutexOver' \ MutexOver \in SUBSET Attempt
    BY DEF MutexOver
  <2>5. QED  BY <2>2, <2>3, <2>4 DEF Mutex!Next
<1>3. QED
  BY <1>1, <1>2, TypeCorrect, Exclusion, PTL DEF Spec, ImplementsMutex, Mutex!Spec
=============================================================================
