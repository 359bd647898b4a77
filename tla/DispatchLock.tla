---------------------------- MODULE DispatchLock ----------------------------
(***************************************************************************)
(* The per-garden-id lock file of entwurf_v2                               *)
(* (src/pi-extensions/lib/entwurf-v2-lock.ts): acquireLock, its reclaim of *)
(* a dead holder under the `<gid>.lock.reclaim` marker, and releaseLock.   *)
(* One step is one system call on the lock or marker path, so every        *)
(* interleaving of processes between system calls is explored.  One        *)
(* attempt is one call of acquireLock with its release: its random nonce   *)
(* is the attempt itself.                                                  *)
(***************************************************************************)
EXTENDS FiniteSets

CONSTANTS
  Attempt,     \* calls of acquireLock for the one garden id
  Process,     \* the processes that make them; a pid
  None,        \* no attempt
  proc,        \* proc[a]: the process of attempt a
  host,        \* host[p]: the os.hostname() of process p
  machine,     \* machine[p]: the machine p runs on, where kill(p, 0) can see it
  IOFaults,    \* TRUE when a system call may fail for reasons of its own
  HandClears   \* leftovers an operator removes by hand: "torn", "claim", "marker"

ASSUME NoneAssumption == None \notin Attempt
ASSUME ProcAssumption == proc \in [Attempt -> Process]
(* ~/.pi is not shared across machines that have the same hostname. *)
ASSUME HostAssumption ==
  \A p, q \in Process : host[p] = host[q] => machine[p] = machine[q]
ASSUME IOFaultsAssumption == IOFaults \in BOOLEAN
ASSUME HandClearsAssumption == HandClears \subseteq {"torn", "claim", "marker"}

VARIABLES
  pc,          \* pc[a]: the system call attempt a makes next
  verdict,     \* verdict[a]: what acquireLock, then releaseLock, returned
  seen,        \* seen[a]: the holder a read from the lock file
  lockBy,      \* the attempt whose create made the lock file, None if absent
  lockFull,    \* FALSE while the lock file is still empty
  marker,      \* the attempt that made the reclaim marker, None if absent
  pid          \* pid[p]: "alive", "dead", or "reused" by a stranger

vars == <<pc, verdict, seen, lockBy, lockFull, marker, pid>>

Creating  == {"create", "retry", "recreate"}
Writing   == {"write", "rewrite"}
Undoing   == {"undo", "reundo"}
Marked    == {"reread", "unlink", "recreate", "rewrite", "reundo", "unmark"}
InCall    == Creating \cup Writing \cup Undoing \cup Marked
                \cup {"read", "probe", "mark", "peek"}
Stage     == InCall \cup {"idle", "held", "done", "crashed"}
Verdict   == {"pending", "ok", "conflict", "threw",
              "released", "not-owned", "absent", "stuck"}

TypeOK == /\ pc \in [Attempt -> Stage]
          /\ verdict \in [Attempt -> Verdict]
          /\ seen \in [Attempt -> Attempt \cup {None}]
          /\ lockBy \in Attempt \cup {None}
          /\ lockFull \in BOOLEAN
          /\ marker \in Attempt \cup {None}
          /\ pid \in [Process -> {"alive", "dead", "reused"}]

Init == /\ pc = [a \in Attempt |-> "idle"]
        /\ verdict = [a \in Attempt |-> "pending"]
        /\ seen = [a \in Attempt |-> None]
        /\ lockBy = None /\ lockFull = FALSE /\ marker = None
        /\ pid = [p \in Process |-> "alive"]

-----------------------------------------------------------------------------
Goto(a, from, to) == pc[a] = from /\ pc' = [pc EXCEPT ![a] = to]

(* acquireLock returns r: through `finally` when a holds the marker. *)
Return(a, r) == /\ pc' = [pc EXCEPT ![a] = IF pc[a] \in Marked THEN "unmark" ELSE
                                           IF r = "ok" THEN "held" ELSE "done"]
                /\ verdict' = [verdict EXCEPT ![a] = r]

(* Both calls are synchronous: one process is inside one of them at a time. *)
ThreadFree(a) == \A b \in Attempt : proc[b] = proc[a] => pc[b] \notin InCall

(* mkdir, and a fresh nonce. *)
Enter(a) == /\ Goto(a, "idle", "create")
            /\ ThreadFree(a)
            /\ UNCHANGED <<verdict, seen, lockBy, lockFull, marker, pid>>

(* openSync(lockPath, "wx") of tryCreate, at its three call sites. *)
Create(a) ==
  /\ pc[a] \in Creating
  /\ IF lockBy = None
     THEN /\ lockBy' = a /\ lockFull' = FALSE
          /\ pc' = [pc EXCEPT ![a] = IF pc[a] = "recreate" THEN "rewrite" ELSE "write"]
          /\ UNCHANGED verdict
     ELSE /\ IF pc[a] = "create"
             THEN Goto(a, "create", "read") /\ UNCHANGED verdict
             ELSE Return(a, "conflict")
          /\ UNCHANGED <<lockBy, lockFull>>
  /\ UNCHANGED <<seen, marker, pid>>

(* writeSync and closeSync of the claim, into the file a opened: if that file
   was unlinked meanwhile, what is at the path now does not change. *)
Write(a) == /\ pc[a] \in Writing
            /\ lockFull' = (lockFull \/ lockBy = a)
            /\ Return(a, "ok")
            /\ UNCHANGED <<seen, lockBy, marker, pid>>

(* The claim could not be written: unlink the file just made, then throw. *)
Undo(a) == /\ pc[a] \in Undoing
           /\ lockBy' = None
           /\ lockFull' = FALSE
           /\ Return(a, "threw")
           /\ UNCHANGED <<seen, marker, pid>>

(* The lock file exists: read its claim.  An empty file parses to null. *)
Read(a) ==
  /\ pc[a] = "read"
  /\ \/ lockBy = None /\ Goto(a, "read", "retry") /\ UNCHANGED <<verdict, seen>>
     \/ /\ lockBy # None /\ ~lockFull
        /\ Return(a, "conflict") /\ UNCHANGED seen
     \/ /\ lockBy # None /\ lockFull
        /\ Goto(a, "read", "probe")
        /\ seen' = [seen EXCEPT ![a] = lockBy]
        /\ UNCHANGED verdict
  /\ UNCHANGED <<lockBy, lockFull, marker, pid>>

(* kill(pid, 0) finds a pid of another machine as little as a dead one. *)
Esrch(a, p) == pid[p] = "dead" \/ machine[p] # machine[proc[a]]
(* Mutant: a claim of the same host is stale whoever holds it. *)
ReclaimByHost(a, n) == host[proc[n]] = host[proc[a]]

Reclaimable(a, n) == host[proc[n]] = host[proc[a]] /\ Esrch(a, proc[n])

Probe(a) ==
  /\ pc[a] = "probe"
  /\ IF Reclaimable(a, seen[a])
     THEN Goto(a, "probe", "mark") /\ UNCHANGED verdict
     ELSE Return(a, "conflict")
  /\ UNCHANGED <<seen, lockBy, lockFull, marker, pid>>

(* Mutant: the marker is opened without exclusive create. *)
MarkShared(a) == /\ Goto(a, "mark", "reread")
                 /\ marker' = a
                 /\ UNCHANGED <<verdict, seen, lockBy, lockFull, pid>>

(* openSync of the reclaim marker: another reclaimer, or its leftover, wins. *)
Mark(a) ==
  /\ pc[a] = "mark"
  /\ IF marker = None
     THEN Goto(a, "mark", "reread") /\ marker' = a /\ UNCHANGED verdict
     ELSE Return(a, "conflict") /\ UNCHANGED marker
  /\ UNCHANGED <<seen, lockBy, lockFull, pid>>

(* Under the marker: still the claim that was judged dead? *)
SameClaim(a) == lockBy = seen[a] /\ lockFull

(* Mutant: a re-read that gives up on the claim it judged. *)
RereadInverted(a) == /\ pc[a] = "reread" /\ Return(a, "conflict")
                     /\ UNCHANGED <<seen, lockBy, lockFull, marker, pid>>

Reread(a) ==
  /\ pc[a] = "reread"
  /\ IF SameClaim(a)
     THEN Goto(a, "reread", "unlink") /\ UNCHANGED verdict
     ELSE Return(a, "conflict")
  /\ UNCHANGED <<seen, lockBy, lockFull, marker, pid>>

(* unlinkSync(lockPath): by path, whatever file is there now. *)
UnlinkStale(a) == /\ Goto(a, "unlink", "recreate")
                  /\ lockBy' = None
                  /\ lockFull' = FALSE
                  /\ UNCHANGED <<verdict, seen, marker, pid>>

(* Mutant: the marker is removed on success only. *)
UnmarkOnSuccess(a) ==
  /\ Goto(a, "unmark", IF verdict[a] = "ok" THEN "held" ELSE "done")
  /\ marker' = IF verdict[a] = "ok" THEN None ELSE marker
  /\ UNCHANGED <<verdict, seen, lockBy, lockFull, pid>>

(* The `finally`: unlink the marker, and only now return. *)
Unmark(a) == /\ Goto(a, "unmark", IF verdict[a] = "ok" THEN "held" ELSE "done")
             /\ marker' = None
             /\ UNCHANGED <<verdict, seen, lockBy, lockFull, pid>>

Finish(a, r) == /\ pc' = [pc EXCEPT ![a] = "done"]
                /\ verdict' = [verdict EXCEPT ![a] = r]

(* releaseLock reads the file and compares the nonce ... *)
ReleaseRead(a) ==
  /\ pc[a] = "held"
  /\ ThreadFree(a)
  /\ \/ lockBy = None /\ Finish(a, "absent")
     \/ lockBy # None /\ (lockBy # a \/ ~lockFull) /\ Finish(a, "not-owned")
     \/ lockBy = a /\ lockFull /\ Goto(a, "held", "peek") /\ UNCHANGED verdict
  /\ UNCHANGED <<seen, lockBy, lockFull, marker, pid>>

(* ... and then unlinks by path. *)
ReleaseUnlink(a) == /\ pc[a] = "peek"
                    /\ lockBy' = None
                    /\ lockFull' = FALSE
                    /\ Finish(a, IF lockBy = None THEN "absent" ELSE "released")
                    /\ UNCHANGED <<seen, marker, pid>>

Step(a) == \/ Enter(a) \/ Create(a) \/ Write(a) \/ Undo(a) \/ Read(a) \/ Probe(a)
           \/ Mark(a) \/ Reread(a) \/ UnlinkStale(a) \/ Unmark(a)
           \/ ReleaseRead(a) \/ ReleaseUnlink(a)

-----------------------------------------------------------------------------
(* A write or close that throws may have left the claim complete or not. *)
WriteError(a) == /\ IOFaults /\ pc[a] \in Writing
                 /\ lockFull' \in IF lockBy = a THEN BOOLEAN ELSE {lockFull}
                 /\ pc' = [pc EXCEPT ![a] = IF pc[a] = "write" THEN "undo" ELSE "reundo"]
                 /\ UNCHANGED <<verdict, seen, lockBy, marker, pid>>

(* Any other call that throws, with nothing changed on disk. *)
CallError(a) ==
  /\ IOFaults
  /\ \/ pc[a] \in {"create", "read", "mark", "unlink"} \cup Undoing /\ Return(a, "threw")
     \/ pc[a] \in {"retry", "reread", "recreate"} /\ Return(a, "conflict")
     \/ Goto(a, "unmark", IF verdict[a] = "ok" THEN "held" ELSE "done") /\ UNCHANGED verdict
     \/ pc[a] = "held" /\ ThreadFree(a) /\ Finish(a, "stuck")
     \/ pc[a] = "peek" /\ Finish(a, "stuck")
  /\ UNCHANGED <<seen, lockBy, lockFull, marker, pid>>

(* A process dies with everything it was doing. *)
Crash(p) == /\ pid[p] = "alive"
            /\ pid' = [pid EXCEPT ![p] = "dead"]
            /\ pc' = [a \in Attempt |-> IF proc[a] = p THEN "crashed" ELSE pc[a]]
            /\ UNCHANGED <<verdict, seen, lockBy, lockFull, marker>>

(* The pid is given to a stranger: kill answers alive, or EPERM. *)
PidReuse(p) == /\ pid[p] = "dead"
               /\ pid' = [pid EXCEPT ![p] = "reused"]
               /\ UNCHANGED <<pc, verdict, seen, lockBy, lockFull, marker>>

(* The operator follows the conflict texts: only once the process is gone. *)
Gone(a) == a # None /\ pid[proc[a]] # "alive"

HandClearLock == /\ Gone(lockBy)
                 /\ (IF lockFull THEN "claim" ELSE "torn") \in HandClears
                 /\ lockBy' = None
                 /\ lockFull' = FALSE
                 /\ UNCHANGED <<pc, verdict, seen, marker, pid>>

HandClearMarker == /\ Gone(marker) /\ "marker" \in HandClears
                   /\ marker' = None
                   /\ UNCHANGED <<pc, verdict, seen, lockBy, lockFull, pid>>

Environment == \/ \E p \in Process : Crash(p) \/ PidReuse(p)
               \/ HandClearLock \/ HandClearMarker

Next == \/ \E a \in Attempt : Step(a) \/ WriteError(a) \/ CallError(a)
        \/ Environment

Spec == Init /\ [][Next]_vars

(* An attempt, once called, runs: every call returns and every holder's caller
   releases in a finally.  Nothing makes an attempt start, a process die or an
   operator act. *)
FairSpec == Spec /\ \A a \in Attempt : WF_vars(Step(a) /\ pc[a] # "idle")

-----------------------------------------------------------------------------
(* a made the lock file and has not given it back. *)
Owns(a) == \/ pc[a] \in Writing \cup Undoing \cup {"held", "peek"}
           \/ pc[a] = "unmark" /\ verdict[a] = "ok"

Holds(a) == pc[a] \in {"held", "peek"}

(* Two dispatchers never hold the same garden id (the lock's whole purpose),
   through any race of creators, reclaimers and releases and any crash. *)
MutualExclusion == \A a, b \in Attempt : Holds(a) /\ Holds(b) => a = b

(* The file on disk is the holder's own complete claim for as long as it
   holds: its release can only answer "released", never delete a successor's
   claim or find its own taken away. *)
HolderIsOnDisk == \A a \in Attempt : Holds(a) => lockBy = a /\ lockFull

(* A claim of a living process leaves the disk by its own hand only, and an
   empty file is never reclaimed: at most an operator clears a dead one's. *)
ForeignRemovalIsOfTheDead ==
  [][\A n \in Attempt :
       lockBy = n /\ lockBy' # n /\ pc'[n] = pc[n] =>
         /\ pid[proc[n]] # "alive"
         /\ lockFull \/ "torn" \in HandClears]_vars

(* What stays on disk after everyone is done is explained by a crash or a
   failed call: normal completion leaks neither the lock nor the marker. *)
NothingLeaks ==
  /\ lockBy # None => Owns(lockBy) \/ pc[lockBy] = "crashed" \/ verdict[lockBy] \in {"threw", "stuck"}
  /\ marker # None => pc[marker] \in Marked \cup {"crashed"} \/ IOFaults

(* A dead holder's claim does not outlive the next caller on its machine,
   unless that caller dies too, the pid is reused, or a reclaimer's death has
   left its marker. *)
Stale(a, n) == lockBy = n /\ lockFull /\ Reclaimable(a, n)

StaleIsReclaimed ==
  \A a \in Attempt : \A n \in Attempt \ {a} :
    Stale(a, n) /\ pc[a] = "create" ~>
      lockBy # n \/ pc[a] = "crashed" \/ Gone(marker) \/ pid[proc[n]] = "reused"

(* The strengthening under which mutual exclusion is inductive. *)
OwnerOnDisk == \A a \in Attempt :
  /\ Owns(a) => lockBy = a
  /\ Owns(a) /\ pc[a] \notin Writing \cup Undoing => lockFull
MarkerIsMine == \A a \in Attempt : pc[a] \in Marked => marker = a
JudgedDead == \A a \in Attempt :
  /\ pc[a] \in {"probe", "mark", "reread", "unlink"} => seen[a] # None
  /\ pc[a] \in {"mark", "reread", "unlink"} => pid[proc[seen[a]]] # "alive"
  /\ pc[a] = "unlink" => SameClaim(a)
DeadAreStopped == \A a \in Attempt : pid[proc[a]] # "alive" => pc[a] = "crashed"

(* A reclaimer about to unlink still sees the dead claim it judged, the maker
   of the marker is the only one past it, and whoever got through create finds
   its own file at the path: the comments of acquireLock, as one inductive
   invariant.  It needs operators who do not clear a claim by hand. *)
LockInv == OwnerOnDisk /\ MarkerIsMine /\ JudgedDead /\ DeadAreStopped

(* The lock implements the abstract mutex: the holder is the owner. *)
MutexOwner == IF \E a \in Attempt : Holds(a) THEN CHOOSE a \in Attempt : Holds(a) ELSE None
MutexOver  == {a \in Attempt : pc[a] \in {"done", "crashed"}}

Mutex == INSTANCE DispatchMutex WITH owner <- MutexOwner, over <- MutexOver

ImplementsMutex == Mutex!Spec
=============================================================================
