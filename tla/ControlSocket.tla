---------------------------- MODULE ControlSocket ----------------------------
(***************************************************************************)
(* The control-socket directory that pi processes share                    *)
(* (entwurf-control.ts, control-retire.ts, socket-probe.ts).  A process    *)
(* that starts a session at an address first sweeps the whole directory    *)
(* for sockets nobody listens on, then stops the listener it had, clears   *)
(* its own path and listens there.  Every await is a step, and processes   *)
(* can be killed between any two, leaving their socket file behind.        *)
(*                                                                         *)
(* A path names the listener that created the file at it.  One process     *)
(* starts and stops its sessions one after the other.                      *)
(***************************************************************************)
EXTENDS Naturals

CONSTANTS
  Proc,        \* the pi processes
  Addr,        \* the garden addresses, one socket path each
  Owns,        \* Owns[p]: the addresses of the sessions p hosts
  None,        \* no file, no address
  Stale        \* a socket file whose listener is gone

ASSUME OwnsAssumption == Owns \in [Proc -> SUBSET Addr]
ASSUME NamesAssumption == None # Stale /\ {None, Stale} \cap Proc = {} /\ None \notin Addr

VARIABLES
  file,        \* file[a]: the listener whose file is at path a
  pc,          \* pc[p]: the await p is at
  listening,   \* the processes whose server accepts connections
  at,          \* at[p]: state.socketPath
  want,        \* want[p]: the address of the session being started, or None
  todo,        \* todo[p]: directory entries p has yet to probe
  doomed,      \* doomed[p]: the entry p has found dead and will unlink
  young        \* young[p]: the processes that have listened since that probe

vars == <<file, pc, listening, at, want, todo, doomed, young>>

Stage == {"down", "readdir", "sweep", "unlink", "stop", "closed", "remove", "listen", "up", "failed"}

TypeOK == /\ file \in [Addr -> Proc \cup {None, Stale}]
          /\ pc \in [Proc -> Stage]
          /\ listening \subseteq Proc
          /\ at \in [Proc -> Addr \cup {None}]
          /\ want \in [Proc -> Addr \cup {None}]
          /\ todo \in [Proc -> SUBSET Addr]
          /\ doomed \in [Proc -> Addr \cup {None}]
          /\ young \in [Proc -> SUBSET Proc]

Init == /\ file \in [Addr -> {None, Stale}]
        /\ pc = [p \in Proc |-> "down"]
        /\ listening = {}
        /\ at = [p \in Proc |-> None] /\ want = [p \in Proc |-> None]
        /\ todo = [p \in Proc |-> {}] /\ doomed = [p \in Proc |-> None]
        /\ young = [p \in Proc |-> {}]

-----------------------------------------------------------------------------
Goto(p, to) == pc' = [pc EXCEPT ![p] = to]
Unlinked(a) == file' = [file EXCEPT ![a] = None]
sweep == <<todo, doomed, young>>

(* session_start.  A session at the path p already serves is only rebound:
   the directory is not touched. *)
SessionStart(p) ==
  /\ pc[p] \in {"down", "up", "failed"}
  /\ \E a \in Owns[p] :
       /\ ~(p \in listening /\ at[p] = a)
       /\ want' = [want EXCEPT ![p] = a]
  /\ Goto(p, "readdir")
  /\ UNCHANGED <<file, listening, at, sweep>>

ReadDir(p) ==
  /\ pc[p] = "readdir" /\ Goto(p, "sweep")
  /\ todo' = [todo EXCEPT ![p] = {a \in Addr : file[a] # None}]
  /\ UNCHANGED <<file, listening, at, want, doomed, young>>

(* probeSocketLiveness: only a refused or absent path is dead; a timeout or
   any other error is indeterminate, whatever is there. *)
Liveness(a) == {"indeterminate"} \cup {IF file[a] \in Proc THEN "alive" ELSE "dead"}

shouldUnlinkOnGcEager(liveness) == liveness # "alive"       \* mutant: the F3 bug

shouldUnlinkOnGc(liveness) == liveness = "dead"

Probe(p) ==
  /\ pc[p] = "sweep"
  /\ \E a \in todo[p] : \E liveness \in Liveness(a) :
       /\ todo' = [todo EXCEPT ![p] = @ \ {a}]
       /\ IF shouldUnlinkOnGc(liveness)
          THEN /\ doomed' = [doomed EXCEPT ![p] = a] /\ young' = [young EXCEPT ![p] = {}]
               /\ Goto(p, "unlink")
          ELSE UNCHANGED <<doomed, young, pc>>
  /\ UNCHANGED <<file, listening, at, want>>

Unlink(p) ==
  /\ pc[p] = "unlink" /\ Goto(p, "sweep")
  /\ Unlinked(doomed[p])
  /\ UNCHANGED <<listening, at, want, sweep>>

Swept(p) ==
  /\ pc[p] = "sweep" /\ todo[p] = {} /\ Goto(p, "stop")
  /\ UNCHANGED <<file, listening, at, want, sweep>>

-----------------------------------------------------------------------------
(* session_shutdown. *)
SessionShutdown(p) ==
  /\ pc[p] \in {"up", "failed"} /\ Goto(p, "stop")
  /\ want' = [want EXCEPT ![p] = None]
  /\ UNCHANGED <<file, listening, at, sweep>>

(* stopControlServer: closing the server removes the path at once (libuv);
   the accepted connections may hold the stop back for 250 ms ... *)
Stop(p) ==
  /\ pc[p] = "stop" /\ Goto(p, "closed")
  /\ listening' = listening \ {p}
  /\ IF p \in listening THEN Unlinked(at[p]) ELSE UNCHANGED file
  /\ UNCHANGED <<at, want, sweep>>

(* ... and then the path is removed once more, whatever is there. *)
Closed(p) ==
  /\ pc[p] = "closed" /\ Goto(p, IF want[p] = None THEN "down" ELSE "remove")
  /\ IF at[p] = None THEN UNCHANGED file ELSE Unlinked(at[p])
  /\ at' = [at EXCEPT ![p] = None]
  /\ UNCHANGED <<listening, want, sweep>>

(* Mutant: the path is taken as it is. *)
RemoveNothing(p) ==
  /\ pc[p] = "remove" /\ Goto(p, "listen")
  /\ at' = [at EXCEPT ![p] = want[p]]
  /\ UNCHANGED <<file, listening, want, sweep>>

Remove(p) ==
  /\ pc[p] = "remove" /\ Goto(p, "listen")
  /\ Unlinked(want[p])
  /\ at' = [at EXCEPT ![p] = want[p]]
  /\ UNCHANGED <<listening, want, sweep>>

(* server.listen: EADDRINUSE if anything is at the path. *)
Listen(p) ==
  /\ pc[p] = "listen"
  /\ \/ /\ file[want[p]] = None /\ Goto(p, "up")
        /\ file' = [file EXCEPT ![want[p]] = p]
        /\ listening' = listening \cup {p}
        /\ young' = [q \in Proc |-> young[q] \cup {p}]
     \/ /\ file[want[p]] # None /\ Goto(p, "failed")
        /\ UNCHANGED <<file, listening, young>>
  /\ UNCHANGED <<at, want, todo, doomed>>

(* A kill: the file stays, and nobody listens on it. *)
Crash(p) ==
  /\ pc[p] # "down" /\ Goto(p, "down")
  /\ file' = [a \in Addr |-> IF file[a] = p THEN Stale ELSE file[a]]
  /\ listening' = listening \ {p}
  /\ at' = [at EXCEPT ![p] = None] /\ want' = [want EXCEPT ![p] = None]
  /\ todo' = [todo EXCEPT ![p] = {}] /\ doomed' = [doomed EXCEPT ![p] = None]
  /\ young' = [young EXCEPT ![p] = {}]

Step(p) == \/ ReadDir(p) \/ Probe(p) \/ Unlink(p) \/ Swept(p)
           \/ Stop(p) \/ Closed(p) \/ Remove(p) \/ Listen(p)

Next == \E p \in Proc : SessionStart(p) \/ SessionShutdown(p) \/ Step(p) \/ Crash(p)

Spec == Init /\ [][Next]_vars

-----------------------------------------------------------------------------
(* The comment over gcStaleSockets says "a live peer's socket survives".  What
   holds is that a listener keeps its path until it stops or is killed,
   unless a sweep had found that path dead before the process listened, or
   another process hosts a session with the same address. *)
Reached(p) == p \in listening /\ file[at[p]] = p
LostToSweep(p) == \E q \in Proc : pc[q] = "unlink" /\ doomed[q] = at[p] /\ p \in young[q]
LostToRival(p) == \E q \in Proc \ {p} : at[p] \in {at[q], want[q]}
OnlyYoungAreLost ==
  [][\A p \in listening :
       Reached(p) /\ p \in listening' => Reached(p)' \/ LostToSweep(p) \/ LostToRival(p)]_vars

(* A start fails on an occupied path only if another process hosts a session
   with that address: what sweeps and kills leave behind never stops it. *)
Shared(p) == \E q \in Proc \ {p} : want[p] \in Owns[q]
StartFindsRoom == \A p \in Proc : pc[p] = "failed" => Shared(p)

(* What these rest on: a path leads to the process that serves it; what a
   sweep is about to unlink was dead, or has been taken since; a stopped
   server does not listen; and a cleared path stays clear unless shared. *)
Bindings == /\ \A a \in Addr : file[a] \in Proc => file[a] \in listening /\ at[file[a]] = a
            /\ \A p \in listening : at[p] \in Addr
Doomed == \A p \in Proc : pc[p] = "unlink" =>
            /\ doomed[p] \in Addr
            /\ file[doomed[p]] \in Proc => file[doomed[p]] \in young[p]
Starting == \A p \in Proc :
  /\ pc[p] \in {"down", "closed", "remove", "listen", "failed"} => p \notin listening
  /\ pc[p] \in {"readdir", "sweep", "unlink", "remove", "listen", "failed"} => want[p] # None
  /\ want[p] # None => want[p] \in Owns[p]
  /\ pc[p] = "listen" => at[p] = want[p]
Cleared == \A p \in Proc : pc[p] = "listen" => file[want[p]] = None \/ Shared(p)

ControlSocketInv == Bindings /\ Doomed /\ Starting /\ Cleared
=============================================================================
