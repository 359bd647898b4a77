------------------------------- MODULE Retire -------------------------------
(***************************************************************************)
(* entwurf_retire_call: concurrent requests to retire one garden id        *)
(* (entwurf-v2-retire.ts), with the sidecar records each leaves            *)
(* (retirement-event.ts), the one socket request to a pi target            *)
(* (pi-retire-request.ts), the receiver in that pi process with its        *)
(* session generations (control-retire.ts), and the Claude Code adapter    *)
(* reduced to what CcRetire shows of it.  Between any two steps the target *)
(* may change and the requesting process may die; a request that timed out *)
(* may still be read.                                                      *)
(*                                                                         *)
(* The lock is the abstract mutex that DispatchLock implements.  An abort  *)
(* is whatever a check of the signal sees.                                 *)
(***************************************************************************)
EXTENDS Naturals

CONSTANTS
  Retirer,   \* the concurrent requests
  None,      \* no request
  Native,    \* native session ids
  MaxGens,   \* bound on the sessions that start at the target's address
  MaxRewrites \* bound on how often its record is rewritten

ASSUME NoneAssumption == None \notin Retirer
ASSUME BoundsAssumption == MaxGens \in Nat /\ MaxRewrites \in Nat

VARIABLES
  pc,          \* pc[d]: the step request d is at
  outcome,     \* outcome[d]: the outcome in its receipt
  note,        \* note[d]: the record status in its receipt
  kept,        \* kept[d]: the identity it read under the lock
  dirty,       \* dirty[d]: its releaseLock threw
  owner, over, \* the dispatch lock (DispatchMutex)
  log,         \* readable lines in the target's sidecar: <<request, what it says>>
  torn,        \* the request whose short write the sidecar ends with, or None
  glued,       \* whole lines appended to such a tail: <<line, whose tail it was>>
  record,      \* the target's meta-record: <<backend, native session id>>
  sock,        \* what claims the target's address: nothing ("absent", though a plain file
               \* may be there), a dead socket or a symlink ("stale"), a server ("live")
  gens,        \* how many sessions have started there
  bound,       \* the generation bound to the listener, 0 for none
  native,      \* the native session id of that generation, None for none
  closing,     \* session_shutdown has invalidated the binding
  latched,     \* retireRequested
  conn,        \* conn[d]: the generation bound when d's connection was accepted
  wire,        \* wire[d]: d's connection, its request, then the answer to it
  shut,        \* shutdown calls: <<request, generation, its native session id>>
  rewrites     \* how often the record has been rewritten

Lock == INSTANCE DispatchMutex WITH Attempt <- Retirer

mutex == <<owner, over, dirty>>
session == <<sock, gens, bound, native, closing, latched>>
mine == <<outcome, note, kept>>
sidecar == <<log, torn, glued>>
vars == <<pc, mine, mutex, sidecar, record, rewrites, session, conn, wire, shut>>

Backend == {"none", "pi", "claude-code"}   \* "none": no record, or an unsupported backend
Record == Backend \X Native
Locked == {"read", "inspect", "reread", "admit", "enter", "ask", "reply", "note", "release"}
Stage == Locked \cup {"caller", "done", "crashed"}
Untouched == {"refused", "preflight-error", "not-signalled"}
Acted == {"shutdown-requested", "exited"}
Outcome == Untouched \cup Acted \cup {"none", "unknown"}
Note == {"not-attempted", "requested-append-error", "requested", "complete",
         "outcome-append-error"}
Reply == {"shutdown-requested", "refused", "unknown"}
Event == Retirer \X ({"requested"} \cup Outcome)

TypeOK == /\ pc \in [Retirer -> Stage]
          /\ outcome \in [Retirer -> Outcome]
          /\ note \in [Retirer -> Note]
          /\ kept \in [Retirer -> Record]
          /\ dirty \in [Retirer -> BOOLEAN]
          /\ owner \in Retirer \cup {None} /\ over \subseteq Retirer
          /\ log \subseteq Event /\ glued \subseteq Event \X Retirer
          /\ torn \in Retirer \cup {None}
          /\ record \in Record
          /\ sock \in {"absent", "stale", "live"}
          /\ gens \in 0..MaxGens /\ bound \in 0..gens /\ native \in Native \cup {None}
          /\ closing \in BOOLEAN /\ latched \in BOOLEAN
          /\ conn \in [Retirer -> 0..gens]
          /\ wire \in [Retirer -> {"none", "queued", "sent", "lost"} \cup Reply]
          /\ shut \subseteq Retirer \X (0..gens) \X Native
          /\ rewrites \in 0..MaxRewrites

Init == /\ pc = [d \in Retirer |-> "caller"]
        /\ outcome = [d \in Retirer |-> "none"]
        /\ note = [d \in Retirer |-> "not-attempted"]
        /\ record \in Record
        /\ kept = [d \in Retirer |-> record]
        /\ dirty = [d \in Retirer |-> FALSE]
        /\ Lock!Init
        /\ log = {} /\ torn = None /\ glued = {} /\ shut = {} /\ rewrites = 0
        /\ sock \in {"absent", "stale"}
        /\ gens = 0 /\ bound = 0 /\ native = None
        /\ closing = FALSE /\ latched = FALSE
        /\ conn = [d \in Retirer |-> 0]
        /\ wire = [d \in Retirer |-> "none"]

-----------------------------------------------------------------------------
Goto(d, to) == pc' = [pc EXCEPT ![d] = to]
Told(d, r) == outcome' = [outcome EXCEPT ![d] = r]
Noted(d, s) == note' = [note EXCEPT ![d] = s]
target == <<record, rewrites, session, conn, wire, shut>>

(* Before the lock: the caller is not a citizen or is the target, the signal
   is aborted, something throws, or the target is locked. *)
Caller(d) ==
  /\ pc[d] = "caller"
  /\ \/ Lock!Take(d) /\ Goto(d, "read") /\ UNCHANGED outcome
     \/ Lock!Quit({d}) /\ Goto(d, "done")
        /\ (Told(d, "refused") \/ Told(d, "preflight-error"))
  /\ UNCHANGED <<note, kept, dirty, sidecar, target>>

(* A refusal, or a throw before the backend was entered, leads to the release. *)
Refuse(d) == Told(d, "refused") /\ Goto(d, "release")
Fail(d) == Told(d, "preflight-error") /\ Goto(d, "release")
Onward(d, to) == Goto(d, to) /\ UNCHANGED outcome

Retirable(r) == r[1] # "none"

Read(d) ==
  /\ pc[d] = "read"
  /\ \/ Retirable(record) /\ Onward(d, "inspect") /\ kept' = [kept EXCEPT ![d] = record]
     \/ ~Retirable(record) /\ Refuse(d) /\ UNCHANGED kept
     \/ Fail(d) /\ UNCHANGED kept
  /\ UNCHANGED <<note, mutex, sidecar, target>>

(* A pi target must answer a connect; a Claude Code target must have nothing
   that claims its address. *)
Inspect(d) ==
  /\ pc[d] = "inspect"
  /\ \/ /\ kept[d][1] = "pi"
        /\ (sock = "live" /\ Onward(d, "reread")) \/ Refuse(d)
     \/ /\ kept[d][1] = "claude-code"
        /\ \/ sock = "absent" /\ Onward(d, "admit")
           \/ sock # "absent" /\ Refuse(d)
     \/ Fail(d)
  /\ UNCHANGED <<note, kept, mutex, sidecar, target>>

(* The identity is read again after the awaited connect. *)
Reread(d) ==
  /\ pc[d] = "reread"
  /\ \/ record = kept[d] /\ Onward(d, "admit")
     \/ record # kept[d] /\ Refuse(d)
     \/ Fail(d)
  /\ UNCHANGED <<note, kept, mutex, sidecar, target>>

(* appendRetirementEvent: one writeSync at the end of the file.  A whole line
   behind a short write's tail is one unreadable line with it.  An append may
   throw with nothing written, after a short write, or with its whole line in
   the file (fsync or close fails). *)
WholeLine(line) ==
  \/ torn = None /\ log' = log \cup {line} /\ UNCHANGED <<torn, glued>>
  \/ torn # None /\ glued' = glued \cup {<<line, torn>>} /\ torn' = None /\ UNCHANGED log
ShortWrite(line) == torn' = line[1] /\ UNCHANGED <<log, glued>>

(* Mutant: the byte count of writeSync is not looked at. *)
AppendedUnchecked(line) == WholeLine(line) \/ ShortWrite(line)

Appended(line) == WholeLine(line)
AppendThrew(line) == UNCHANGED sidecar \/ ShortWrite(line) \/ WholeLine(line)

(* admit: the signal, then the requested line ... *)
Admit(d) ==
  /\ pc[d] = "admit"
  /\ \/ Refuse(d) /\ UNCHANGED <<note, sidecar>>
     \/ Appended(<<d, "requested">>) /\ Noted(d, "requested") /\ Onward(d, "enter")
     \/ AppendThrew(<<d, "requested">>) /\ Noted(d, "requested-append-error") /\ Refuse(d)
  /\ UNCHANGED <<kept, mutex, target>>

(* ... and the signal once more; this refusal has an outcome line to write. *)
Enter(d) ==
  /\ pc[d] = "enter"
  /\ \/ Told(d, "refused") /\ Goto(d, "note")
     \/ Onward(d, "ask")
  /\ UNCHANGED <<note, kept, mutex, sidecar, target>>

-----------------------------------------------------------------------------
Settle(d, r) == Told(d, r) /\ Goto(d, "note")

(* requestPiRetire: one connection, one command.  Any error is "unknown". *)
AskPi(d) ==
  /\ pc[d] = "ask" /\ kept[d][1] = "pi"
  /\ \/ sock = "live" /\ Onward(d, "reply") /\ wire' = [wire EXCEPT ![d] = "queued"]
     \/ Settle(d, "unknown") /\ UNCHANGED wire
  /\ UNCHANGED <<note, kept, mutex, sidecar, record, rewrites, session, conn, shut>>

(* Mutant: an error on the wire is taken for a refusal. *)
HearReplyHopeful(d) ==
  /\ pc[d] = "reply"
  /\ \/ wire[d] \in Reply /\ Settle(d, wire[d])
     \/ Settle(d, "refused")
  /\ UNCHANGED <<note, kept, mutex, sidecar, target>>

(* The answer; or it is lost, malformed, or not here after 5 s. *)
HearReply(d) ==
  /\ pc[d] = "reply"
  /\ \/ wire[d] \in Reply /\ Settle(d, wire[d])
     \/ Settle(d, "unknown")
  /\ UNCHANGED <<note, kept, mutex, sidecar, target>>

(* requestCc: what CcRetire allows of it. *)
AskCc(d) ==
  /\ pc[d] = "ask" /\ kept[d][1] = "claude-code"
  /\ \/ Settle(d, "refused") /\ UNCHANGED shut
     \/ Settle(d, "not-signalled") /\ UNCHANGED shut
     \/ Settle(d, "unknown") /\ UNCHANGED shut
     \/ (Settle(d, "exited") \/ Settle(d, "unknown")) /\ shut' = shut \cup {<<d, 0, kept[d][2]>>}
  /\ UNCHANGED <<note, kept, mutex, sidecar, record, rewrites, session, conn, wire>>

(* recordOutcome, once, before the release. *)
RecordOutcome(d) ==
  /\ pc[d] = "note" /\ Goto(d, "release")
  /\ \/ Appended(<<d, outcome[d]>>) /\ Noted(d, "complete")
     \/ AppendThrew(<<d, outcome[d]>>) /\ Noted(d, "outcome-append-error")
  /\ UNCHANGED <<outcome, kept, mutex, target>>

(* One release; if it throws, only the receipt's release status says so. *)
Release(d) ==
  /\ pc[d] = "release" /\ Goto(d, "done")
  /\ \/ Lock!Quit({d}) /\ UNCHANGED dirty
     \/ UNCHANGED <<owner, over>> /\ dirty' = [dirty EXCEPT ![d] = TRUE]
  /\ UNCHANGED <<mine, sidecar, target>>

Step(d) == \/ Caller(d) \/ Read(d) \/ Inspect(d) \/ Reread(d) \/ Admit(d) \/ Enter(d)
           \/ AskPi(d) \/ HearReply(d) \/ AskCc(d) \/ RecordOutcome(d) \/ Release(d)

(* The process dies, and its lock is there for the next to reclaim.  A death
   at the release is no step of its own: the lock goes and nothing is left to
   do, as after a Release. *)
Crash(d) == /\ pc[d] \in Locked \ {"release"} /\ Goto(d, "crashed")
            /\ Lock!Quit({d})
            /\ UNCHANGED <<mine, dirty, sidecar, target>>

-----------------------------------------------------------------------------
(* The receiver accepts a connection when its event loop comes to it, which
   may be after the client has given up: the binding is noted then. *)
Accept(d) ==
  /\ wire[d] = "queued" /\ sock = "live"
  /\ wire' = [wire EXCEPT ![d] = "sent"]
  /\ conn' = [conn EXCEPT ![d] = bound]
  /\ UNCHANGED <<pc, mine, mutex, sidecar, record, rewrites, session, shut>>

(* requestControlRetire, one synchronous run in the receiver.  It refuses a
   busy, pending, headless or replaced session whenever it likes; it calls
   shutdown only for the generation the connection was accepted under, and
   only under the native session id it was given.  shutdown may throw. *)
Reach(d) == conn[d] # 0 /\ conn[d] = bound /\ kept[d][2] = native

Answered(d, r) == wire' = [wire EXCEPT ![d] = r]

ShutDown(d) == /\ ~closing /\ ~latched
               /\ latched' = TRUE
               /\ shut' = shut \cup {<<d, bound, native>>}
               /\ Answered(d, "shutdown-requested") \/ Answered(d, "unknown")

(* Mutants: the latch is left out; the binding is not compared with the one
   the connection was accepted under; the session id is not compared. *)
HandleUnlatched(d) ==
  /\ wire[d] = "sent"
  /\ \/ Answered(d, "refused") /\ UNCHANGED <<latched, shut>>
     \/ /\ Reach(d) /\ ~closing /\ UNCHANGED latched
        /\ shut' = shut \cup {<<d, bound, native>>}
        /\ Answered(d, "shutdown-requested") \/ Answered(d, "unknown")
  /\ UNCHANGED <<pc, mine, mutex, sidecar, record, rewrites, sock, gens, bound, native, closing, conn>>
HandleAnyBinding(d) ==
  /\ wire[d] = "sent"
  /\ \/ Answered(d, "refused") /\ UNCHANGED <<latched, shut>>
     \/ bound # 0 /\ kept[d][2] = native /\ ShutDown(d)
  /\ UNCHANGED <<pc, mine, mutex, sidecar, record, rewrites, sock, gens, bound, native, closing, conn>>

Handle(d) ==
  /\ wire[d] = "sent"
  /\ \/ Answered(d, "refused") /\ UNCHANGED <<latched, shut>>
     \/ Reach(d) /\ ShutDown(d)
  /\ UNCHANGED <<pc, mine, mutex, sidecar, record, rewrites, sock, gens, bound, native, closing, conn>>

others == <<pc, mine, mutex, sidecar, shut>>

(* A session starts at this address: its record was certified by its birth.
   It takes the path over, or is rebound to the listener it already has. *)
SessionStart ==
  /\ record[1] = "pi" /\ gens < MaxGens
  /\ sock = "live" => ~closing
  /\ gens' = gens + 1 /\ bound' = gens + 1 /\ native' = record[2]
  /\ sock' = "live" /\ closing' = FALSE /\ latched' = FALSE
  /\ UNCHANGED <<others, record, rewrites, conn, wire>>

(* session_shutdown: the binding goes first, the listener later. *)
SessionShutdown ==
  /\ sock = "live" /\ ~closing
  /\ closing' = TRUE /\ bound' = 0 /\ native' = None
  /\ UNCHANGED <<others, record, rewrites, sock, gens, latched, conn, wire>>

Lose == wire' = [d \in Retirer |-> IF wire[d] \in {"queued", "sent"} THEN "lost" ELSE wire[d]]

Closed == /\ sock = "live" /\ closing /\ sock' = "absent" /\ Lose
          /\ UNCHANGED <<others, record, rewrites, gens, bound, native, closing, latched, conn>>

Dies == /\ sock = "live" /\ sock' = "stale" /\ Lose
        /\ bound' = 0 /\ native' = None /\ closing' = FALSE /\ latched' = FALSE
        /\ UNCHANGED <<others, record, rewrites, gens, conn>>

(* What else happens at the path, and in the record store. *)
Litter == /\ sock # "live" /\ sock' \in {"absent", "stale"}
          /\ UNCHANGED <<others, record, rewrites, gens, bound, native, closing, latched, conn, wire>>
Rewrite == /\ rewrites < MaxRewrites /\ rewrites' = rewrites + 1
           /\ record' \in Record \ {record}
           /\ UNCHANGED <<others, session, conn, wire>>

Next == \/ \E d \in Retirer : Step(d) \/ Crash(d) \/ Accept(d) \/ Handle(d)
        \/ SessionStart \/ SessionShutdown \/ Closed \/ Dies \/ Litter \/ Rewrite

Spec == Init /\ [][Next]_vars

-----------------------------------------------------------------------------
Hit(d) == \E e \in shut : e[1] = d

(* The receipt tells the truth about the target.  An untouched outcome means
   that this request has made no shutdown call and never will, even if its
   command is read late; an acted one means that it has made it. *)
AnswerIsTrue == \A d \in Retirer :
  /\ outcome[d] \in Untouched => ~Hit(d) /\ wire[d] \notin {"queued", "sent"}
  /\ outcome[d] \in Acted => Hit(d)

(* One session generation is asked to shut down at most once, by whatever
   requests, timeouts and late deliveries: the lock serialises the requests,
   but a request that timed out outlives its lock. *)
OneShutdown == \A e, f \in shut : e[2] = f[2] /\ e[2] # 0 => e[1] = f[1]

(* The session shut down is the one the caller looked up under the lock, and
   the generation the connection reached, never one that came after it. *)
AskedForIt == \A e \in shut : e[3] = kept[e[1]][2] /\ e[2] = conn[e[1]]

(* A line is in the file, if perhaps behind a torn one; and a request's own
   receipt says that its append failed. *)
Written(l) == l \in log \/ \E e \in Retirer : <<l, e>> \in glued
SaysTorn(e) == note[e] \in {"requested-append-error", "outcome-append-error"}

(* The sidecar accounts for every effect: nothing is touched before its
   requested line is there, and an outcome line repeats the receipt.  A line
   that is there but cannot be read follows a short write that its own request
   reported, and one report explains at most one such line. *)
SidecarIsTrue ==
  /\ \A d \in Retirer : Hit(d) \/ wire[d] # "none" => Written(<<d, "requested">>)
  /\ \A l \in Event : Written(l) /\ l[2] # "requested" =>
       Written(<<l[1], "requested">>) /\ l[2] = outcome[l[1]]
  /\ \A g \in glued : SaysTorn(g[2]) /\ g[2] # torn
  /\ \A g, h \in glued : g[2] = h[2] => g = h
  /\ torn # None => SaysTorn(torn)

(* The receipt's record status matches what is in the sidecar; a recorded line
   is readable unless a request reported the torn line before it. *)
NoteIsTrue == \A d \in Retirer :
  /\ note[d] = "not-attempted" => torn # d /\ \A l \in Event : Written(l) => l[1] # d
  /\ note[d] \in {"requested", "complete", "outcome-append-error"} => Written(<<d, "requested">>)
  /\ note[d] = "complete" => Written(<<d, outcome[d]>>)
  /\ pc[d] = "done" => note[d] # "requested"

(* From the first read of the record to the outcome line one request holds
   the lock, and an ended one keeps it only if releaseLock threw. *)
LockSpansRequest == \A d \in Retirer :
  /\ pc[d] \in Locked => owner = d
  /\ pc[d] = "done" /\ owner = d => dirty[d]

(* Each request gives a true receipt: it answers once, and what it has said of
   the target stays true. *)
Receipt(d) == INSTANCE TrueReceipt WITH Open <- {"unknown"},
                answer <- outcome[d], acts <- IF Hit(d) THEN 1 ELSE 0

(* What makes these inductive, together with them.  Early requests have left
   no trace; a request decides its outcome once, after its requested line; a
   command unread by the receiver has had no effect; the bound generation is
   latched as soon as it has been shut down. *)
Early == {"caller", "read", "inspect", "reread", "admit"}
Entered == {"enter", "ask", "reply", "note"}
Past == {"release", "done", "crashed"}

Stages == \A d \in Retirer :
  /\ pc[d] \in Early => note[d] = "not-attempted"
  /\ pc[d] \in Entered => note[d] = "requested"
  /\ pc[d] = "release" => note[d] # "requested"
  /\ pc[d] \in Early \cup {"enter", "ask"} => conn[d] = 0 /\ wire[d] = "none" /\ ~Hit(d)
  /\ pc[d] \in Early \cup {"enter", "ask", "reply"} => outcome[d] = "none"

Traces ==
  /\ \A l \in Event : Written(l) =>
       /\ pc[l[1]] \notin Early
       /\ pc[l[1]] \in Entered => l[2] = "requested"
       /\ note[l[1]] # "not-attempted"
  /\ torn # None => SaysTorn(torn) /\ pc[torn] \in Past
  /\ \A g \in glued : SaysTorn(g[2]) /\ pc[g[2]] \in Past

Delivery == \A d \in Retirer :
  /\ wire[d] \in {"queued", "sent", "lost", "refused"} => ~Hit(d)
  /\ wire[d] = "shutdown-requested" => Hit(d)

Latch == \A e \in shut : e[2] = bound /\ bound # 0 => latched

LockInv == \A d \in Retirer :
  /\ pc[d] \in Locked => owner = d
  /\ owner = d => d \notin over /\ (pc[d] \in Locked \/ (pc[d] = "done" /\ dirty[d]))

RetireInv == LockInv /\ Stages /\ Traces /\ Delivery /\ Latch
=============================================================================
