------------------------------ MODULE Dispatch ------------------------------
(***************************************************************************)
(* entwurf_v2: concurrent dispatches of one message each to one garden id. *)
(* The decider (entwurf-v2-decider.ts) resolves the record, picks a rail,  *)
(* takes the per-id lock for a pi target and probes its control socket     *)
(* under it; the sender (entwurf-v2-send.ts, -send-fallback.ts) drives one *)
(* socket send, and on a refused connection one re-resolution under the    *)
(* same lock; the mailbox and push rails hold no lock; the release policy  *)
(* (entwurf-v2-release.ts) gives the lock back.  Each await is a step, and *)
(* between any two of them the target may change, another dispatch may     *)
(* run, or the dispatching process may die.                                *)
(*                                                                         *)
(* The lock is the abstract mutex that DispatchLock implements.            *)
(***************************************************************************)
EXTENDS Naturals

CONSTANTS
  Dispatcher,  \* the concurrent dispatches, each carrying one message
  None,        \* no dispatcher
  MaxChanges   \* bound on how often the target changes

ASSUME NoneAssumption == None \notin Dispatcher
ASSUME MaxChangesAssumption == MaxChanges \in Nat

VARIABLES
  pc,          \* pc[d]: the await dispatch d is at
  result,      \* result[d]: what runEntwurfV2 answered, or is about to answer
  dirty,       \* dirty[d]: its last releaseLock threw, the lock file stays
  owner, over, \* the dispatch lock (DispatchMutex)
  record,      \* the backend of the target's record, or "none"
  sock,        \* what is at the target's control socket path
  armed,       \* whether its mailbox counts as deliverable
  accepted,    \* accepted[d]: times the message of d was taken by the target
  pending,     \* messages written to a socket that a slow target may still read
  changes      \* how often the target has changed

Lock == INSTANCE DispatchMutex WITH Attempt <- Dispatcher

target == <<record, sock, armed>>
vars == <<pc, result, dirty, owner, over, target, accepted, pending, changes>>

Record == {"none", "pi", "mailbox", "codex", "antigravity"}
Sock == {"absent",    \* nothing there
         "stale",     \* a socket file nobody listens on: ECONNREFUSED
         "live",      \* the resident answers
         "hung",      \* the connection succeeds or stalls, no answer in time
         "foreign"}   \* a symlink or a plain file: an address conflict

Locked == {"inspect", "giveback", "backstop", "send", "re_resolve", "re_armed",
           "re_inspect", "resend", "re_enqueue", "release"}
Stage == Locked \cup {"resolve", "push_probe", "push", "armed", "enqueue",
                      "acquire", "done", "crashed"}
Delivered == {"sent", "fallback-sent", "enqueued", "pushed"}
Result == Delivered \cup {"none", "rejected", "refused-in-band", "failed"}

TypeOK == /\ pc \in [Dispatcher -> Stage]
          /\ result \in [Dispatcher -> Result]
          /\ dirty \in [Dispatcher -> BOOLEAN]
          /\ owner \in Dispatcher \cup {None} /\ over \subseteq Dispatcher
          /\ record \in Record /\ sock \in Sock /\ armed \in BOOLEAN
          /\ accepted \in [Dispatcher -> Nat]
          /\ pending \subseteq Dispatcher
          /\ changes \in 0..MaxChanges

Init == /\ pc = [d \in Dispatcher |-> "resolve"]
        /\ result = [d \in Dispatcher |-> "none"]
        /\ dirty = [d \in Dispatcher |-> FALSE]
        /\ Lock!Init
        /\ record \in Record /\ sock \in Sock /\ armed \in BOOLEAN
        /\ accepted = [d \in Dispatcher |-> 0]
        /\ pending = {}
        /\ changes = 0

-----------------------------------------------------------------------------
Goto(d, to) == pc' = [pc EXCEPT ![d] = to]
Answer(d, r) == result' = [result EXCEPT ![d] = r]
Accept(d) == accepted' = [accepted EXCEPT ![d] = @ + 1]

Finish(d, r) == Goto(d, "done") /\ Answer(d, r)

mutex == <<owner, over, dirty>>
traffic == <<accepted, pending>>

(* resolveTarget: the record, and for a record that must not have a socket
   (or for no record) whether something is at the socket path. *)
Unaddressable == \/ record = "none"
                 \/ record # "pi" /\ sock # "absent"

(* Reading the record or the path can throw; before the lock that is all. *)
Throw(d, at) == pc[d] = at /\ Finish(d, "failed") /\ UNCHANGED <<mutex, target, traffic, changes>>

Resolve(d) ==
  /\ pc[d] = "resolve"
  /\ \/ /\ Unaddressable \/ record = "antigravity"       \* paused: nothing is probed
        /\ Finish(d, "rejected")
     \/ /\ ~Unaddressable /\ UNCHANGED result
        /\ \/ record = "codex" /\ Goto(d, "push_probe")
           \/ record = "mailbox" /\ Goto(d, "armed")
           \/ record = "pi" /\ Goto(d, "acquire")
  /\ UNCHANGED <<mutex, target, traffic, changes>>

(* The native probe: alive, dead or indeterminate, decided by the host. *)
PushProbe(d) ==
  /\ pc[d] = "push_probe"
  /\ \/ Goto(d, "push") /\ UNCHANGED result
     \/ Finish(d, "rejected")
  /\ UNCHANGED <<mutex, target, traffic, changes>>

(* A codex push is tried once; an error may come after the host took it. *)
Push(d) ==
  /\ pc[d] = "push"
  /\ \/ Finish(d, "pushed") /\ Accept(d)
     \/ Finish(d, "failed") /\ Accept(d)
     \/ Finish(d, "failed") /\ UNCHANGED accepted
  /\ UNCHANGED <<mutex, target, pending, changes>>

MailboxDecide(d) ==
  /\ pc[d] = "armed"
  /\ \/ armed /\ Goto(d, "enqueue") /\ UNCHANGED result
     \/ ~armed /\ Finish(d, "rejected")
  /\ UNCHANGED <<mutex, target, traffic, changes>>

(* Enqueueing can throw before the message file exists, or after it does. *)
Enqueue(d) ==
  /\ pc[d] = "enqueue"
  /\ \/ Finish(d, "enqueued") /\ Accept(d)
     \/ Finish(d, "failed") /\ Accept(d)
     \/ Finish(d, "failed") /\ UNCHANGED accepted
  /\ UNCHANGED <<mutex, target, pending, changes>>

(* Mutant: a locked target is waited for. *)
AcquireWaits(d) == /\ pc[d] = "acquire"
                   /\ Lock!Take(d) /\ Goto(d, "inspect")
                   /\ UNCHANGED <<result, dirty, target, traffic, changes>>

(* acquireLock: taken, or target-locked (a holder, or a leftover of one). *)
Acquire(d) ==
  /\ pc[d] = "acquire"
  /\ \/ Lock!Take(d) /\ Goto(d, "inspect") /\ UNCHANGED result
     \/ Lock!Quit({d}) /\ Finish(d, "rejected")
     \/ Lock!Quit({d}) /\ Finish(d, "failed")
  /\ UNCHANGED <<dirty, target, traffic, changes>>

(* What lstat and one connect can report of the socket. *)
Observable == CASE sock \in {"absent", "stale"} -> {"dead"}
                [] sock = "live"    -> {"alive", "indeterminate"}
                [] sock = "hung"    -> {"alive", "indeterminate"}
                [] sock = "foreign" -> {"address-conflict"}

(* Inspect and probe, under the lock: only a live target keeps it. *)
Inspect(d) ==
  /\ pc[d] = "inspect"
  /\ \/ /\ "alive" \in Observable
        /\ Goto(d, "send") /\ UNCHANGED result
     \/ /\ Observable \ {"alive"} # {}
        /\ Goto(d, "giveback") /\ Answer(d, "rejected")
     \/ Goto(d, "backstop") /\ Answer(d, "failed")
  /\ UNCHANGED <<mutex, target, traffic, changes>>

(* releaseLock, which may throw and leave the lock file.  It deletes only a
   claim of its own, so calling it again is harmless. *)
Released(d) == Lock!Quit({d}) /\ dirty' = [dirty EXCEPT ![d] = FALSE]
ReleaseThrew(d) == UNCHANGED <<owner, over>> /\ dirty' = [dirty EXCEPT ![d] = TRUE]

(* Mutant: the rejection is returned without the release. *)
GiveBackForgotten(d) == /\ pc[d] = "giveback" /\ Goto(d, "done")
                        /\ UNCHANGED <<result, mutex, target, traffic, changes>>

(* rejectAfterRelease: a throw lands in the catch, which releases once more. *)
GiveBack(d) ==
  /\ pc[d] = "giveback"
  /\ \/ Released(d) /\ Goto(d, "done") /\ UNCHANGED result
     \/ ReleaseThrew(d) /\ Goto(d, "backstop") /\ Answer(d, "failed")
  /\ UNCHANGED <<target, traffic, changes>>

(* The catch of decideInDomain: release, whatever comes of it, and rethrow. *)
Backstop(d) ==
  /\ pc[d] = "backstop"
  /\ Released(d) \/ ReleaseThrew(d)
  /\ Goto(d, "done")
  /\ UNCHANGED <<result, target, traffic, changes>>

-----------------------------------------------------------------------------
(* One send over the control socket.  "refused" is a connect error that
   classifies as dead: nothing was written.  After a timeout the message may
   still lie in the socket of a slow resident.  The connect follows a symlink,
   so at a foreign path it may meet anything. *)
Refused == sock \in {"absent", "stale", "foreign"}
Answered == sock \in {"live", "foreign"}
Stalls == sock \in {"live", "hung", "foreign"}

Told(d, r) == Answer(d, r) /\ Goto(d, "release")

SendSettled(d, success) ==
  \/ /\ Answered /\ Told(d, success)
     /\ Accept(d) /\ UNCHANGED pending
  \/ /\ Answered /\ Told(d, "refused-in-band")
     /\ UNCHANGED traffic
  \/ /\ Answered /\ Told(d, "failed")             \* taken, but the answer is lost
     /\ Accept(d) /\ UNCHANGED pending
  \/ /\ Stalls /\ Told(d, "failed")               \* no answer in time
     /\ pending' = pending \cup {d} /\ UNCHANGED accepted

(* Mutants: any connect failure falls back, a timeout too; the lock is given
   back before the fallback. *)
SendFallsBackOnTimeout(d) ==
  /\ pc[d] = "send"
  /\ \/ SendSettled(d, "sent")
     \/ Refused /\ Goto(d, "re_resolve") /\ UNCHANGED <<result, traffic>>
     \/ /\ Stalls /\ Goto(d, "re_resolve") /\ pending' = pending \cup {d}
        /\ UNCHANGED <<result, accepted>>
  /\ UNCHANGED <<mutex, target, changes>>
SendReleasesEarly(d) ==
  /\ pc[d] = "send"
  /\ \/ SendSettled(d, "sent") /\ UNCHANGED mutex
     \/ /\ Refused /\ Goto(d, "re_resolve") /\ Released(d)
        /\ UNCHANGED <<result, traffic>>
  /\ UNCHANGED <<target, changes>>

Send(d) ==
  /\ pc[d] = "send"
  /\ \/ SendSettled(d, "sent")
     \/ Refused /\ Goto(d, "re_resolve") /\ UNCHANGED <<result, traffic>>
  /\ UNCHANGED <<mutex, target, changes>>

(* The one fallback, still under the lock: resolve and probe afresh. *)
ReResolve(d) ==
  /\ pc[d] = "re_resolve"
  /\ \/ Unaddressable /\ Told(d, "rejected")
     \/ ~Unaddressable /\ record = "pi" /\ Goto(d, "re_inspect") /\ UNCHANGED result
     \/ ~Unaddressable /\ record # "pi" /\ Goto(d, "re_armed") /\ UNCHANGED result
     \/ Told(d, "failed")
  /\ UNCHANGED <<mutex, target, traffic, changes>>

(* Only a self-fetch backend can be deliverable. *)
ReMailboxDecide(d) ==
  /\ pc[d] = "re_armed"
  /\ \/ armed /\ record = "mailbox" /\ Goto(d, "re_enqueue") /\ UNCHANGED result
     \/ ~(armed /\ record = "mailbox") /\ Told(d, "rejected")
  /\ UNCHANGED <<mutex, target, traffic, changes>>

ReInspect(d) ==
  /\ pc[d] = "re_inspect"
  /\ \/ "alive" \in Observable /\ Goto(d, "resend") /\ UNCHANGED result
     \/ Observable \ {"alive"} # {} /\ Told(d, "rejected")
     \/ Told(d, "failed")
  /\ UNCHANGED <<mutex, target, traffic, changes>>

(* Mutant: a second refusal is reported as a rejection even after a timeout. *)
ResendRejects(d) ==
  /\ pc[d] = "resend"
  /\ \/ SendSettled(d, "fallback-sent")
     \/ Refused /\ Told(d, "failed") /\ UNCHANGED traffic
     \/ Stalls /\ Told(d, "rejected") /\ pending' = pending \cup {d} /\ UNCHANGED accepted
  /\ UNCHANGED <<mutex, target, changes>>

(* A second refusal is final. *)
Resend(d) ==
  /\ pc[d] = "resend"
  /\ \/ SendSettled(d, "fallback-sent")
     \/ Refused /\ Told(d, "failed") /\ UNCHANGED traffic
  /\ UNCHANGED <<mutex, target, changes>>

ReEnqueue(d) ==
  /\ pc[d] = "re_enqueue"
  /\ \/ Told(d, "fallback-sent") /\ Accept(d)
     \/ Told(d, "failed") /\ Accept(d)
     \/ Told(d, "failed") /\ UNCHANGED accepted
  /\ UNCHANGED <<mutex, target, pending, changes>>

(* finalizeRelease.  What was sent stays sent when the release throws; the
   answer then also says that the lock is dirty. *)
FinalizeRelease(d) ==
  /\ pc[d] = "release"
  /\ Released(d) \/ ReleaseThrew(d)
  /\ Goto(d, "done")
  /\ UNCHANGED <<result, target, traffic, changes>>

Step(d) == \/ Resolve(d) \/ Throw(d, "resolve")
           \/ PushProbe(d) \/ Throw(d, "push_probe") \/ Push(d)
           \/ MailboxDecide(d) \/ Enqueue(d)
           \/ Acquire(d) \/ Inspect(d) \/ GiveBack(d) \/ Backstop(d)
           \/ Send(d) \/ ReResolve(d) \/ ReMailboxDecide(d) \/ ReInspect(d)
           \/ Resend(d) \/ ReEnqueue(d) \/ FinalizeRelease(d)

-----------------------------------------------------------------------------
(* The dispatching process dies: its lock is what a later caller reclaims. *)
Crash(d) == /\ pc[d] # "crashed"
            /\ Goto(d, "crashed")
            /\ IF d \in over THEN UNCHANGED <<owner, over>> ELSE Lock!Quit({d})
            /\ UNCHANGED <<result, dirty, target, traffic, changes>>

(* The target is born, restarts, dies, hangs or is replaced. *)
TargetChange ==
  /\ changes < MaxChanges
  /\ changes' = changes + 1
  /\ \/ record' \in Record /\ UNCHANGED <<sock, armed>>
     \/ sock' \in Sock /\ UNCHANGED <<record, armed>>
     \/ armed' \in BOOLEAN /\ UNCHANGED <<record, sock>>
  /\ UNCHANGED <<pc, result, mutex, traffic>>

(* A resident that had stalled reads what a timed-out sender wrote. *)
LateAccept(d) == /\ d \in pending
                 /\ pending' = pending \ {d}
                 /\ Accept(d)
                 /\ UNCHANGED <<pc, result, mutex, target, changes>>

Next == \/ \E d \in Dispatcher : Step(d) \/ Crash(d) \/ LateAccept(d)
        \/ TargetChange

Spec == Init /\ [][Next]_vars

(* Every await is bounded by a timeout of its own (probe 300 ms, rpc 5 s), so a
   dispatch that is not killed goes on. *)
FairSpec == Spec /\ \A d \in Dispatcher : WF_vars(Step(d))

-----------------------------------------------------------------------------
(* No message is taken twice, whatever the fallback, the late answers and the
   failures add up to: a second attempt is made only after a refused one. *)
AtMostOnce == \A d \in Dispatcher :
  accepted[d] + (IF d \in pending THEN 1 ELSE 0) <= 1

(* What the caller is told is true: a rejected or refused message is nowhere,
   a sent one was taken.  Only "failed" leaves it open. *)
AnswerIsTrue == \A d \in Dispatcher :
  /\ result[d] \in {"rejected", "refused-in-band"} => accepted[d] = 0 /\ d \notin pending
  /\ result[d] \in Delivered => accepted[d] = 1

(* From the first look at the socket to the final outcome, fallback included,
   the dispatch holds the lock of its target. *)
LockSpansDispatch == \A d \in Dispatcher : pc[d] \in Locked => owner = d

(* A dispatch that has answered keeps the lock only if releaseLock threw. *)
LockIsGivenBack == \A d \in Dispatcher : pc[d] = "done" /\ owner = d => dirty[d]

(* The strengthening that makes these inductive: the lock is held in the
   locked stages and by a dirty release only, and nothing has been taken from
   a dispatch that has not reached its final outcome. *)
Undecided == Stage \ {"release", "done", "crashed"}

DispatchInv == \A d \in Dispatcher :
  /\ pc[d] \in Locked => owner = d
  /\ owner = d => d \notin over /\ (pc[d] \in Locked \/ (pc[d] = "done" /\ dirty[d]))
  /\ pc[d] \in Undecided => accepted[d] = 0 /\ d \notin pending
  /\ d \in pending => accepted[d] = 0
  /\ accepted[d] <= 1
  /\ result[d] \in {"rejected", "refused-in-band"} => accepted[d] = 0 /\ d \notin pending
  /\ result[d] \in Delivered => accepted[d] = 1

(* Each dispatch gives a true receipt of its message, from when it ends: a
   rejection whose release throws is still to become a failure. *)
Receipt(d) == INSTANCE TrueReceipt WITH
                Untouched <- {"rejected", "refused-in-band"}, Acted <- Delivered, Open <- {"failed"},
                answer <- IF pc[d] \in {"done", "crashed"} THEN result[d] ELSE "none",
                acts <- accepted[d]

(* A dispatch never waits on another: it answers, or its process dies. *)
AlwaysAnswers == \A d \in Dispatcher : <>(pc[d] \in {"done", "crashed"})
=============================================================================
