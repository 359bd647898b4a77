# A TLA+ verification of entwurf

entwurf (`junghan0611/entwurf`, TypeScript) lets agent harnesses address each
other. pi, pi-durable, Claude Code, GitHub Copilot, OMP, Codex and Antigravity
sessions become *garden citizens*: each gets a garden id, and a meta-record on
disk joins `(backend, nativeSessionId)` to that id. Four verbs act on a garden
id: open (`entwurf_fresh_call`), reopen (`entwurf_resume_call`), message
(`entwurf_v2`) and retire (`entwurf_retire_call`). There is no server: every
party is a process of its own, and what they agree on is in files, Unix
sockets, process ids and the order of system calls. That is what these modules
model.

All source paths below are relative to the repository root; `lib/` stands for
`pi-extensions/lib/`.

## 1. Inventory

| Component | Code | State it keeps | Operations | Status |
|---|---|---|---|---|
| Dispatch lock | `lib/entwurf-v2-lock.ts` | `<gid>.lock` and `<gid>.lock.reclaim`, a claim with nonce, pid and host name | `acquireLock`, stale reclaim, `releaseLock` | modelled |
| Dispatch pipeline | `lib/entwurf-v2-{decider,send,send-fallback,release,runner,production,contract}.ts`, `lib/socket-*.ts`, `lib/entwurf-control-rpc.ts` | the running call; the lock | resolve, acquire, inspect, send, fall back, release | partly: contract texts and the native-push client abstracted |
| Mailbox | `lib/meta-session.ts` (2690-3014), `pi/meta-bridge/.../doorbell.sh` | one file per message, its suffix; `state.json`; `inbox.signal` | enqueue, drain, stamp, ring | partly: a message's content is whether it is whole |
| Other doorbells | `meta-bridge-receive-omp.ts`, `pi/copilot-receive/`, `meta-bridge-pi-durable.ts` | a ringing and a pending flag, a watch and a marker over the same files | arm, ring, withdraw a notice, tear down | partly |
| Meta-record store | `lib/meta-session.ts` (1-2690) | one record file per garden id | certify, create, attach, strict read | partly: no repair, no migration |
| Record-arm lock, hook | `meta-bridge-hook.ts` | record, receiver marker, incarnation | birth, reattach, backfill | partly: what is printed is left out |
| Markers, deliverability | `lib/meta-session.ts`, `lib/meta-sender-identity.ts`, `lib/entwurf-deliverability.ts` | sender and receiver markers | write, retire, join | partly: the Claude Code join |
| OMP bootstrap | `meta-bridge-omp.ts`, `lib/omp-bootstrap.ts` | a latch, a phase, a poll timer | arm, prompt, release, hand over | partly: no prompt texts |
| Owner fence and location | `lib/pi-durable-{location,owner-fence,runtime}.ts` | a claim file with a generation, its transaction file, native leases, a reservation | admit, adopt, reserve, withdraw, observe, open, close | partly: one machine |
| Visible resume | `lib/entwurf-v2-visible-resume.ts` | the reservation of its child | reserve, launch, withdraw or keep, observe | partly: the pi-durable branch, with the owner fence |
| Retire dispatcher and receiver | `lib/entwurf-v2-retire*.ts`, `lib/pi-retire-request.ts`, `lib/control-retire.ts`, `lib/retirement-event.ts` | the running request; the lock; the event sidecar; a once-only latch | check, append, request, admit, shut down, release | partly: the receiver's reasons to refuse are free |
| Claude Code retire adapter | `lib/cc-retire-request.ts`, `lib/cc-retire-pidfd.py` | one helper child, two pipes, a wall timer, a pidfd | check, go or cancel, signal, observe | modelled |
| Control-socket directory | `entwurf-control.ts` (155-215, 770-830), `lib/control-retire.ts`, `lib/socket-probe.ts` | one socket file per resident session | start, rebind, sweep, stop | partly: no alias links, no Windows pipes |
| Everything else | see section 7 | | | not modelled |

**How they interact.** A message call resolves its target through the record
store, chooses a rail from the record's backend, and for a pi target takes the
dispatch lock and talks to the control socket of the resident session; for a
self-fetch target it puts a file into the mailbox and pokes a signal file that
a doorbell of the receiver watches; for a push target it calls the vendor's
process. Whether there is a receiver is judged from the markers that its hook
or its extension has left. A retire call takes the same lock, writes a sidecar
line, and asks the resident pi session over the same socket, or a Claude Code
process through a pidfd. A resume reserves the session directory for a child,
launches it and looks at what the child has made of the reservation. Nothing
but the file system, the socket and the process table connects these parts.

**What is hard here.** Callers, residents, hooks and operators interleave at
every system call. A file that was read may be another file when it is
unlinked by name. A process may die between any two calls and leave a lock, a
marker, a socket, a claim or a half-written message. A process id may be given
to a stranger. A request that timed out may still be read, after its sender has
given up its lock. A session may be replaced under a living process while a
timer, a promise or a poll of the old one is pending. Any of a sequence of
appends and renames may throw. The complete list, with lines, is under
`hazards` in `PROJECT.json`.

**What makes each part correct**, in one sentence each:

- lock: never two holders, a late release never takes a successor's claim, a
  dead holder's claim does not block for ever;
- dispatch: a message is taken at most once, and the answer is true;
- mailbox and doorbells: no message is returned twice, none is lost in silence,
  every wake-up is answered, and no notice or marker outlives what it announces;
- record store and hook: a garden id belongs to one session for good, no session
  is reached through two, and record and marker tell of the same attach;
- bootstrap: one prompt and one task, the task where the callback succeeded;
- owner fence: one living process has the storage of a directory open, and what
  a resume said of its reservation stays true;
- retire: at most one shutdown of a session, of the session that was asked
  for, and a receipt and a sidecar that tell the truth about it;
- Claude Code retire: no stranger is ever signalled, and "nothing was
  signalled" is true for good;
- socket directory: a start always finds room, and a live listener keeps its
  path.

## 2. Modules

| Module | Models | Extended by |
|---|---|---|
| `DispatchMutex` | abstract specification: what a lock promises its callers | used by `DispatchLock` (refinement), `Dispatch` and `Retire` (as their lock) |
| `DispatchLock` | the lock file at system-call granularity | `MCDispatchLock`, `DispatchLockProofs` |
| `Dispatch` | `entwurf_v2` from resolution to answer | `MCDispatch`, `DispatchProofs` |
| `Mailbox` | enqueue, drain, receipts, the shell doorbell | `MCMailbox`, `MailboxProofs` |
| `Doorbells` | the doorbells inside a JavaScript process: OMP, Copilot, pi-durable | `MCDoorbells`, `DoorbellsProofs` |
| `RecordArm` | hook runs over records, markers and the record-arm lock | `MCRecordArm`, `RecordArmProofs` |
| `OmpBootstrap` | the two-stage bootstrap of a fresh OMP citizen | `MCOmpBootstrap`, `DoorbellsProofs` |
| `OwnerFence` | ownership of one pi-durable session directory, and the resume that reserves it | `MCOwnerFence`, `OwnerFenceProofs` |
| `Retire` | retire dispatcher, sidecar, pi adapter and receiver | `MCRetire`, `RetireProofs` |
| `CcRetire` | the Claude Code adapter, its helper and the world around both | `RetireProofs` |
| `TrueReceipt` | abstract specification: what the answer to a call that may act promises | implemented by each dispatch of `Dispatch` (`DispatchProofs`), by each request of `Retire` and by `CcRetire` (`RetireProofs`) |
| `ControlSocket` | the shared socket directory | `MCControlSocket`, `ControlSocketProofs` |

`DispatchLock` is shown to implement `DispatchMutex`; `Dispatch` and `Retire`
then take `DispatchMutex` as the lock they use, so that the two levels compose
without multiplying their states. `Retire` contains the Claude Code adapter as
the set of outcomes that `CcRetire` shows for it: `TrueReceipt` says what both
promise, one answer, which was true when it was given and stays so, and both
implement it. So does `Dispatch`, whose act is that the message is taken.

A proof module may be about two components: `RetireProofs` is about `Retire` and
`CcRetire`, `DoorbellsProofs` about `Doorbells` and `OmpBootstrap`. The second
component of each pair therefore names its specification differently
(`CcSpec`, `CcNext`, `BootSpec`, `BootTypeOK` and so on).

Definitions named `...Eager`, `...Silently`, `...Forgotten` and the like, under
a comment that begins with "Mutant", are not part of any specification. Each
is a plausible bug; put in the place of the definition that follows it, it
must make TLC find a property violated. `PROJECT.json` lists the pairs.

### DispatchLock

One `Attempt` is one call of `acquireLock` with its `releaseLock`; its nonce is
the attempt itself. `pc[a]` is the system call it makes next: `create` is
`openSync(lockPath, "wx")`, `write` the claim, `read` and `probe` the
inspection of an existing file, `mark` the exclusive create of the reclaim
marker, `reread` and `unlink` what happens under the marker, `recreate` the
third `tryCreate`, `unmark` the `finally`, `held` a caller that was told `ok`,
`peek` the release between its read and its unlink. `lockBy` and `lockFull`
are the file at the lock path, `marker` the reclaim marker, `pid[p]` what
`kill(p, 0)` can find out. Both calls are synchronous, so a process is inside
one of them at a time (`ThreadFree`). Failures: `WriteError` (a write that
throws, its bytes on disk or not), `CallError` (any other call that throws),
`Crash` at any step, `PidReuse`, and an operator who removes leftovers
(`HandClearLock`, `HandClearMarker`) when the process is gone, as the conflict
texts prescribe.

### Dispatch

Each `Dispatcher` carries one message to one garden id. `pc[d]` is the await it
is at. The target (`record`, `sock`, `armed`) may change between any two
awaits, at most `MaxChanges` times. A connect that is refused classifies as
dead and has delivered nothing; a timeout may have, and leaves the message in
`pending`, from where a slow resident may take it later (`LateAccept`).
`accepted[d]` counts how often the message of `d` was taken. `dirty[d]` records
a `releaseLock` that threw.

### Mailbox

The suffix of a message file is the message's state (`.msg`, `.msg.delivered`,
`.msg.read`, `.msg.delivered.read`). A sender creates, writes, stamps
`state.json` (read, then rename) and pokes. A reader lists, then reads and
archives one file after the other, then stamps. A doorbell wakes on a poke,
globs, renames one file after the other under `set -e`, and announces what has
the suffix `.msg.delivered` by then. Nothing is locked in the code, nor in the
model. File names sort as the numbers of the messages do, which need not be the
order in which the files appear. A poke is remembered until a doorbell wakes and
globs; `NoWakeForgotten` is about that memory.

### Doorbells

One doorbell in one JavaScript process, over one mailbox. `host` says which of
the three it is, chosen at the beginning; they share the gate (`gate`,
`pending`) and differ in what they await, in what a failure does and in
whether notices can be withdrawn. `pc` is what runs, `"loop"` when only a
callback can: the watch fires, a promise settles, a drain ends. Senders, drains
and a second receiver take steps in between. A pass of the doorbell stamps what
is fresh, one rename a step, and announces it; a poke that comes while it runs
or waits sets the flag that makes one more pass. Arming and tearing down are
sequences of the watch and the marker, either of which may fail. A teardown that
cannot read the marker takes it for absent and goes on without a word;
`residue` says that the last one left its marker so, or failed to remove it.
`queued` are the notices the session has not consumed, `reported` those whose
failure has been said aloud. A read is in two places: `read[r]` is the tool
call in the host and `drain[r]` what the bridge does for it. In a pi-durable
host the call may be given up (an abort, a timeout): it judges the notices and
frees the gate while the bridge still drains. `strays` is the mail that such a
drain has taken since notices were last judged, and the one thing that may leave
a notice without its mail.

### RecordArm

A Claude process has a number, a start key and perhaps a session open; a hook
run of it is a record `run[p]` whose `step` is the next read, rename, link or
unlink. A birth looks up, certifies again, mints and publishes by an exclusive
link; an attach goes through `lock`, `recertify`, `attach`, and an arm then
retires the marker of the garden it served before (`previous`, `inspect`,
`retire`), writes the sender marker (`serve`), the signal, the receiver marker
(`mark`), and answers (`emit`). Anything may fail and the hook may die at any
step. `broken` names the gardens where an arm stopped between its two writes:
the code repairs those at the next arm, and the model says so. `Address` is the
strict read by garden id that a dispatch begins with.

### OmpBootstrap

A process of OMP, the sessions that replace one another in it and the
extension's bootstrap: `consumed` is the latch, `active` the session that armed
it, `phase` its stage, `timer` the poll. Handlers run to their end, so each is
one action; only the `sendUserMessage` at the end of one is a step of its own
(`outbox`), because events may fire in it. A *conversation* is what one birth
edge begins, so that a session which replaces itself is another one. Tool calls
belong to the host or to a task subagent.

### OwnerFence

One directory, the processes that open it (`Host`) and those that resume it
(`Parent`). A transaction on the claim is create, read and decide, write,
unlink, each a step; a host or a parent that finds the file waits and then is
refused. The claim has a generation that only grows; a reservation keeps the row
it displaces as its donor, and a withdrawal restores it. The lease is a file per
spelling of the directory, trusted by nobody: another process may take one at
any time. A launched command may be run twice; which of the children adopts the
reservation is what `AdoptedOnce` is about. A parent's ticket keeps the
reservation it answers for, also when the withdrawal has put the donor's row
back, so that `AnswerHolds` speaks of the reservation. Births write the record
and then the location file, under the record-arm lock of `RecordArm`, here taken
or refused in one step; a claim on it that its own owner failed to remove
refuses that owner too.

### CcRetire

One request, the helper it spawns, the two pipes (`control`, `out`), and a
world in which the target may exit, its number be reused, and its record drift
to another session. `npc` is Node's side and `hpc` the helper's; each line is a
message. A write that throws may have left the process; the wall timer may fire
while a line is buffered; the helper may die in the middle of a line or hang.

### Retire

Each `Retirer` is one `entwurf_retire_call`. `pc[d]` follows
`lib/entwurf-v2-retire.ts`: `read` and `inspect` (the record under the lock),
`reread` and `admit` (the same again before anything is written), `enter` (the
requested line), `ask` and `reply` (the adapter), `note` (the outcome line),
`release`. `log` has the whole lines of the sidecar; `torn` is whose short write it
ends with, and the next line that is appended is glued to that tail (`glued`),
readable to nobody although its append succeeded. `wire[d]` is its command on the
way to the receiver; it outlives the request's timeout, and the receiver may even
accept the connection after it (`Accept`). The receiver has generations of sessions (`gens`, `bound`,
`closing`), one latch, and `shut`, the set of shutdowns it has called.

### ControlSocket

`file[a]` is what is at the path of address `a`: nothing, a stale socket file,
or the file of a listening process. A starting session sweeps the directory,
stops its old listener, clears its path and listens. `young[p]` is a history
variable: who has begun to listen since `p` found the path it is about to
unlink dead.

## 3. Runs

Times are for two workers on an idle machine; a run that shares it takes up to
twice as long.

| Run | Checks | States | Shows |
|---|---|---|---|
| `lock` | `MutualExclusion`, `ForeignRemovalIsOfTheDead`, `ImplementsMutex` | 2.9 M, 80 s | four calls in three processes of one machine, one of them making two; any call may fail, any process die and its pid be reused; operators clear torn files and markers |
| `lock_reclaim` | `NothingLeaks`, `StaleIsReclaimed` | 90 k, 60 s | a dead holder's claim does not outlive the next caller, over two hosts, without I/O failures |
| `dispatch` | `AtMostOnce`, `AnswerIsTrue`, `LockSpansDispatch`, `LockIsGivenBack`, `AlwaysAnswers` | 232 k, 30 s | two dispatches, three changes of the target; a dispatch never waits for another one |
| `mailbox` | `NeverReturnedTwice`, `LossIsLoud`, `ReceiptIsEarned`, `NoWakeForgotten` | 1.1 M, 70 s | senders, readers and doorbells with failures anywhere |
| `doorbells` | `UnreadIsCovered`, `NoStaleNotice`, `AdvertisedIsWatched`, `EverySentIsAnnounced` | 747 k, 130 s | each of the three doorbells in a JavaScript process, with failures anywhere |
| `record_arm` | `PairMatches`, `OneAddress`, `DeliverableIsServed`, `GardenIsForLife` | 3.5 M, 140 s | hooks that fire, overtake each other, die and fail to write |
| `omp_bootstrap` | `OneTask`, `TaskIsProved`, `NoPollOutlives`, `BootstrapSettles` | 277 k, 50 s | sessions replaced at any time, subagents that call the same tool, sends that throw |
| `omp_bootstrap_launch` | `TaskIsOfTheLaunch`, violated | - | see findings |
| `owner_fence` | `OneUser`, `AdoptedOnce`, `LastOpenIsKept`, `AnswerHolds` | 308 k, 55 s | three hosts, two parents, one fault at any step |
| `retire` | `AnswerIsTrue`, `OneShutdown`, `AskedForIt`, `SidecarIsTrue` | 2.2 M, 55 s | two requests, two session generations, one rewrite of the record; lines torn by a short write and glued to the next |
| `cc_retire` | `NoStrangerHit`, `ReceiptIsTrue`, `GoIsFresh`, `AlwaysAnswers` | 9.2 k | the whole state space of one request, which ends even if the helper hangs |
| `control_socket` | `StartFindsRoom`, `OnlyYoungAreLost` | 604 k, 15 s | two processes; the second resumes one of the two sessions of the first; leftovers at any path |

Every component has a type invariant (`TypeOK`, `CcTypeOK`, `BootTypeOK`), and
it is a theorem of each.

**Bounds, and why they are enough.**

- *Lock.* A false reclaim needs a dead holder, a reclaimer that has judged it,
  and a third party that changes the file in between; the fourth attempt lets
  one process release and come back. Three processes let a reclaimer die too.
- *Dispatch.* One dispatch makes at most two sends, two resolutions and one
  release. Two of them make every pair of stages meet; three changes of the
  target put one change before the first send, one before the fallback and one
  before the second send.
- *Mailbox.* The races are pairwise (two readers on a file, a reader and a
  doorbell, two stamps); two messages make the sort order matter and let a
  call fail after it has archived one of them.
- *Doorbells.* Two messages let one be stamped while the other arrives, and make
  a notice cover a part of the mail. Two reads let one wait behind the other in
  the gate; two arms make a rearming; one read comes from outside
  (`MaxOutside`).
- *RecordArm.* Two processes, two sessions, two gardens and three hook runs: two
  runs overtake each other while a third comes after both, and the second birth
  of a session makes the second record. Two start keys let a number be reused.
  The theorems hold for every number of each.
- *OmpBootstrap.* Three conversations: the one that arms, one that replaces it,
  and one more; two sessions, so that a conversation may also return to the
  first; two tool calls, the host's and a subagent's.
- *OwnerFence.* Three hosts, because a command launched twice needs two children
  beside the owner of before; two parents for a reservation of a dead parent's
  reservation; two spellings for the lease that is looked for at the wrong
  place. Seven generations (`MaxWrites`) are an open and close, a reservation,
  an adoption and another. `MaxFaults = 1`: one death, failed call or foreign
  lease, at every place; several are covered by the theorems.
- *CcRetire.* No bound: one request, and its helper writes at most three lines
  (a fourth, partial one at its death).
- *Retire.* The lock serialises two requests, and a third adds no new meeting
  with a late command; two generations let a command meet a session that came
  after the one it was meant for. `MaxRewrites = 1` changes the record once
  while a request is between its two reads.
- *ControlSocket.* The race is between one sweeping and one starting process;
  the second address lets a process switch sessions, and its being the first's
  alone tells what sharing costs from what sweeping costs. The third is nobody's.

`CHECK_DEADLOCK FALSE` is set where things end: every attempt, dispatch,
request, read or hook run is one call, and with a bound on their number nothing
remains to do. The socket directory never stops, and its run checks for
deadlock.

**Fairness.**

- `DispatchLock`: a call that has begun runs on (`WF` of its step); nothing
  makes a call begin, a process die or an operator act.
- `Dispatch`: a call that is not killed runs on. Each await has a timeout of
  its own in the code (probe 300 ms, control RPC 5 s).
- `Doorbells`: one `WF`, over everything that goes on by itself: what JavaScript
  runs next, an event of the watch, a promise that settles, a poke whose sender
  has written its file. Nothing makes a message be sent or read, a session end
  or a call fail.
- `OmpBootstrap`: a scheduled timer fires, the deadline passes, a send that was
  called returns or throws, an edge that has happened is reported, a tool call
  returns and a turn ends. Nothing makes the tools come up, a prompt be answered
  or a callback succeed.
- `CcRetire`: Node's event loop and timer run, and SIGKILL of the own child
  works. The helper is given no fairness: it may hang.
- The others are about safety alone, and state none.

## 4. Findings

*OMP bootstrap* (`omp_bootstrap_launch`). The bootstrap's latch is meant to
close at the launch's first edge, whatever comes of it: a latch left open "would
let the next `/new` arm the caller's task into a session the caller never
opened" (`meta-bridge-omp.ts:1154`). Three early returns before that line (a
refused envelope, a throwing upsert, an unreadable flag) leave it open. The run
shows one failed birth, one change of session, and the task in the second.

What follows was met while modelling; the models have it, and no property is
stated against it.

- A drain that meets a file which a doorbell has just renamed throws
  (`meta-session.ts:2802`), with what it has archived before already out of the
  mailbox. `LossIsLoud` counts such a call as one that answers for it.
- A sender's stamp of `state.json` writes back the `lastReadAt` that it has read,
  over a newer one (3006). `ReceiptIsEarned` says what still holds.
- A message file has its final name before it has its body (2727): a drain in
  between returns an empty message and archives it.
- A sweep unlinks by name a path that it has found dead one await earlier
  (`entwurf-control.ts:207`); a peer that listens there by then loses its socket.
  `OnlyYoungAreLost` says that nobody else does.
- A marker that cannot be read counts as no marker (`meta-session.ts:2153`), so the
  teardowns of OMP (`meta-bridge-receive-omp.ts:622`) and pi-durable
  (`meta-bridge-pi-durable.ts:900`) may close the watch, leave the marker and report
  nothing, where a comment says that "a closed watch under a surviving marker is
  the false deliverability this unit refuses" (`meta-bridge-pi-durable.ts:883`).
  `AdvertisedIsWatched` excludes this case by `residue`.
- A pi-durable read that is aborted or times out (`meta-bridge-pi-durable.ts:836`,
  `1028`) withdraws notices before its drain is over; a notice for what is drained
  later stays until the next read. `NoStaleNotice` excludes this by `strays`.
- A short write leaves a part of a line in the retirement sidecar
  (`retirement-event.ts:242`), and the next request's line, recorded without
  complaint, is glued to it. `SidecarIsTrue` asks then that the torn write was
  reported.
- `admitOwner` attributes a lease that is present without comparing its
  directory with the selected spelling, as the reservation does (the comment at
  `pi-durable-owner-fence.ts:822`). `OneUser` does not depend on leases.
- A throw of `sendUserMessage` at the end of a turn is silent, and the poll of
  the OMP bootstrap has no session fence: the callback prompt may reach a
  session whose edge is still to be reported. The task may not (`TaskIsProved`).

## 5. Proofs

The theorems hold for every value of the constants that satisfies the named
assumptions. Each component has one inductive invariant, beside its type
invariant, and the properties of the runs are derived from it. The runs do not
list the invariants: TLC has checked them on small instances, and the proofs
cover them for every instance.

**DispatchLockProofs** (from `NoneAssumption`, `ProcAssumption`,
`HostAssumption`, and, as a hypothesis of the theorems that need it, that no operator clears a
complete claim, although the conflict text offers it: cleared between a
reclaimer's re-read and its unlink, the claim of whoever comes next is deleted). `MutualExclusion` is not
inductive: a reclaimer about to unlink says nothing about holders. `LockInv`
adds that who got through `create` finds its own file at the path
(`OwnerOnDisk`), that at most one caller is past the marker (`MarkerIsMine`),
that what it will unlink is the claim it judged, of a process that is dead
(`JudgedDead`), and that dead processes take no step (`DeadAreStopped`).
`HostAssumption` says that machines which share a host name do not share the
lock directory. `NothingLeaks` is proved from an account of each leftover
(`LockIsAccounted`, `MarkerIsAccounted`): a lock file or marker is in the hands of a call
that is still running or holds it, or one of the faults explains it. The last theorem is the
refinement of `DispatchMutex`.

**DispatchProofs.** `DispatchInv` ties the lock to the locked stages and to a
dirty release, and says that nothing has been taken from a dispatch that has
not reached its final outcome. From it follow `AtMostOnce`, `AnswerIsTrue`,
`LockSpansDispatch` and `LockIsGivenBack`. It gives the refinement of
`TrueReceipt` too, with one lemma: an ended dispatch stays ended, with its answer
(`EndIsFinal`). The answer counts from the end of the dispatch, because a
rejection whose release throws becomes a failure; one whose process dies is taken
at the last thing it had settled on.

**MailboxProofs.** `MailboxInv` says that what a call has taken and put out of
its list is archived, and that no other call has it so; that is what makes the
rename the arbiter between two drains. `DoorbellInv` says that a doorbell which
does not run has nothing in hand; with it `NoWakeForgotten` is inductive.

**RecordArmProofs.** `ArmInv` is stated by process and kept by parts. From its
lookup or birth on, a run is about a record that exists and is of its session
(`About`); from the recertification on, it holds that record's lock, and what it
minted, or read, is in the record (`Locks`): a certified store has one record of
the session, so the one attached is the one locked. Record and marker may differ
only under such a run or where one has failed (`Pairs`), which is `PairMatches`.
`Sole` says that an arm which has retired its previous garden speaks for its own
alone, and with `Begun` (the session of a run is open or over) that gives
`DeliverableIsServed`. What was addressed is bound (`Reached`), so that a second
record of the session stops every later dispatch: `OneAddress`. Every step of a
process is shown to leave alone what the others rely on (`Moves`), which reduces
the invariant to the process that moves.

**DoorbellsProofs**, the doorbells. `UnreadIsCovered` and `NoStaleNotice` speak
of the moments when nobody has the gate; `DoorbellInv` says what happens while
somebody has it. A pass keeps the gate to its end, and a pi-durable read makes
its call and judges only with it; its drain may go on after that, if the call
was given up (`Gate`). What has been stamped is announced, or the pass that
stamps it is at work and will count it, or the failure of a pass is known
(`Covered`). What a pass is about to announce has been stamped and is still
unread, because no read of the contact comes between, or is among the strays
(`Batch`). A notice in the session's queue is held by the contact, or a read is
withdrawing it, or its failure was reported, and one whose mail has all gone,
strays apart, has a read at work that will judge it (`Notices`). `Arming` is
apart: an armed doorbell watches, and the marker survives only a teardown that
could not read or remove it. The theorems hold for any number of messages, reads
and arms and for each host.

**DoorbellsProofs**, the OMP bootstrap. `BootstrapInv` says what has not happened before the
latch (`Unspent`), what has been sent by each phase (`Sendings`), that only an
edge on its way separates an active bootstrap from the conversation that armed
it (`Bound`), and that the result which released it was the host's, in that
conversation (`Heard`).

**OwnerFenceProofs.** `FenceInv`: one process is inside a transaction
(`OneInside`), no generation is given twice (`Numbered`), a host has no storage
before it has its claim (`Early`), who may have the storage open owns the claim
(`Owned`), and so does whose ticket has the claim's generation (`Ticketed`), and
what a host is about to write takes the claim from nobody who has the storage
(`Drafted`): these give `OneUser`. A reservation that the claim has gone beyond
is out of everybody's reach (`Superseded`), hence `AdoptedOnce`; a donor is
always a real open (`Faithful`), hence `LastOpenIsKept`; and what a parent has
observed is behind the claim (`Recorded`), and a parent that answers "withdrawn"
has its reservation among the withdrawn ones (`Pending`), hence `AnswerHolds`.
The proof rests on one lemma, `StepKinds`: every step is quiet, a write, a
draft, a reservation or a withdrawal.

**RetireProofs**, the dispatcher. `RetireInv` is split so that each part needs
few facts: `LockInv`, `Stages` (what a request has done by each stage), `Traces`
(whose lines are in the sidecar by then, whole, torn or glued), `Delivery` (a
command that is unread has had no effect), `Latch` (the bound session is latched
once it has been shut down). `SidecarInv` adds what the record status claims
(`NoteClaims`); a recorded line that cannot be read is glued to a tail whose
writer reported it. The latch, not the lock, is what proves `OneShutdown`: a
timed-out command outlives the lock of its request. From `AnswerIsTrue`, and
because a request decides its outcome once and no shutdown call is unmade, each
request implements `TrueReceipt` (`RequestsGiveReceipts`).

**RetireProofs**, the Claude Code adapter. TLC explores all of `CcRetire`; the
proofs say why it holds. `Pinned`: the number never comes back to the target, so
a pidfd that was opened before the key was compared pins the target if it pins
what now has the key. `Exchange`: a frame is on its way only if it was written,
and the helper goes on only with it. `Script`: what the helper has said, read or
not, tells where it is and whether it has signalled; whatever the order in
which lines, timers, aborts and deaths arrive, the answer is worked out from that
(`LastWord`). `GoIsFresh` is an action property over the same invariant.
`CcGivesReceipts` is the refinement of `TrueReceipt`.

**ControlSocketProofs.** `ControlSocketInv`: a path leads to the process that
serves it (`Bindings`), what a sweep is about to unlink was dead or has been
taken since (`Doomed`), a stopped server does not listen (`Starting`), and a
cleared path stays clear unless another process hosts the same session
(`Cleared`).

**Only model-checked:** liveness (`StaleIsReclaimed`, the two `AlwaysAnswers`,
`EverySentIsAnnounced`, `BootstrapSettles`), which needs fairness and `ENABLED`,
out of the prover's reach. Every safety property of a passing run is a theorem;
that of the violated run is false. The three refinements of `TrueReceipt` are
proved and are in no run; TLC has confirmed them on the instances of `dispatch`,
`retire` and `cc_retire`.

## 6. Abstractions a reader should know

- Garden ids other than the one under test, message texts, times and the texts
  of answers are left out. A nonce, a start key and an attach incarnation never
  repeat.
- A directory listing is one step, and so are the scan of a record store and the
  three reads of the Claude Code binding check; `Retire` takes a session start
  as one step.
- In `Retire` a crash within an append is the append, whole or torn, and then
  the crash, because a request that dies gives no receipt either way. A death at
  the release is the release: the lock is free and nothing is left to do. What
  lies at the address is told apart only by whether it claims it ("stale") or
  not ("absent"). An abort is what any check of the signal may see, and the
  reasons for which the receiver refuses (busy, pending messages, no TUI) are
  free.
- In `ControlSocket`, closing a server removes its path at once (libuv does),
  and one process handles its session events one after the other. Alias links
  and Windows pipes are left out.
- In `Dispatch`, an address conflict is any file at the path that is not a
  socket. It may be a symlink, which the connect of a send follows: such a send may
  meet a socket that answers, one that stalls, or none (`Answered`, `Stalls`). And the push host decides freely what a probe or a send reports.
- In `Doorbells`, drains of a pi-durable mailbox that bypass its gate are left
  out, and those of the other hosts are bounded; OMP's retry timer is left out;
  a pass that fails is known from the log alone, and a Copilot send that fails
  leaves its messages unannounced until the next poke.
- In `RecordArm`, incarnations are the numbers of the hook runs, one process runs
  one hook at a time, and a failed arm leaves its garden in `broken` until a
  later arm writes its marker.
- In `OmpBootstrap`, an exception from `ctx.getSessionId` or from clearing a
  timer is left out, and so is the sender marker of an older session that stays
  when a later birth fails.
- In `OwnerFence`, all processes are on one machine: a claim of another host, or
  one whose process cannot be examined, is a refusal, and every refusal may
  happen freely. A transaction file left by a dead process is never removed: the
  operator who would is not modelled. A lease may be taken over by a stranger
  whatever its file says. A rail may report that it has launched nothing though
  it has.

## 7. Not modelled

- *Control server commands, compaction guard* (`entwurf-control.ts` 498-715,
  `lib/compaction-send-guard.ts`): what they admit depends on when the vendor
  runtime reports a turn or a compaction, which this repository does not show.
  Their answers are outcomes in `Dispatch`.
- *Native push* (`lib/entwurf-v2-native-push.ts`): one send, one probe, one
  retry; whether the retry delivers twice is decided by an external server.
- *Remote pair* (`lib/remote-pair-*.ts`): one envelope and one acknowledgement
  over an ssh child, no retry, no state that survives the call.
- *ACP backend* (`lib/acp/`): session reuse, cancellation and child processes,
  independent of the messaging core and a development of its own.
- *Fresh call, launch rails, preflights*
  (`lib/{fresh-call,herdr,mux,codex,omp,copilot}-*.ts`): sequences of calls to
  external programs and reads of their configuration.
- *Fresh cut of the stores*: an operator's archival; `Doorbells` has its effect
  on an armed doorbell.
- *Listing, MCP bridge, guidance, trust, model lock, herdr plugin, Windows
  binding, scripts, demo*: reads, translation, text, packaging and tests.

## 8. What could come next

1. An abstract wake-up specification that `Mailbox` and `Doorbells` both
   implement.
2. The claim protocol of a fresh call, and the fresh cut of the stores against
   running doorbells and readers.
3. `CcRetire` for any number of requests at one target, with one adapter each.
4. The control server, once the order of the vendor runtime's events is known:
   the session binding over its awaits, and the flag of the compaction guard.
5. The session table of the ACP backend.
