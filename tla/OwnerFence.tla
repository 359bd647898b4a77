---------------------------- MODULE OwnerFence ----------------------------
(***************************************************************************)
(* One pi-durable session directory D, and who may have it open:           *)
(*   - the owner fence (pi-durable-owner-fence.ts): a claim file in D,     *)
(*     replaced inside a transaction, and the reservation of D that a      *)
(*     parent takes for one child;                                         *)
(*   - the owned open (sessions.ts, runtime.ts of pi-durable): admission,  *)
(*     native lease, storage, and the end it records;                      *)
(*   - the pi-durable half of a visible resume: reserve, launch, withdraw  *)
(*     or keep, observe;                                                   *)
(*   - the birth that binds the garden record to the host that has D open. *)
(*                                                                         *)
(* A process is one incarnation: its number and start key together.  Dying *)
(* is a step of its own and may come between any two others.  D may be     *)
(* spelled in several ways, and the native lease, whose staleness is only  *)
(* a matter of file times, is one file for each spelling.                  *)
(***************************************************************************)
EXTENDS Naturals, FiniteSets

CONSTANTS
  Host,      \* processes that open D
  Parent,    \* processes that resume its citizen
  Spelling,  \* the paths that reach D
  Foreign,   \* an opener that knows no fence and holds a lease
  None,      \* nobody, nothing
  MaxWrites, \* bound: claims drafted, hence generations
  MaxFaults  \* bound: processes that die, calls that fail, waits that run out, leases
             \* that a stranger takes

ASSUME ActorAssumption == /\ Host \cap Parent = {}
                          /\ None \notin Host \cup Parent /\ Foreign \notin Host \cup Parent \cup {None}
ASSUME BoundAssumption == MaxWrites \in Nat /\ MaxFaults \in Nat

VARIABLES
  claim,     \* the claim file of D
  tx,        \* who created the transaction file that is there
  lease,     \* lease[s]: who made the lease file beside the spelling s
  arm,       \* the record-arm lock of the citizen
  target,    \* the dispatch lock of the citizen
  record,    \* the host whose attach the garden record carries
  carrier,   \* the host that the location file beside it names
  made,      \* D exists
  alive,     \* the processes that have not died
  pc,        \* pc[p]: where p is
  hold,      \* hold[p]: how far p is in its transaction
  draft,     \* draft[p]: the claim that p is about to write
  ticket,    \* ticket[p]: the claim p last wrote, as it remembers it; a parent remembers its
             \* reservation, not the row it puts back
  spelled,   \* spelled[h]: the path by which h selected D
  source,    \* source[h]: the generation h was launched to adopt; 0 for an ordinary open
  storage,   \* storage[h]: what h knows of its storage
  answer,    \* answer[p]: what the last resume of p said of its reservation; "none" for
             \* an answer that promises nothing
  writes,    \* the number of claims drafted so far
  faults,    \* the number of faults so far
  native,    \* history: the row that an owned open wrote last
  adoptions, \* history: <<g, h>>: h adopted the reservation of generation g
  withdrawn  \* history: the generations withdrawn

files == <<claim, tx, lease, record, carrier, made>>
locks == <<arm, target>>
self == <<alive, hold, draft, ticket, spelled, source>>
process == <<self, pc, storage, answer>>
history == <<native, adoptions, withdrawn>>
bounds == <<writes, faults>>
vars == <<files, locks, process, bounds, history>>

Process == Host \cup Parent
Generation == 0..MaxWrites
State == {"none", "fenced", "leased", "storage-open", "closed", "close-failed", "reserved"}
Row == [gen : Generation, state : State, owner : Process \cup {None},
        lease : {"never-held", "held", "released", "failed"}, clean : BOOLEAN,
        dir : Spelling \cup {None}]
NoRow == [gen |-> 0, state |-> "none", owner |-> None, lease |-> "never-held",
          clean |-> FALSE, dir |-> None]
\* snap and bound belong to a reservation, and donor is its native row; adopted is the
\* generation of the reservation that the owner adopted.
Claim == [row : Row, adopted : Generation, snap : {"absent", "attributed"},
          bound : Host \cup {None}, donor : Row]
Native(row, adopted) ==
  [row |-> row, adopted |-> adopted, snap |-> "absent", bound |-> None, donor |-> NoRow]
NoClaim == Native(NoRow, 0)

Place == {"idle", "arm", "create", "admit", "disarm", "quit", "lease", "leased", "unleased", "drop",
          "init", "opened", "up", "carry", "shut", "release", "end", "unreleased", "out",
          "reserve", "launch", "withdraw", "observe"}

TypeOK ==
  /\ claim \in Claim
  /\ tx \in Process \cup {None}
  /\ lease \in [Spelling -> Host \cup {Foreign, None}]
  /\ arm \in Process \cup {None}
  /\ target \in Parent \cup {None}
  /\ record \in Host \cup {None} /\ carrier \in Host \cup {None}
  /\ made \in BOOLEAN
  /\ alive \subseteq Process
  /\ pc \in [Process -> Place]
  /\ hold \in [Process -> {"no", "drafted", "written"}]
  /\ draft \in [Process -> Claim] /\ ticket \in [Process -> Claim]
  /\ spelled \in [Host -> Spelling \cup {None}]
  /\ source \in [Host -> Generation]
  /\ storage \in [Host -> {"never-opened", "unknown", "failed", "closed", "open"}]
  /\ answer \in [Parent -> {"none", "withdrawn", "adopted", "lost"}]
  /\ writes \in Generation /\ faults \in 0..MaxFaults
  /\ native \in Row
  /\ adoptions \subseteq Generation \X Host
  /\ withdrawn \subseteq Generation

Init ==
  /\ claim = NoClaim /\ tx = None
  /\ lease = [s \in Spelling |-> None]
  /\ arm = None /\ target = None
  /\ record = None /\ carrier = None
  /\ made \in BOOLEAN
  /\ alive = Process
  /\ pc = [p \in Process |-> "idle"]
  /\ hold = [p \in Process |-> "no"]
  /\ draft = [p \in Process |-> NoClaim] /\ ticket = [p \in Process |-> NoClaim]
  /\ spelled = [h \in Host |-> None]
  /\ source = [h \in Host |-> 0]
  /\ storage = [h \in Host |-> "never-opened"]
  /\ answer = [p \in Parent |-> "none"]
  /\ writes = 0 /\ faults = 0
  /\ native = NoRow /\ adoptions = {} /\ withdrawn = {}

At(p, place) == p \in alive /\ pc[p] = place
Goto(p, place) == pc' = [pc EXCEPT ![p] = place]

\* Something goes wrong outside.
Fault == faults < MaxFaults /\ faults' = faults + 1
NoFault == UNCHANGED faults

\* A resume answers, and gives its dispatch lock back.
Answer(p, a) ==
  /\ answer' = [answer EXCEPT ![p] = a]
  /\ target' = None

\* A host is done for good; a parent may resume again.
Rest(p) == IF p \in Host THEN "out" ELSE "idle"

(***************************************************************************)
(* A transaction: create the file exclusively, read and decide, write, and *)
(* unlink what was created.  A file that is there is waited for and then   *)
(* refused; nobody removes one that another process left behind.           *)
(***************************************************************************)
\* Where a transaction leads, when it was written and left, and when it was not.
Onward(p) ==
  CASE pc[p] = "admit" /\ source[p] # 0 -> "disarm"
    [] pc[p] \in {"admit", "create"} /\ source[p] = 0 -> "lease"
    [] pc[p] = "leased" -> "init"
    [] pc[p] = "opened" -> "up"
    [] pc[p] = "reserve" -> "disarm"
    [] OTHER -> Rest(p)
Instead(p) ==
  CASE pc[p] = "admit" /\ source[p] # 0 -> "quit"
    [] pc[p] = "leased" -> "drop"
    [] pc[p] = "opened" -> "shut"
    [] pc[p] = "reserve" -> "quit"
    [] OTHER -> Rest(p)

\* The transaction of p is over.
Over(p, place, a) ==
  /\ Goto(p, place)
  /\ hold' = [hold EXCEPT ![p] = "no"]
  /\ draft' = [draft EXCEPT ![p] = NoClaim]
  /\ IF pc[p] = "withdraw" THEN Answer(p, a) ELSE UNCHANGED <<answer, target>>
  /\ UNCHANGED <<claim, lease, record, carrier, made, arm, alive, spelled, source, storage, history>>
Refused(p) == Over(p, Instead(p), "none") /\ UNCHANGED <<ticket, writes>>

\* The file is created, and the claim that will be written is decided on.
Draft(p, body) ==
  /\ writes < MaxWrites /\ writes' = writes + 1
  /\ tx' = p
  /\ draft' = [draft EXCEPT ![p] = body]
  /\ hold' = [hold EXCEPT ![p] = "drafted"]
  /\ UNCHANGED <<claim, lease, record, carrier, made, locks, alive, pc, ticket, spelled,
                 source, storage, answer, faults, history>>

\* A decision that refuses leaves the files as they were, and so does one whose read fails or
\* that cannot prove a holder dead.
Enter(p, eligible, body) ==
  /\ hold[p] = "no" /\ tx = None
  /\ \/ eligible /\ Draft(p, body)
     \/ /\ IF eligible THEN Fault ELSE NoFault
        /\ Refused(p) /\ UNCHANGED tx

\* The rename of the new claim over the old one.
Write(p) ==
  /\ p \in alive /\ hold[p] = "drafted"
  /\ claim' = draft[p]
  /\ hold' = [hold EXCEPT ![p] = "written"]
  /\ native' = IF p \in Host THEN draft[p].row ELSE native
  /\ adoptions' = IF p \in Host /\ pc[p] = "admit" /\ source[p] # 0
                  THEN adoptions \cup {<<source[p], p>>} ELSE adoptions
  /\ withdrawn' = IF pc[p] = "withdraw"
                  THEN withdrawn \cup {ticket[p].row.gen} ELSE withdrawn
  /\ UNCHANGED <<tx, lease, record, carrier, made, locks, alive, pc, draft, ticket, spelled,
                 source, storage, answer, bounds>>

Leave(p) ==
  /\ p \in alive /\ hold[p] = "written" /\ tx = p
  /\ tx' = None
  /\ ticket' = IF pc[p] = "withdraw" THEN ticket ELSE [ticket EXCEPT ![p] = draft[p]]
  /\ Over(p, Onward(p), "withdrawn")
  /\ UNCHANGED bounds

\* The write fails, or the unlink after it does and the file stays.  Either way the step is
\* an error to p, whether or not it wrote.
Break(p) ==
  /\ p \in alive /\ hold[p] # "no" /\ Fault
  /\ IF hold[p] = "drafted" THEN tx' = None ELSE UNCHANGED tx
  /\ Refused(p)

Transacting == {"create", "admit", "leased", "unleased", "opened", "end", "unreleased", "reserve", "withdraw"}

\* The wait for another's file runs out: at once a fault, while that other is at work.
WaitEnds(p) ==
  /\ p \in alive /\ pc[p] \in Transacting /\ hold[p] = "no" /\ tx # None
  /\ IF tx \in alive /\ hold[tx] # "no" THEN Fault ELSE NoFault
  /\ Refused(p) /\ UNCHANGED tx

(***************************************************************************)
(* The record-arm lock: taken at once, or refused when a claim is there,   *)
(* the caller's own included; reclaimed from the dead.  Releasing it may   *)
(* fail, and then it stays with a living process.                          *)
(***************************************************************************)
Take(p, into) ==
  /\ arm = None \/ arm \notin alive
  /\ arm' = p
  /\ Goto(p, into)

\* The two ways out of the lock, given where each leads.
GiveBack(p, into, orElse) ==
  \/ arm' = None /\ Goto(p, into) /\ NoFault
  \/ arm' = arm /\ Goto(p, orElse) /\ Fault

Busy == arm # None

\* The record and the location file beside it come from one attach.
Paired == record # None /\ record = carrier

(***************************************************************************)
(* The owned open.                                                         *)
(***************************************************************************)
\* A host is started by hand: it selects D by one of its paths, or creates it.
Start(h) ==
  /\ At(h, "idle")
  /\ \E s \in Spelling : spelled' = [spelled EXCEPT ![h] = s]
  /\ made' = TRUE
  /\ Goto(h, IF made THEN "admit" ELSE "create")
  /\ UNCHANGED <<claim, tx, lease, record, carrier, locks, alive, hold, draft, ticket, source,
                 storage, answer, bounds, history>>

\* The command a resume launched is run once more.
Relaunch(h, k) ==
  /\ At(h, "idle") /\ source[k] # 0
  /\ source' = [source EXCEPT ![h] = source[k]]
  /\ spelled' = [spelled EXCEPT ![h] = spelled[k]]
  /\ Goto(h, "arm")
  /\ UNCHANGED <<files, locks, alive, hold, draft, ticket, storage, answer, bounds, history>>

Body(h, state, outcome, clean, adopted) ==
  Native([gen |-> writes + 1, state |-> state, owner |-> h, lease |-> outcome, clean |-> clean,
          dir |-> spelled[h]], adopted)

Fenced(h, adopted) == Body(h, "fenced", "never-held", FALSE, adopted)
Sidecar(s) == lease[s] # None

\* "unknown", the other outcome that attributes a lease, is one no open records.
Attributed(row) == row.lease = "held"

\* The admission table: a D unarmed or ended needs a path without a lease, unless this
\* open made D; any other needs a dead owner, and a lease that is there attributed to it.
Admissible(h) ==
  LET row == claim.row
      free == ~Sidecar(spelled[h])
  IN  \/ row.state = "none" /\ pc[h] = "create"
      \/ row.state \in {"none", "closed"} /\ free
      \/ /\ row.state \notin {"none", "closed"} /\ row.owner \notin alive
         /\ \/ free
            \/ Attributed(row)
            \/ /\ row.state = "reserved" /\ claim.snap = "attributed"
               /\ claim.donor.dir = spelled[h]

AdmitOwner(h) ==
  /\ h \in alive /\ pc[h] \in {"admit", "create"} /\ source[h] = 0
  /\ Enter(h, Admissible(h), Fenced(h, 0))

TakeArm(h) == At(h, "arm") /\ source[h] # 0 /\ Take(h, "admit") /\ UNCHANGED
  <<files, target, self, storage, answer, bounds, history>>

\* An adoption takes exactly the reservation it was launched for.
Adoptable(h) ==
  /\ Paired
  /\ claim.row.state = "reserved" /\ claim.row.gen = source[h]
  /\ record = claim.bound
  /\ spelled[h] = claim.row.dir
  /\ claim.snap = "absent" => ~Sidecar(spelled[h])

AdoptOwner(h) ==
  /\ At(h, "admit") /\ source[h] # 0
  /\ Enter(h, Adoptable(h), Fenced(h, claim.row.gen))

\* The native lease is taken when nobody has it or its file looks old, whoever made it.
TakeLease(h) ==
  /\ At(h, "lease")
  /\ lease' = [lease EXCEPT ![spelled[h]] = h]
  /\ Goto(h, "leased")
  /\ UNCHANGED <<claim, tx, record, carrier, made, locks, self, storage, answer, bounds, history>>

LeaseRefused(h) ==
  /\ At(h, "lease")
  /\ Goto(h, "unleased")
  /\ UNCHANGED <<files, locks, self, storage, answer, bounds, history>>

\* An owner's own transition, on the generation it last wrote.
Transition(h, from, body) ==
  Enter(h, ticket[h].row.state \in from /\ claim.row.gen = ticket[h].row.gen, body)

Leased(h) ==
  /\ At(h, "leased")
  /\ Transition(h, {"fenced"}, Body(h, "leased", "held", FALSE, ticket[h].adopted))
EndUnleased(h) ==
  /\ At(h, "unleased")
  /\ Transition(h, {"fenced"}, Body(h, "closed", "never-held", FALSE, ticket[h].adopted))
StorageOpened(h) ==
  /\ At(h, "opened") /\ storage[h] # "never-opened"
  /\ Transition(h, {"leased"}, Body(h, "storage-open", "held", FALSE, ticket[h].adopted))

\* The preparation fails; or the open is attempted, and the storage and the session over it
\* open or fail.
OpenStorage(h) ==
  /\ At(h, "init")
  /\ \/ Goto(h, "shut") /\ UNCHANGED storage
     \/ /\ Goto(h, "opened") \/ Goto(h, "shut")
        /\ storage' = [storage EXCEPT ![h] = "open"]
  /\ UNCHANGED <<files, locks, self, answer, bounds, history>>

\* The session is closed, or its initialisation fails after the open.  Only a close that
\* resolved for an opened session proves that the storage is closed.
Close(h) ==
  /\ At(h, "up")
  /\ \E end \in {"closed", "failed", "unknown"} : storage' = [storage EXCEPT ![h] = end]
  /\ Goto(h, "release")
  /\ UNCHANGED <<files, locks, self, answer, bounds, history>>

Shut(h) ==
  /\ At(h, "shut")
  /\ IF storage[h] = "never-opened" THEN UNCHANGED storage
     ELSE \E end \in {"failed", "unknown"} : storage' = [storage EXCEPT ![h] = end]
  /\ Goto(h, "release")
  /\ UNCHANGED <<files, locks, self, answer, bounds, history>>

\* The lease file is removed, whoever made it, or the removal fails.
Release(h) ==
  /\ pc[h] \in {"drop", "release"} /\ h \in alive
  /\ \/ /\ lease' = [lease EXCEPT ![spelled[h]] = None]
        /\ Goto(h, IF pc[h] = "drop" THEN "out" ELSE "end")
        /\ NoFault
     \/ /\ Fault
        /\ Goto(h, IF pc[h] = "drop" THEN "out" ELSE "unreleased")
        /\ UNCHANGED lease
  /\ UNCHANGED <<claim, tx, record, carrier, made, locks, self, storage, answer, writes, history>>

\* The end of an open: closed only when the lease was released and the storage is closed or
\* was never opened; close-failed for anything else.
Ended(h, state, outcome) ==
  Transition(h, {"leased", "storage-open"},
             Body(h, state, outcome, storage[h] = "closed", ticket[h].adopted))

\* Mutant: whatever the end was.
ClosedHopefully(h) == At(h, "end") /\ Ended(h, "closed", "released")

Closed(h) ==
  /\ At(h, "end") /\ storage[h] \in {"closed", "never-opened"}
  /\ storage[h] = "closed" => ticket[h].row.state = "storage-open"
  /\ Ended(h, "closed", "released")

CloseFailed(h) ==
  \/ At(h, "end") /\ storage[h] \notin {"closed", "never-opened"} /\ Ended(h, "close-failed", "released")
  \/ At(h, "unreleased") /\ Ended(h, "close-failed", "failed")

(***************************************************************************)
(* The birth of an open session: under the record-arm lock, the attach and *)
(* the location file that copies it; the second write and the release may  *)
(* fail.  A birth that stops before the attach changes nothing.            *)
(***************************************************************************)
Attach(h) ==
  /\ At(h, "up") /\ record # h
  /\ Take(h, "carry")
  /\ record' = h
  /\ UNCHANGED <<claim, tx, lease, carrier, made, target, self, storage, answer, bounds, history>>

Locate(h) ==
  /\ At(h, "carry")
  /\ \/ carrier' = h /\ GiveBack(h, "up", "up")
     \/ UNCHANGED carrier /\ Fault /\ arm' = None /\ Goto(h, "up")
  /\ UNCHANGED <<claim, tx, lease, record, made, target, self, storage, answer, writes, history>>

\* An adoption leaves the record-arm lock: with its admission, or with a refusal.
LeaveAdoption(h) ==
  /\ \/ At(h, "disarm") /\ GiveBack(h, "lease", "out")
     \/ At(h, "quit") /\ GiveBack(h, "out", "out")
  /\ UNCHANGED <<files, target, self, storage, answer, writes, history>>

(***************************************************************************)
(* The resume of the citizen.                                              *)
(***************************************************************************)
Resume(p) ==
  /\ At(p, "idle")
  /\ target = None \/ target \notin alive
  /\ target' = p
  /\ answer' = [answer EXCEPT ![p] = "none"]
  /\ Goto(p, "arm")
  /\ UNCHANGED <<files, arm, self, storage, bounds, history>>

TakeArmToReserve(p) ==
  /\ At(p, "arm") /\ Take(p, "reserve")
  /\ UNCHANGED <<files, target, self, storage, answer, bounds, history>>

ArmBusy(p) ==
  /\ At(p, "arm") /\ Busy
  /\ Goto(p, Rest(p))
  /\ IF p \in Parent THEN Answer(p, "none") ELSE UNCHANGED <<answer, target>>
  /\ UNCHANGED <<files, arm, self, storage, bounds, history>>

\* The native donor: the row that a reservation keeps, or a native claim's own.
Donor == IF claim.row.state = "reserved" THEN claim.donor ELSE claim.row

\* What a reserve makes of the lease beside the donor's path.
Snapshot ==
  IF /\ Sidecar(Donor.dir)
     /\ IF claim.row.state = "reserved" THEN claim.snap = "attributed" ELSE Attributed(claim.row)
  THEN "attributed" ELSE "absent"

\* A reserve needs a D that ended with its storage closed or whose holder is dead, a donor
\* that is the host the record is bound to, and no lease that it cannot attribute.
Reservable ==
  /\ Paired
  /\ claim.row.state # "none"
  /\ IF claim.row.state = "closed" THEN claim.row.clean ELSE claim.row.owner \notin alive
  /\ Donor.owner = carrier
  /\ Sidecar(Donor.dir) => claim.row.state # "closed" /\ Snapshot = "attributed"

\* Mutant: the claim in D is kept as the donor, a reservation included.
ReservationNested(p) ==
  [row |-> [gen |-> writes + 1, state |-> "reserved", owner |-> p, lease |-> "never-held",
            clean |-> FALSE, dir |-> Donor.dir],
   adopted |-> 0, snap |-> Snapshot, bound |-> record, donor |-> claim.row]

Reservation(p) ==
  [row |-> [gen |-> writes + 1, state |-> "reserved", owner |-> p, lease |-> "never-held",
            clean |-> FALSE, dir |-> Donor.dir],
   adopted |-> 0, snap |-> Snapshot, bound |-> record, donor |-> Donor]

Reserve(p) == At(p, "reserve") /\ Enter(p, Reservable, Reservation(p))

LeaveReserve(p) ==
  /\ \/ /\ At(p, "disarm") /\ p \in Parent
        /\ \/ arm' = None /\ Goto(p, "launch") /\ UNCHANGED <<answer, target>> /\ NoFault
           \/ arm' = arm /\ Goto(p, "idle") /\ Answer(p, "none") /\ Fault
     \/ /\ At(p, "quit") /\ p \in Parent
        /\ GiveBack(p, "idle", "idle") /\ Answer(p, "none")
  /\ UNCHANGED <<files, self, storage, writes, history>>

\* The rail opens a window for one child, or says that nothing was created, or cannot say;
\* that nothing was created may be wrong.
Launch(p) ==
  /\ At(p, "launch")
  /\ \/ /\ Goto(p, "withdraw")
        /\ NoFault /\ UNCHANGED <<source, spelled, answer, target>>
     \/ /\ \E h \in Host :
             /\ At(h, "idle")
             /\ source' = [source EXCEPT ![h] = ticket[p].row.gen]
             /\ spelled' = [spelled EXCEPT ![h] = ticket[p].row.dir]
             /\ \E next \in {"observe", "withdraw", "idle"} :
                  /\ pc' = [pc EXCEPT ![h] = "arm", ![p] = next]
                  /\ IF next = "idle" THEN Answer(p, "none") ELSE UNCHANGED <<answer, target>>
                  /\ IF next = "withdraw" THEN Fault ELSE NoFault
     \/ /\ Goto(p, "idle") /\ Answer(p, "none")
        /\ NoFault /\ UNCHANGED <<source, spelled>>
  /\ UNCHANGED <<files, arm, alive, hold, draft, ticket, storage, writes, history>>

\* Mutant: whatever the claim holds by now.
WithdrawableBlindly(p) == claim.row.state # "none"

\* Only the reservation that this parent wrote goes back to its donor's row.
Withdrawable(p) ==
  /\ claim.row.state = "reserved"
  /\ claim.row.gen = ticket[p].row.gen
  /\ claim.row.owner = p

Withdraw(p) ==
  /\ At(p, "withdraw")
  /\ Enter(p, Withdrawable(p), Native([claim.donor EXCEPT !.gen = writes + 1], 0))

\* Mutant: no adoption yet is taken for a loss.
ObservedHasty(p) == IF claim.adopted = ticket[p].row.gen THEN "adopted" ELSE "lost"

\* One read outside any lock: what D says of the reservation now.
Observed(p) ==
  IF claim.adopted = ticket[p].row.gen THEN "adopted"
  ELSE IF claim.row.state = "reserved" /\ claim.row.gen = ticket[p].row.gen THEN "none"
  ELSE "lost"

\* It reads until the answer is another than unadopted, or its wait ends.
Observe(p) ==
  /\ At(p, "observe")
  /\ Goto(p, "idle") /\ Answer(p, Observed(p))
  /\ UNCHANGED <<files, arm, self, storage, bounds, history>>

(***************************************************************************)
(* The world.                                                              *)
(***************************************************************************)
\* A process dies; its lease file stays, or its exit handler removes it.
Die(p) ==
  /\ p \in alive /\ Fault
  /\ alive' = alive \ {p}
  /\ \/ UNCHANGED lease
     \/ lease' = [s \in Spelling |-> IF lease[s] = p THEN None ELSE lease[s]]
  /\ Goto(p, Rest(p))
  /\ hold' = [hold EXCEPT ![p] = "no"]
  /\ draft' = [draft EXCEPT ![p] = NoClaim]
  /\ ticket' = [ticket EXCEPT ![p] = NoClaim]
  /\ storage' = [h \in Host |-> IF h = p THEN "never-opened" ELSE storage[h]]
  /\ answer' = [q \in Parent |-> IF q = p THEN "none" ELSE answer[q]]
  /\ spelled' = [h \in Host |-> IF h = p /\ source[h] = 0 THEN None ELSE spelled[h]]
  /\ UNCHANGED <<claim, tx, record, carrier, made, locks, source, writes, history>>

\* An opener without a fence takes and gives back a lease.
ForeignLease(s) ==
  /\ \/ lease[s] = None /\ lease' = [lease EXCEPT ![s] = Foreign] /\ Fault
     \/ lease[s] = Foreign /\ lease' = [lease EXCEPT ![s] = None] /\ NoFault
  /\ UNCHANGED <<claim, tx, record, carrier, made, locks, process, writes, history>>

Open(h) ==
  \/ Start(h) \/ \E k \in Host : Relaunch(h, k)
  \/ AdmitOwner(h) \/ TakeArm(h) \/ AdoptOwner(h) \/ LeaveAdoption(h)
  \/ TakeLease(h) \/ LeaseRefused(h) \/ Leased(h) \/ EndUnleased(h)
  \/ OpenStorage(h) \/ StorageOpened(h)
  \/ Close(h) \/ Shut(h) \/ Release(h) \/ Closed(h) \/ CloseFailed(h)
  \/ Attach(h) \/ Locate(h)

Resuming(p) ==
  \/ Resume(p) \/ TakeArmToReserve(p) \/ Reserve(p) \/ LeaveReserve(p)
  \/ Launch(p) \/ Withdraw(p) \/ Observe(p)

Common(p) == Write(p) \/ Leave(p) \/ Break(p) \/ WaitEnds(p) \/ ArmBusy(p) \/ Die(p)

Next ==
  \/ \E h \in Host : Open(h)
  \/ \E p \in Parent : Resuming(p)
  \/ \E p \in Process : Common(p)
  \/ \E s \in Spelling : ForeignLease(s)

Spec == Init /\ [][Next]_vars

----------------------------------------------------------------------------
\* The storage of h may be open.
Using(h) == h \in alive /\ storage[h] \in {"open", "unknown", "failed"}

(***************************************************************************)
(* Whatever lease files say, however D is spelled and wherever a process   *)
(* dies, at most one living participating host may have the storage of D   *)
(* open, a host whose close went wrong and is still there included         *)
(* (admitOwner, adoptInPair and the transitions of OwnerTicket).           *)
(***************************************************************************)
OneUser == \A h, k \in Host : Using(h) /\ Using(k) => h = k

(***************************************************************************)
(* A reservation is adopted by one child at most, though its command runs  *)
(* twice, and by none once its parent has withdrawn it (adoptInPair and    *)
(* withdrawPiDurableReservation race for the same row).                    *)
(***************************************************************************)
AdoptedOnce ==
  /\ \A a, b \in adoptions : a[1] = b[1] => a = b
  /\ \A a \in adoptions : a[1] \notin withdrawn

\* The outcome of the last open, as a claim keeps it.
Kept(c) == [(IF c.row.state = "reserved" THEN c.donor ELSE c.row) EXCEPT !.gen = 0]

(***************************************************************************)
(* Through reservations, reservations of dead parents' reservations and    *)
(* withdrawals, D keeps the outcome of the last open it really had, never  *)
(* a parent's: what that open's owner, lease and end were (donorOf and the *)
(* row that withdrawPiDurableReservation restores).                        *)
(***************************************************************************)
LastOpenIsKept == claim.row.state # "none" => Kept(claim) = [native EXCEPT !.gen = 0]

\* The reservation of generation g has been adopted.
Adopted(g) == \E h \in Host : <<g, h>> \in adoptions

(***************************************************************************)
(* What a resume answered about its reservation is and stays true: adopted *)
(* means that a child has it, withdrawn that no child ever had it, and     *)
(* after lost or withdrawn nobody can adopt it any more                    *)
(* (observePiDurableReservation reads outside every lock).                 *)
(***************************************************************************)
AnswerHolds ==
  \A p \in Parent :
    LET g == ticket[p].row.gen IN
      /\ answer[p] = "adopted" => Adopted(g)
      /\ answer[p] = "withdrawn" => g \in withdrawn /\ ~Adopted(g)
      /\ answer[p] \in {"lost", "withdrawn"} =>
           ~(claim.row.state = "reserved" /\ claim.row.gen = g)
----------------------------------------------------------------------------
(***************************************************************************)
(* What makes the four above inductive.                                    *)
(***************************************************************************)
\* The storage of h may be open, or is about to be.
Opening(h) == h \in alive /\ (storage[h] \in {"open", "unknown", "failed"} \/ pc[h] = "init")
Taken == {"leased", "storage-open", "close-failed"}

\* Who is inside a transaction made the file that is there.
OneInside == \A p \in Process : hold[p] # "no" => tx = p /\ p \in alive /\ pc[p] \in Transacting

\* Generations are never given twice.
Numbered ==
  /\ claim.row.gen <= writes
  /\ \A p \in Process :
       /\ ticket[p].row.gen <= writes
       /\ hold[p] = "drafted" => /\ draft[p].row.gen = writes /\ claim.row.gen < writes
                                 /\ \A q \in Process : ticket[q].row.gen < writes
       /\ hold[p] = "written" => claim = draft[p]

\* A host has no storage before it has its claim, has it open while it is up, and keeps that
\* claim while it may have it.
Early ==
  \A h \in Host :
    /\ pc[h] \notin {"reserve", "launch", "withdraw", "observe"}
    /\ pc[h] \in {"idle", "arm", "create", "admit", "disarm", "quit", "lease", "leased", "unleased",
                  "drop", "init"} => storage[h] = "never-opened"
    /\ pc[h] \in {"opened", "up", "carry"} => storage[h] = "open"
    /\ pc[h] = "shut" => storage[h] \in {"never-opened", "open"}
Owned == \A h \in Host : Opening(h) => claim.row.owner = h /\ claim.row.state \in Taken
Ticketed ==
  \A h \in Host : ticket[h].row.state # "none" /\ claim.row.gen = ticket[h].row.gen
                  => claim.row.owner = h

\* What a draft may say, and over whom it may be written.
Drafted ==
  \A p \in Process : hold[p] # "no" =>
    /\ p \in Host => /\ draft[p].row.owner = p /\ draft[p].row.state \notin {"none", "reserved"}
                     /\ pc[p] = "leased" => draft[p].row.state = "leased"
                     /\ Opening(p) => draft[p].row.state \in Taken
    /\ hold[p] = "drafted" => \A h \in Host \ {p} : ~Opening(h)

FenceInv == OneInside /\ Numbered /\ Early /\ Owned /\ Ticketed /\ Drafted

\* What is adopted or withdrawn is the reservation that the claim held when it was decided on.
Superseded ==
  /\ \A a \in adoptions : a[1] < claim.row.gen
  /\ \A g \in withdrawn : g < claim.row.gen
  /\ \A p \in Process : hold[p] = "drafted" =>
       /\ p \in Host /\ pc[p] = "admit" /\ source[p] # 0 => claim.row.gen = source[p]
       /\ pc[p] = "withdraw" => claim.row.gen = ticket[p].row.gen

\* A donor is the row of an open, and a parent's draft keeps what the claim keeps.
RealDonor(c) == c.row.state = "reserved" => c.donor.state \notin {"none", "reserved"}
Faithful ==
  /\ RealDonor(claim)
  /\ \A p \in Process : hold[p] = "drafted" =>
       /\ RealDonor(draft[p])
       /\ p \in Parent => claim.row.state # "none" /\ Kept(draft[p]) = Kept(claim)

\* A claim records only adoptions that happened.
Recorded ==
  /\ claim.adopted # 0 => Adopted(claim.adopted)
  /\ \A p \in Process : ticket[p].adopted # 0 => Adopted(ticket[p].adopted)
  /\ \A p \in Process : hold[p] # "no" /\ draft[p].adopted # 0 =>
       \/ Adopted(draft[p].adopted)
       \/ /\ p \in Host /\ hold[p] = "drafted" /\ pc[p] = "admit" /\ source[p] # 0
          /\ draft[p].adopted = source[p]

\* A resume that is under way has answered nothing, and what it answers about it has written.
Pending ==
  \A p \in Parent :
    /\ pc[p] # "idle" => answer[p] = "none"
    /\ pc[p] \in {"disarm", "launch", "withdraw", "observe"} => ticket[p].row.gen > 0
    /\ hold[p] # "no" => draft[p].row.gen > 0
    /\ hold[p] # "no" /\ pc[p] = "withdraw" => draft[p].row.state # "reserved"
    /\ hold[p] = "written" /\ pc[p] = "withdraw" => ticket[p].row.gen \in withdrawn
=============================================================================
