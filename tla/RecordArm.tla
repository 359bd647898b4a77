----------------------------- MODULE RecordArm -----------------------------
(***************************************************************************)
(* How a Claude Code session becomes and stays an addressable citizen      *)
(* (meta-bridge-hook.ts over the store of meta-session.ts): hook runs      *)
(* publish and attach meta-records, and under the record-arm lock of a     *)
(* garden id leave a pair on disk, the record and the receiver marker,     *)
(* that carries one attach incarnation; a sender marker says which garden  *)
(* a process serves now.  Dispatches read records, and judge from the      *)
(* markers whether mail would wake anybody.                                *)
(*                                                                         *)
(* Several Claude processes may have one native session open.  A process   *)
(* runs its hooks one after the other.  Each step is one read, rename,     *)
(* link or unlink; the scan of a store is one step.                        *)
(***************************************************************************)
EXTENDS Naturals, FiniteSets

CONSTANTS
  Process,  \* process numbers of Claude
  Native,   \* native session ids
  Garden,   \* garden ids that a birth may mint
  None,     \* nothing there
  Dead,     \* a lock whose holder is dead
  MaxRuns,  \* bound: hook runs in all
  MaxKey,   \* bound: processes that get one number, one after the other
  Faults    \* whether a hook may die and a write fail

ASSUME BoundAssumption == MaxRuns \in Nat /\ MaxKey \in Nat /\ Faults \in BOOLEAN

VARIABLES
  record,    \* record[g]: the meta-record file of a garden id
  marker,    \* marker[g]: its receiver marker
  sender,    \* sender[p]: the sender marker of a process number
  lock,      \* lock[g]: the record-arm lock
  session,   \* session[p]: the native session that p has open
  key,       \* key[p]: the start key of the process that has, or last had, the number p
  watching,  \* watching[p]: the garden whose signal the host of p watches
  run,       \* run[p]: the hook that p runs
  last,      \* last[p]: how its last hook run ended
  runs,      \* the number of hook runs so far; at an arm it is the incarnation minted
  broken,    \* the gardens where an arm stopped between its record and its marker
  addressed  \* <<n, g>>: a dispatch reached session n through garden g

store == <<record, marker, sender, lock>>
world == <<session, key, watching>>
hook == <<run, last, runs, broken>>
vars == <<store, world, hook, addressed>>

Incarnation == 0..MaxRuns
Record == [native : Native, incarnation : Incarnation]
Marker == [owner : Process, key : 0..MaxKey, incarnation : Incarnation]
Sender == [garden : Garden, key : 0..MaxKey]
ASSUME NoneAssumption == /\ None \notin Process \cup Native \cup Garden \cup Record
                         /\ Dead \notin Process /\ Dead # None
Event == {"arm", "prompt"}
Step == {"idle", "lookup", "certify", "publish", "relookup", "lock", "recertify", "attach",
         "previous", "inspect", "retire", "serve", "signal", "mark", "emit", "unowned"}
Run == [step : Step, event : Event, native : Native \cup {None}, target : Garden \cup {None},
        incarnation : Incarnation, previous : Garden \cup {None}]
Idle == [step |-> "idle", event |-> "arm", native |-> None, target |-> None,
         incarnation |-> 0, previous |-> None]

TypeOK ==
  /\ record \in [Garden -> Record \cup {None}]
  /\ marker \in [Garden -> Marker \cup {None}]
  /\ sender \in [Process -> Sender \cup {None}]
  /\ lock \in [Garden -> Process \cup {None, Dead}]
  /\ session \in [Process -> Native \cup {None}] /\ key \in [Process -> 0..MaxKey]
  /\ watching \in [Process -> Garden \cup {None}]
  /\ run \in [Process -> Run] /\ runs \in Incarnation
  /\ last \in [Process -> {"none", "armed", "prompted"}]
  /\ broken \subseteq Garden
  /\ addressed \subseteq Native \X Garden

Init ==
  /\ record = [g \in Garden |-> None] /\ marker = [g \in Garden |-> None]
  /\ sender = [p \in Process |-> None] /\ lock = [g \in Garden |-> None]
  /\ session = [p \in Process |-> None] /\ key = [p \in Process |-> 0]
  /\ watching = [p \in Process |-> None]
  /\ run = [p \in Process |-> Idle] /\ last = [p \in Process |-> "none"]
  /\ runs = 0 /\ broken = {}
  /\ addressed = {}

-----------------------------------------------------------------------------
(* Claude.  Opening a session, in a new process or in place (/resume, /clear),
   fires SessionStart; a change of directory fires the same hook again. *)
Running(p) == run[p].step # "idle"

Fire(p, e, n) ==
  /\ ~Running(p) /\ runs < MaxRuns /\ runs' = runs + 1
  /\ run' = [run EXCEPT ![p] = [Idle EXCEPT !.step = "lookup", !.event = e, !.native = n,
                                            !.incarnation = IF e = "arm" THEN runs' ELSE 0]]
  /\ last' = [last EXCEPT ![p] = "none"]
  /\ UNCHANGED <<store, broken, addressed>>

Open(p, n) ==
  /\ n # session[p] /\ Fire(p, "arm", n)
  /\ session' = [session EXCEPT ![p] = n] /\ watching' = [watching EXCEPT ![p] = None]
  /\ \/ session[p] = None /\ key[p] < MaxKey /\ key' = [key EXCEPT ![p] = @ + 1]
     \/ session[p] # None /\ UNCHANGED key

Refire(p) == session[p] # None /\ Fire(p, "arm", session[p]) /\ UNCHANGED world
Prompt(p) == session[p] # None /\ Fire(p, "prompt", session[p]) /\ UNCHANGED world

(* Its hook, a child, runs on. *)
Exit(p) ==
  /\ session[p] # None /\ session' = [session EXCEPT ![p] = None]
  /\ watching' = [watching EXCEPT ![p] = None]
  /\ UNCHANGED <<store, key, hook, addressed>>

-----------------------------------------------------------------------------
(* The hook. *)
Holders(n) == {g \in Garden : record[g] # None /\ record[g].native = n}

(* certifyActiveStore: no native session has two records. *)
Certified ==
  \A g, h \in Garden : record[g] # None /\ record[h] # None /\ g # h => record[g].native # record[h].native

At(p, step) == run[p].step = step /\ UNCHANGED <<session, key, runs, addressed>>
Goto(p, step) == run' = [run EXCEPT ![p].step = step] /\ UNCHANGED last
GotoWith(p, step, g) == run' = [run EXCEPT ![p].step = step, ![p].target = g] /\ UNCHANGED last
Releasing(p, left) == lock' = [g \in Garden |-> IF lock[g] = p THEN left ELSE lock[g]]

(* emit: release the lock, answer ("none" for a run that was refused or has
   failed), exit; a release that fails leaves it to
   whoever finds its holder dead. *)
End(p, ending) ==
  /\ run' = [run EXCEPT ![p] = Idle] /\ last' = [last EXCEPT ![p] = ending]
  /\ Releasing(p, None) \/ (Faults /\ Releasing(p, Dead))

(* findCertifiedIdentityByNativeSessionId: read only. *)
Lookup(p) ==
  /\ At(p, "lookup")
  /\ \/ ~Certified /\ End(p, "none")
     \/ /\ Certified /\ UNCHANGED lock
        /\ \/ Holders(run[p].native) = {} /\ Goto(p, "certify")
           \/ \E g \in Holders(run[p].native) : GotoWith(p, "lock", g)
  /\ UNCHANGED <<record, marker, sender, watching, broken>>

(* upsertMetaSession expecting a create: it certifies once more, and mints. *)
Certify(p) ==
  /\ At(p, "certify")
  /\ \/ ~Certified /\ End(p, "none")
     \/ /\ Certified /\ UNCHANGED lock
        /\ \/ Holders(run[p].native) # {} /\ Goto(p, "relookup")
           \/ Holders(run[p].native) = {} /\ \E g \in Garden : GotoWith(p, "publish", g)
  /\ UNCHANGED <<record, marker, sender, watching, broken>>

(* Mutant: a birth publishes as an attach does, by a rename. *)
PublishByRename(p) ==
  /\ At(p, "publish")
  /\ record' = [record EXCEPT ![run[p].target] = [native |-> run[p].native, incarnation |-> 0]]
  /\ Goto(p, IF run[p].event = "arm" THEN "lock" ELSE "serve")
  /\ UNCHANGED <<marker, sender, lock, watching, broken>>

(* publishExclusiveIdentity: link(2) never replaces; the temporary file may
   fail to be written, or, after the link, to be removed. *)
Publish(p) ==
  /\ At(p, "publish")
  /\ LET g == run[p].target
     IN  \/ /\ record[g] = None
            /\ record' = [record EXCEPT ![g] = [native |-> run[p].native, incarnation |-> 0]]
            /\ \/ Goto(p, IF run[p].event = "arm" THEN "lock" ELSE "serve") /\ UNCHANGED lock
               \/ Faults /\ End(p, "none")
         \/ (record[g] # None \/ Faults) /\ End(p, "none") /\ UNCHANGED record
  /\ UNCHANGED <<marker, sender, watching, broken>>

Relookup(p) ==
  /\ At(p, "relookup")
  /\ \/ ~Certified /\ End(p, "none")
     \/ /\ Certified /\ UNCHANGED lock
        /\ \E g \in Holders(run[p].native) : GotoWith(p, "lock", g)
  /\ UNCHANGED <<record, marker, sender, watching, broken>>

(* takeArmLock: an arm polls for two seconds, a prompt asks once; who does not
   get the lock writes nothing.  A dead holder's claim is reclaimed. *)
TakeArmLock(p) ==
  /\ At(p, "lock")
  /\ LET g == run[p].target
     IN  \/ /\ lock[g] \in {None, Dead} /\ Goto(p, "recertify")
            /\ lock' = [lock EXCEPT ![g] = p]
         \/ (lock[g] \in Process \/ Faults) /\ End(p, "none")
  /\ UNCHANGED <<record, marker, sender, watching, broken>>

(* upsertMetaSession expecting an attach: an arm has minted an incarnation,
   a prompt carries over what it reads. *)
Recertify(p) ==
  /\ At(p, "recertify")
  /\ \/ ~Certified /\ End(p, "none")
     \/ /\ Certified /\ UNCHANGED <<lock, last>>
        /\ \E g \in Holders(run[p].native) :
             run' = [run EXCEPT ![p].step = "attach", ![p].target = g,
                                ![p].incarnation = IF run[p].event = "arm" THEN @
                                                   ELSE record[g].incarnation]
  /\ UNCHANGED <<record, marker, sender, watching, broken>>

(* Mutant: the lock spans the record only, and not the marker. *)
AttachReleasing(p) ==
  /\ At(p, "attach") /\ Releasing(p, None)
  /\ record' = [record EXCEPT ![run[p].target] =
                  [native |-> run[p].native, incarnation |-> run[p].incarnation]]
  /\ Goto(p, IF run[p].event = "arm" THEN "previous" ELSE "serve")
  /\ UNCHANGED <<marker, sender, watching, broken>>

Attach(p) ==
  /\ At(p, "attach")
  /\ \/ /\ record' = [record EXCEPT ![run[p].target] =
                       [native |-> run[p].native, incarnation |-> run[p].incarnation]]
        /\ Goto(p, IF run[p].event = "arm" THEN "previous" ELSE "serve") /\ UNCHANGED lock
     \/ Faults /\ End(p, "none") /\ UNCHANGED record
  /\ UNCHANGED <<marker, sender, watching, broken>>

(* Which garden did this process serve before?  Without a trusted owner the
   hook arms the watch but writes no marker. *)
Previous(p) ==
  /\ At(p, "previous") /\ UNCHANGED last
  /\ LET before == IF sender[p] = None \/ sender[p].key = 0 THEN None ELSE sender[p].garden
     IN  \/ before \in {None, run[p].target} /\ run' = [run EXCEPT ![p].step = "serve"]
         \/ /\ before \notin {None, run[p].target}
            /\ run' = [run EXCEPT ![p].step = "inspect", ![p].previous = before]
         \/ Faults /\ run' = [run EXCEPT ![p].step = "unowned"]
  /\ UNCHANGED <<store, watching, broken>>

Keep(p) == run' = [run EXCEPT ![p].step = "serve", ![p].previous = None] /\ UNCHANGED last

(* removeMetaReceiverMarker: only a marker that names this owner, by number. *)
Inspect(p) ==
  /\ At(p, "inspect")
  /\ LET m == marker[run[p].previous]
         mine == m # None /\ m.owner = p /\ m.key # 0
     IN  (mine /\ Goto(p, "retire")) \/ (~mine /\ Keep(p))
  /\ UNCHANGED <<store, watching, broken>>

Retire(p) ==
  /\ At(p, "retire")
  /\ \/ Keep(p) /\ marker' = [marker EXCEPT ![run[p].previous] = None]
     \/ Faults /\ Goto(p, "serve") /\ UNCHANGED marker
  /\ UNCHANGED <<record, sender, lock, watching, broken>>

(* The start key of who has the number now; a marker without one is unreadable. *)
KeyNow(p) == IF session[p] = None THEN 0 ELSE key[p]

Serve(p) ==
  /\ At(p, "serve")
  /\ \/ /\ sender' = [sender EXCEPT ![p] = [garden |-> run[p].target, key |-> KeyNow(p)]]
        /\ \/ run[p].event = "arm" /\ Goto(p, "signal") /\ UNCHANGED lock
           \/ run[p].event = "prompt" /\ End(p, "prompted")
     \/ /\ Faults /\ UNCHANGED sender
        /\ \/ run[p].event = "arm" /\ Goto(p, "signal") /\ UNCHANGED lock
           \/ run[p].event = "prompt" /\ End(p, "none")
  /\ UNCHANGED <<record, marker, watching, broken>>

Breaks(p) == broken' = broken \cup {run[p].target}

Signal(p) ==
  /\ At(p, "signal")
  /\ \/ Goto(p, "mark") /\ UNCHANGED <<lock, broken>>
     \/ Faults /\ End(p, "none") /\ Breaks(p)
  /\ UNCHANGED <<record, marker, sender, watching>>

Mark(p) ==
  /\ At(p, "mark") /\ Goto(p, "emit")
  /\ \/ /\ marker' = [marker EXCEPT ![run[p].target] =
                  [owner |-> p, key |-> KeyNow(p), incarnation |-> run[p].incarnation]]
        /\ broken' = broken \ {run[p].target}
     \/ Faults /\ Breaks(p) /\ UNCHANGED marker
  /\ UNCHANGED <<record, sender, lock, watching>>

(* The host reads watchPaths, if it is still there; a marker that could not be
   retired leaves the run failed. *)
Watches(p) ==
  watching' = [watching EXCEPT ![p] = IF session[p] = run[p].native THEN run[p].target ELSE @]

Emit(p) ==
  /\ At(p, "emit") /\ Watches(p)
  /\ End(p, IF run[p].previous = None THEN "armed" ELSE "none")
  /\ UNCHANGED <<record, marker, sender, broken>>

Unowned(p) ==
  /\ At(p, "unowned") /\ End(p, "none") /\ Breaks(p)
  /\ Watches(p) \/ UNCHANGED watching
  /\ UNCHANGED <<record, marker, sender>>

(* After its rename and before its marker an arm leaves a pair that differs. *)
Unpaired(p) ==
  /\ run[p].event = "arm"
  /\ run[p].step \in {"previous", "inspect", "retire", "serve", "signal", "mark", "unowned"}

HookDies(p) ==
  /\ Faults /\ Running(p) /\ run' = [run EXCEPT ![p] = Idle]
  /\ last' = [last EXCEPT ![p] = "none"] /\ Releasing(p, Dead)
  /\ \/ Unpaired(p) /\ Breaks(p)
     \/ ~Unpaired(p) /\ UNCHANGED broken
  /\ UNCHANGED <<record, marker, sender, world, runs, addressed>>

Hook(p) ==
  \/ Lookup(p) \/ Certify(p) \/ Publish(p) \/ Relookup(p) \/ TakeArmLock(p) \/ Recertify(p)
  \/ Attach(p) \/ Previous(p) \/ Inspect(p) \/ Retire(p) \/ Serve(p) \/ Signal(p) \/ Mark(p)
  \/ Emit(p) \/ Unowned(p)

-----------------------------------------------------------------------------
(* Mutant: the record alone, without a scan for rivals. *)
AddressUnscanned(g) ==
  /\ record[g] # None /\ addressed' = addressed \cup {<<record[g].native, g>>}
  /\ UNCHANGED <<store, world, hook>>

(* readAddressableMetaIdentity at its scan of the store, which follows the
   read of the record itself; a second record of the session is refused. *)
Address(g) ==
  /\ record[g] # None /\ Holders(record[g].native) = {g}
  /\ addressed' = addressed \cup {<<record[g].native, g>>}
  /\ UNCHANGED <<store, world, hook>>

-----------------------------------------------------------------------------
Next ==
  \/ \E p \in Process : \/ \E n \in Native : Open(p, n)
                        \/ Refire(p) \/ Prompt(p) \/ Exit(p) \/ Hook(p) \/ HookDies(p)
  \/ \E g \in Garden : Address(g)

Spec == Init /\ [][Next]_vars

-----------------------------------------------------------------------------
(* "Two normal arms (or an arm and a UserPromptSubmit) always finish as a
   matching record/marker pair." *)
PairMatches ==
  \A g \in Garden :
    marker[g] # None /\ lock[g] \notin Process /\ g \notin broken
      => record[g] # None /\ marker[g].incarnation = record[g].incarnation

(* Two births of one session may make two records; no two dispatches ever
   reach it through different ones. *)
OneAddress == \A a, b \in addressed : a[1] = b[1] => a[2] = b[2]

(* A garden id is never bound to another session, and never unbound. *)
GardenIsForLife ==
  [][\A g \in Garden : record[g] # None =>
       record'[g] # None /\ record'[g].native = record[g].native]_vars

(* Mutant: a live owner, whatever it serves now. *)
DeliverableUnjoined(g) ==
  /\ record[g] # None /\ marker[g] # None
  /\ session[marker[g].owner] # None /\ marker[g].key = key[marker[g].owner]

(* resolveMailboxReceiverFacts: the owner named by the receiver marker lives
   and its sender marker names this garden. *)
Deliverable(g) ==
  /\ record[g] # None /\ marker[g] # None
  /\ LET p == marker[g].owner
     IN  /\ session[p] # None /\ marker[g].key = key[p]
         /\ sender[p] # None /\ sender[p].garden = g /\ sender[p].key = key[p]

(* Mail is not enqueued into a void: after a hook run that did not fail, the
   owner of a deliverable garden has that session open, and after an arm it
   watches its signal. *)
DeliverableIsServed ==
  \A g \in Garden :
    Deliverable(g) =>
      LET p == marker[g].owner
      IN  /\ last[p] \in {"armed", "prompted"} => session[p] = record[g].native
          /\ last[p] = "armed" => watching[p] = g

-----------------------------------------------------------------------------
(* What makes the four above inductive.

   A run is about one record, which exists from its lookup or its birth on;
   from there to its end an arm holds that record's lock, and what it minted
   is in the record.  A prompt will write what the record has. *)
Past == {"lock", "recertify", "attach", "previous", "inspect", "retire", "serve", "signal", "mark",
         "emit", "unowned"}
OfArms == {"previous", "inspect", "retire", "signal", "mark", "emit", "unowned"}
Arms(p) == run[p].event = "arm" /\ run[p].step \in OfArms \cup {"serve"}

Begun ==
  \A p \in Process : run[p].step # "idle" =>
    run[p].native # None /\ session[p] \in {run[p].native, None} /\ last[p] = "none"
About ==
  \A p \in Process :
    /\ run[p].step \in Past \cup {"publish"} => run[p].target # None
    /\ run[p].step \in Past =>
         record[run[p].target] # None /\ record[run[p].target].native = run[p].native
    /\ run[p].step \in OfArms => run[p].event = "arm"
Locks ==
  \A p \in Process :
    /\ run[p].step \in {"recertify", "attach"} \/ Arms(p) => lock[run[p].target] = p
    /\ Arms(p) \/ (run[p].step = "attach" /\ run[p].event = "prompt") =>
         run[p].incarnation = record[run[p].target].incarnation

(* A pair that differs is known to be broken, or the arm between its two
   writes is still running. *)
Pairs ==
  \A g \in Garden : marker[g] # None =>
    /\ record[g] # None
    /\ g \in broken \/ marker[g].incarnation = record[g].incarnation
       \/ \E p \in Process : run[p].target = g /\ Unpaired(p)

Reached == \A a \in addressed : record[a[2]] # None /\ record[a[2]].native = a[1]

(* p speaks for g: its receiver marker there, its own sender marker naming it. *)
Speaks(p, g) ==
  /\ marker[g] # None /\ marker[g].owner = p /\ marker[g].key = key[p]
  /\ sender[p] # None /\ sender[p].garden = g /\ sender[p].key = key[p]

(* Once its previous garden is retired an arm speaks for no other than its own. *)
Sole ==
  \A p \in Process :
    /\ session[p] # None => key[p] > 0
    /\ run[p].step \in {"inspect", "retire"} => sender[p] # None /\ sender[p].garden = run[p].previous
    /\ Arms(p) /\ run[p].step \in {"serve", "signal", "mark", "emit"} /\ run[p].previous = None
         /\ session[p] # None
       => \A g \in Garden : Speaks(p, g) => g = run[p].target

ArmInv == Begun /\ About /\ Locks /\ Pairs /\ Reached /\ Sole /\ DeliverableIsServed
=============================================================================
