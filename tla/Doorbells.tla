----------------------------- MODULE Doorbells -----------------------------
(***************************************************************************)
(* The doorbells that live in a JavaScript process: the Copilot extension  *)
(* (extension.mjs), the OMP receiver (meta-bridge-receive-omp.ts) and the  *)
(* pi-durable contact (meta-bridge-pi-durable.ts).  Each arms a file watch *)
(* and a receiver marker, and at a poke stamps what is fresh in one        *)
(* mailbox and announces it to its session.                                *)
(*                                                                         *)
(* JavaScript runs one thing at a time: pc is the next step of what runs,  *)
(* "loop" when only callbacks can.  Everything else, the senders, the      *)
(* drains (in a process of their own) and the file system, comes between   *)
(* any two steps.                                                          *)
(***************************************************************************)
EXTENDS Naturals, Sequences, FiniteSets

CONSTANTS
  Message,  \* the messages sent to the garden id, by name
  Reader,   \* inbox reads
  None,     \* nobody
  MaxArms,  \* bound: how often the doorbell arms
  MaxOutside, \* bound: reads in a mailbox whose doorbell has no gate for them
  Faults    \* whether calls may fail

ASSUME MessageAssumption == Message \subseteq Nat
ASSUME NoneAssumption == None # "pass" /\ {None, "pass"} \cap Reader = {}
ASSUME BoundAssumption == {MaxArms, MaxOutside} \subseteq Nat /\ Faults \in BOOLEAN

VARIABLES
  host,       \* whose doorbell it is; it never changes
  file,       \* file[m]: the suffix of the message; "gone" once read or archived
  unpoked,    \* messages whose sender has still to touch the signal
  signal,     \* whether the signal file is where it was watched
  event,      \* an event of the watch that has not been handled
  watch,      \* whether the watch is open
  marker,     \* whether the receiver marker on disk is ours
  armed,      \* whether the receiver takes itself to be armed
  arms,       \* how often it has armed
  pc,         \* what the process does next
  after,      \* what follows the teardown in progress
  batch,      \* the pass in progress: what it has to stamp, has stamped, announces
  sending,    \* an announcement is awaited
  gate,       \* who has the gate: None, "pass", or (pi-durable) a read
  pending,    \* an event came while the gate was taken
  queue,      \* reads that wait for the gate
  read,       \* read[r]: the step of a read, as its caller sees it
  drain,      \* drain[r]: the step of its drain in the bridge
  todo,       \* todo[r]: what the drain has listed and not yet archived
  due,        \* due[r]: the notices it is withdrawing
  held,       \* notices the contact can withdraw, each the set of messages it is for
  queued,     \* notices in the session's own queue
  reported,   \* queued notices whose withdrawal was given up, and said so
  strays,     \* unread mail that given-up calls' drains took since notices were last judged
  announced,  \* unread messages that a notice counts
  failed,     \* a pass has failed, in the log or the report, since the last announcement
  residue     \* the marker is one that the last teardown could not read, or not remove

mailbox == <<file, unpoked, signal>>
arming == <<watch, marker, armed, arms, residue>>
passing == <<batch, sending, pending, failed>>
drains == <<drain, todo>>
reading == <<read, drains, due>>
notices == <<held, queued, reported, strays, announced>>
vars == <<host, mailbox, event, arming, pc, after, passing, gate, queue, reading, notices>>

Host == {"copilot", "omp", "pi-durable"}
Suffix == {"msg", "delivered"}
Notice == SUBSET Message
NoBatch == [todo |-> {}, fresh |-> {}, unread |-> {}]

TypeOK ==
  /\ host \in Host
  /\ file \in [Message -> Suffix \cup {"none", "gone"}]
  /\ unpoked \subseteq Message
  /\ {signal, event, watch, marker, armed, sending, pending, failed, residue} \subseteq BOOLEAN
  /\ arms \in 0..MaxArms
  /\ pc \in {"loop", "watch", "mark", "list", "stamp", "count", "leave", "close", "check", "remove"}
  /\ after \in {"loop", "leave", "watch"}
  /\ batch \in [todo : Notice, fresh : Notice, unread : Notice]
  /\ gate \in Reader \cup {None, "pass"} /\ queue \in Seq(Reader)
  /\ read \in [Reader -> {"none", "wait", "call", "withdraw", "done"}]
  /\ drain \in [Reader -> {"none", "list", "archive", "over"}]
  /\ todo \in [Reader -> SUBSET (Message \X Suffix)]
  /\ due \in [Reader -> SUBSET Notice]
  /\ held \subseteq Notice /\ queued \subseteq Notice /\ reported \subseteq queued
  /\ strays \subseteq Message /\ announced \subseteq Message

Init ==
  /\ host \in Host
  /\ file = [m \in Message |-> "none"] /\ unpoked = {} /\ signal = TRUE /\ event = FALSE
  /\ watch = FALSE /\ marker = FALSE /\ armed = FALSE /\ arms = 0 /\ residue = FALSE
  /\ pc = "loop" /\ after = "loop"
  /\ batch = NoBatch /\ sending = FALSE /\ pending = FALSE /\ failed = FALSE
  /\ gate = None /\ queue = <<>>
  /\ read = [r \in Reader |-> "none"] /\ drain = read /\ todo = [r \in Reader |-> {}]
  /\ due = [r \in Reader |-> {}]
  /\ held = {} /\ queued = {} /\ reported = {} /\ strays = {} /\ announced = {}

Fresh == {m \in Message : file[m] = "msg"}
Unread == {m \in Message : file[m] = "delivered"}
First(set) == CHOOSE m \in set : \A n \in set : m <= n
At(step) == pc = step /\ UNCHANGED host
Goto(step) == pc' = step /\ UNCHANGED after
Durable == host = "pi-durable"

-----------------------------------------------------------------------------
(* Senders, and an operator who archives the mailboxes (nobody sends to what is
   no citizen any more). *)
Send(m) ==
  /\ file[m] = "none" /\ signal
  /\ file' = [file EXCEPT ![m] = "msg"] /\ unpoked' = unpoked \cup {m}
  /\ UNCHANGED <<host, signal, event, arming, pc, after, passing, gate, queue, reading, notices>>

Poke(m) ==
  /\ m \in unpoked /\ unpoked' = unpoked \ {m}
  /\ event' = (event \/ (watch /\ signal))
  /\ UNCHANGED <<host, file, signal, arming, pc, after, passing, gate, queue, reading, notices>>

FreshCut ==
  /\ Faults /\ signal /\ signal' = FALSE /\ unpoked' = {} /\ announced' = {}
  /\ file' = [m \in Message |-> IF file[m] \in Suffix THEN "gone" ELSE file[m]]
  /\ UNCHANGED <<host, event, arming, pc, after, passing, gate, queue, reading, held, queued,
                 reported, strays>>

(* Another receiver of the same citizen has put its own marker in the place of
   ours.  Only a teardown reads the marker again, so it comes there. *)
Replaced ==
  /\ pc = "check" /\ marker /\ marker' = FALSE
  /\ UNCHANGED <<host, mailbox, event, watch, armed, arms, residue, pc, after, passing, gate,
                 queue, reading, notices>>

-----------------------------------------------------------------------------
(* Arming: watch, then marker, then a pass for what came before.  A pi-durable
   contact whose arm fails is refused, with its tools. *)
NoTools == read' = [r \in Reader |-> IF read[r] = "none" THEN "done" ELSE read[r]]
ArmFails == Goto("loop") /\ IF Durable THEN NoTools ELSE UNCHANGED read

Arm ==
  /\ At("loop") /\ ~armed /\ signal /\ gate = None
  /\ arms < MaxArms /\ (Durable => arms = 0)
  /\ arms' = arms + 1 /\ Goto("watch")
  /\ UNCHANGED <<mailbox, event, watch, marker, armed, residue, passing, gate, queue, reading,
                 notices>>

(* Mutant: the marker first. *)
OpenWatchMarked ==
  /\ At("watch") /\ marker' = TRUE
  /\ \/ signal /\ watch' = TRUE /\ Goto("mark")
     \/ Faults /\ Goto("loop") /\ UNCHANGED watch
  /\ UNCHANGED <<mailbox, event, armed, arms, residue, passing, gate, queue, reading, notices>>

OpenWatch ==
  /\ At("watch")
  /\ \/ signal /\ watch' = TRUE /\ Goto("mark") /\ UNCHANGED read
     \/ Faults /\ ArmFails /\ UNCHANGED watch
  /\ UNCHANGED <<mailbox, event, marker, armed, arms, residue, passing, gate, queue, drains,
                 due, notices>>

(* Mutant: an event that comes during a pass is dropped. *)
RingForgets ==
  \/ gate = None /\ gate' = "pass" /\ Goto("list") /\ UNCHANGED pending
  \/ gate # None /\ Goto("loop") /\ UNCHANGED <<gate, pending>>

(* ring: with the gate taken the event is noted, and the holder looks again. *)
Ring ==
  \/ gate = None /\ gate' = "pass" /\ Goto("list") /\ UNCHANGED pending
  \/ gate # None /\ pending' = TRUE /\ Goto("loop") /\ UNCHANGED gate

(* A pi-durable session that failed while it was armed is retired at once. *)
WriteMarker ==
  /\ At("mark")
  /\ \/ /\ marker' = TRUE /\ armed' = TRUE /\ residue' = FALSE /\ UNCHANGED <<event, watch, read>>
        /\ \/ Ring
           \/ Faults /\ Durable /\ pc' = "close" /\ after' = "loop" /\ UNCHANGED <<gate, pending>>
     \/ /\ Faults /\ watch' = FALSE /\ event' = FALSE /\ ArmFails
        /\ UNCHANGED <<marker, armed, residue, gate, pending>>
  /\ UNCHANGED <<mailbox, arms, batch, sending, failed, queue, drains, due, notices>>

(* Teardown: the watch, then the marker if it is ours.  (Copilot's unarm has
   only the marker to remove: the watch ends with the process.)  A marker that
   cannot be read passes for none: nothing is removed, and nothing said.  A
   failed removal is told by OMP and pi-durable, and swallowed by Copilot. *)
TearDown(next) == pc' = "close" /\ after' = next
TornDown == pc' = after /\ after' = "loop"

CloseWatch ==
  /\ At("close") /\ watch' = FALSE /\ event' = FALSE /\ armed' = FALSE /\ Goto("check")
  /\ UNCHANGED <<mailbox, marker, arms, residue, passing, gate, queue, reading, notices>>

CheckMarker ==
  /\ At("check")
  /\ \/ marker /\ Goto("remove") /\ UNCHANGED residue
     \/ ~marker /\ TornDown /\ UNCHANGED residue
     \/ Faults /\ marker /\ TornDown /\ residue' = TRUE
  /\ UNCHANGED <<mailbox, event, watch, marker, armed, arms, passing, gate, queue, reading,
                 notices>>

RemoveMarker ==
  /\ At("remove") /\ TornDown
  /\ \/ marker' = FALSE /\ UNCHANGED residue
     \/ Faults /\ residue' = TRUE /\ UNCHANGED marker
  /\ UNCHANGED <<mailbox, event, watch, armed, arms, passing, gate, queue, reading, notices>>

(* onEdge: whatever has happened to the session, tear down, then arm again. *)
Edge ==
  /\ At("loop") /\ host = "omp" /\ armed /\ arms < MaxArms /\ arms' = arms + 1
  /\ TearDown("watch")
  /\ UNCHANGED <<mailbox, event, watch, marker, armed, residue, passing, gate, queue, reading,
                 notices>>

(* A watch error, a failed session, the end of the process. *)
Retire ==
  /\ Faults /\ At("loop") /\ armed /\ TearDown("loop")
  /\ \/ host # "copilot" /\ UNCHANGED <<sending, pending, gate>>
     \/ host = "copilot" /\ sending' = FALSE /\ pending' = FALSE /\ gate' = None
  /\ failed' = (failed \/ sending)
  /\ UNCHANGED <<mailbox, event, arming, batch, queue, reading, notices>>

(* close(): queued notices stay native, and nobody judges them any more. *)
Close ==
  /\ At("loop") /\ Durable /\ arms = 1 /\ (armed \/ held # {})
  /\ NoTools /\ held' = {} /\ reported' = reported \cup (held \cap queued)
  /\ IF armed THEN TearDown("loop") ELSE Goto("loop")
  /\ UNCHANGED <<mailbox, event, arming, passing, gate, queue, drains, due, queued, strays,
                 announced>>

-----------------------------------------------------------------------------
(* A pass. *)
WatchFires ==
  /\ At("loop") /\ event /\ armed /\ event' = FALSE /\ Ring
  /\ UNCHANGED <<mailbox, arming, batch, sending, failed, queue, reading, notices>>

(* Copilot and OMP log a failed pass, and stay armed; pi-durable retires. *)
Throw ==
  /\ failed' = TRUE
  /\ IF Durable THEN TearDown("leave") ELSE Goto("leave")

List ==
  /\ At("list") /\ pending' = FALSE
  /\ \/ /\ signal /\ Fresh = {} /\ Goto("leave") /\ UNCHANGED <<batch, failed>>
     \/ /\ signal /\ Fresh # {} /\ Goto("stamp") /\ UNCHANGED failed
        /\ batch' = [todo |-> Fresh, fresh |-> IF Durable THEN Fresh ELSE {}, unread |-> {}]
     \/ ~signal /\ host # "copilot" /\ TearDown("leave") /\ UNCHANGED <<batch, failed>>
     \/ ((~signal /\ host = "copilot") \/ Faults) /\ Throw /\ UNCHANGED batch
  /\ UNCHANGED <<mailbox, event, arming, sending, gate, queue, reading, notices>>

(* renameSync of the first of them; a file that has gone throws. *)
Stamp ==
  /\ At("stamp")
  /\ LET m == First(batch.todo)
     IN  \/ /\ file[m] = "msg" /\ file' = [file EXCEPT ![m] = "delivered"]
            /\ batch' = [batch EXCEPT !.todo = @ \ {m}] /\ UNCHANGED failed
            /\ Goto(IF batch.todo = {m} THEN "count" ELSE "stamp")
         \/ (file[m] # "msg" \/ Faults) /\ Throw /\ UNCHANGED <<file, batch>>
  /\ UNCHANGED <<unpoked, signal, event, arming, sending, pending, gate, queue, reading, notices>>

Again == IF pending /\ armed THEN "list" ELSE "leave"

(* Every unread message is counted.  OMP's call is synchronous. *)
Count ==
  /\ At("count")
  /\ \/ /\ host = "omp" /\ announced' = announced \cup Unread /\ failed' = FALSE /\ Goto(Again)
        /\ UNCHANGED <<batch, sending>>
     \/ /\ host # "omp" /\ sending' = TRUE /\ batch' = [batch EXCEPT !.unread = Unread]
        /\ Goto("loop") /\ UNCHANGED <<announced, failed>>
     \/ Faults /\ Throw /\ UNCHANGED <<batch, sending, announced>>
  /\ UNCHANGED <<mailbox, event, arming, pending, gate, queue, reading, held, queued, reported,
                 strays>>

Settle ==
  /\ At("loop") /\ sending /\ sending' = FALSE
  /\ \/ /\ announced' = announced \cup (batch.unread \cap Unread) /\ Goto(Again)
        /\ failed' = (failed /\ Durable)
        /\ IF Durable
           THEN held' = held \cup {batch.fresh} /\ queued' = queued \cup {batch.fresh}
           ELSE UNCHANGED <<held, queued>>
     \/ Faults /\ Throw /\ UNCHANGED <<held, queued, announced>>
  /\ UNCHANGED <<mailbox, event, arming, batch, pending, gate, queue, reading, reported, strays>>

(* The tool calls the bridge, which will drain. *)
Calls(r) == read' = [read EXCEPT ![r] = "call"] /\ drain' = [drain EXCEPT ![r] = "list"]

(* leaveGate: the gate goes to the next read; the last one rings for what
   came meanwhile.  Copilot and OMP have a flag. *)
Leave ==
  /\ At("leave")
  /\ \/ /\ queue # <<>> /\ gate' = Head(queue) /\ queue' = Tail(queue)
        /\ Calls(Head(queue)) /\ Goto("loop")
     \/ /\ queue = <<>> /\ UNCHANGED <<queue, read, drain>>
        /\ LET rings == Durable /\ pending /\ armed
           IN  gate' = (IF rings THEN "pass" ELSE None) /\ Goto(IF rings THEN "list" ELSE "loop")
  /\ batch' = NoBatch
  /\ UNCHANGED <<mailbox, event, arming, sending, pending, failed, todo, due, notices>>

-----------------------------------------------------------------------------
(* Inbox reads.  pi-durable's own tool waits for the gate; those of the other
   hosts are calls to a process that knows nothing of the doorbell. *)
NextRead == CHOOSE r \in Reader : read[r] = "none"

(* Mutant: the tool goes to the bridge without the gate. *)
ReadUngated(r) ==
  /\ read[r] = "none" /\ r = NextRead /\ (Durable => pc = "loop" /\ arms = 1)
  /\ Calls(r)
  /\ UNCHANGED <<host, mailbox, event, arming, pc, after, passing, gate, queue, todo, due, notices>>

Read(r) ==
  /\ read[r] = "none" /\ r = NextRead /\ UNCHANGED host
  /\ \/ /\ ~Durable /\ Cardinality({q \in Reader : read[q] # "none"}) < MaxOutside
        /\ read' = [read EXCEPT ![r] = "done"] /\ drain' = [drain EXCEPT ![r] = "list"]
        /\ UNCHANGED <<gate, queue>>
     \/ /\ Durable /\ pc = "loop" /\ arms = 1 /\ gate = None
        /\ gate' = r /\ Calls(r) /\ UNCHANGED queue
     \/ /\ Durable /\ pc = "loop" /\ arms = 1 /\ gate # None
        /\ queue' = Append(queue, r) /\ read' = [read EXCEPT ![r] = "wait"]
        /\ UNCHANGED <<gate, drain>>
  /\ UNCHANGED <<mailbox, event, arming, pc, after, passing, todo, due, notices>>

(* readMetaInbox, in the bridge: the one bridge of a contact runs one drain at
   a time, and goes on with it when the call has been given up. *)
Drained(r) == drain' = [drain EXCEPT ![r] = "over"]
GivenUp(r) == Durable /\ read[r] # "call"

DrainList(r) ==
  /\ drain[r] = "list" /\ (Durable => \A q \in Reader : drain[q] # "archive")
  /\ LET listed == {<<m, file[m]>> : m \in Fresh \cup Unread}
     IN  \/ /\ listed # {} /\ todo' = [todo EXCEPT ![r] = listed]
            /\ drain' = [drain EXCEPT ![r] = "archive"]
         \/ (listed = {} \/ Faults) /\ Drained(r) /\ UNCHANGED todo
  /\ UNCHANGED <<host, mailbox, event, arming, pc, after, passing, gate, queue, read, due, notices>>

Archive(r) ==
  /\ drain[r] = "archive"
  /\ LET m == First({item[1] : item \in todo[r]})
         item == CHOOSE i \in todo[r] : i[1] = m
     IN  \/ /\ file[m] = item[2] /\ file' = [file EXCEPT ![m] = "gone"]
            /\ todo' = [todo EXCEPT ![r] = @ \ {item}] /\ announced' = announced \ {m}
            /\ strays' = IF GivenUp(r) THEN strays \cup ({m} \cap Unread) ELSE strays
            /\ \/ todo[r] # {item} /\ UNCHANGED drain
               \/ todo[r] = {item} /\ Drained(r)
         \/ /\ file[m] # item[2] \/ Faults
            /\ Drained(r) /\ todo' = [todo EXCEPT ![r] = {}] /\ UNCHANGED <<file, strays,
                                                                            announced>>
  /\ UNCHANGED <<host, unpoked, signal, event, arming, pc, after, passing, gate, queue, read, due,
                 held, queued, reported>>

(* withdrawDrained: a notice goes when none of its messages is unread; a
   mailbox that cannot be listed proves nothing. *)
(* Mutant: a notice goes as soon as one of its messages has been read. *)
DrainsAny == {n \in held : n \ Unread # {}}

Drains == {n \in held : n \cap Unread = {}}

(* The call has returned; or it has been given up, by its abort signal or the
   client's timeout, before or after it reached the bridge. *)
Judge(r) ==
  /\ At("loop") /\ read[r] = "call" /\ read' = [read EXCEPT ![r] = "withdraw"]
  /\ UNCHANGED drain \/ (drain[r] = "list" /\ Drained(r))
  /\ strays' = {}
  /\ \/ /\ held' = held \ Drains /\ due' = [due EXCEPT ![r] = Drains] /\ UNCHANGED reported
     \/ /\ Faults \/ ~signal
        /\ reported' = reported \cup (Drains \cap queued) /\ UNCHANGED <<held, due>>
  /\ UNCHANGED <<mailbox, event, arming, pc, after, passing, gate, queue, todo, queued, announced>>

Withdraw(r, n) ==
  /\ At("loop") /\ read[r] = "withdraw" /\ n \in due[r] /\ due' = [due EXCEPT ![r] = @ \ {n}]
  /\ \/ /\ queued' = queued \ {n} /\ reported' = reported \ {n}
        /\ announced' = IF n \in queued THEN announced \ n ELSE announced
     \/ Faults /\ reported' = reported \cup ({n} \cap queued) /\ UNCHANGED <<queued, announced>>
  /\ UNCHANGED <<mailbox, event, arming, pc, after, passing, gate, queue, read, drains, held,
                 strays>>

ReadEnds(r) ==
  /\ At("loop") /\ read[r] = "withdraw" /\ due[r] = {}
  /\ read' = [read EXCEPT ![r] = "done"] /\ Goto("leave")
  /\ UNCHANGED <<mailbox, event, arming, passing, gate, queue, drains, due, notices>>

(* The session takes a notice out of its queue: the model sees it. *)
Consume(n) ==
  /\ n \in queued /\ queued' = queued \ {n} /\ reported' = reported \ {n}
  /\ UNCHANGED <<host, mailbox, event, arming, pc, after, passing, gate, queue, reading, held,
                 strays, announced>>

-----------------------------------------------------------------------------
Script ==
  \/ OpenWatch \/ WriteMarker \/ CloseWatch \/ CheckMarker \/ RemoveMarker
  \/ WatchFires \/ List \/ Stamp \/ Count \/ Settle \/ Leave
Drain(r) == DrainList(r) \/ Archive(r)
Withdrawal(r) == Judge(r) \/ (\E n \in Notice : Withdraw(r, n)) \/ ReadEnds(r)

Next ==
  \/ \E m \in Message : Send(m) \/ Poke(m)
  \/ FreshCut \/ Replaced \/ Arm \/ Edge \/ Retire \/ Close \/ Script
  \/ \E r \in Reader : Read(r) \/ Drain(r) \/ Withdrawal(r)
  \/ \E n \in queued : Consume(n)

(* Callbacks run, what has been awaited settles, and senders and bridges that
   live go on; all of it ends, so that one fairness serves them all. *)
Progress ==
  (\E m \in Message : Poke(m)) \/ Script \/ (\E r \in Reader : Drain(r) \/ Withdrawal(r))

Spec == Init /\ [][Next]_vars /\ WF_vars(Progress)

-----------------------------------------------------------------------------
(* No lost wake-up: a message that finds the doorbell armed is announced,
   unless it is read first, the doorbell is torn down, or the log or the
   report say that a pass has failed. *)
EverySentIsAnnounced ==
  \A m \in Message :
    file[m] = "msg" /\ armed ~> m \in announced \/ file[m] = "gone" \/ failed \/ ~armed

(* A stamped message that nobody has read is covered by a notice that has not
   been withdrawn. *)
UnreadIsCovered == gate = None /\ ~failed => Unread \subseteq announced

(* "No handle outlives its mail by more than one read": between reads, a
   notice still queued announces mail that was there when notices were last
   judged, and that only a drain whose call was given up has taken since; or
   its failure has been reported. *)
NoStaleNotice ==
  gate = None /\ signal => \A n \in queued \ reported : n \cap (Unread \cup strays) # {}

(* A marker outlives its watch only in a teardown, or where the last teardown
   could not read or could not remove it: the false deliverability of a closed
   watch under a surviving marker. *)
AdvertisedIsWatched ==
  marker => watch \/ pc \in {"check", "remove"} \/ residue

(* What makes these inductive.  A doorbell that takes itself to be armed has
   its watch open, and only a teardown comes between the two. *)
Arming ==
  /\ armed \/ pc = "mark" => watch
  /\ pc \in {"watch", "mark", "check", "remove"} => ~armed
  /\ marker => armed \/ pc \in {"check", "remove"} \/ residue

(* The pass has the gate until it leaves, and no pi-durable read calls the
   bridge or judges without it. *)
Reading == {"call", "withdraw"}
Gate ==
  /\ pc \in {"list", "stamp", "count"} => gate = "pass" /\ ~sending
  /\ sending => /\ gate = "pass" /\ host # "omp"
                /\ pc \in {"loop", "close", "check", "remove"} /\ after = "loop"
  /\ pc = "leave" \/ after = "leave" => gate # None /\ ~sending
  /\ after = "leave" => gate = "pass"
  /\ pc \notin {"close", "check", "remove"} => after = "loop"
  /\ queue # <<>> => Durable
  /\ \A r \in Reader :
       /\ Durable /\ read[r] \in Reading => gate = r /\ pc # "leave"
       /\ read[r] \in Reading => Durable

(* What has been stamped is announced, or is about to be. *)
Covered ==
  /\ sending => Unread \subseteq batch.unread
  /\ ~failed /\ ~sending /\ pc \notin {"stamp", "count"} => Unread \subseteq announced

Stamped(n) == \A m \in n : file[m] \in {"delivered", "gone"}
Passing == pc \in {"stamp", "count"} \/ sending

(* Notices are for stamped messages: while their pass lasts nobody reads them,
   but a drain whose call was given up. *)
Batch ==
  /\ Passing => Stamped(batch.fresh \ batch.todo)
  /\ pc = "count" \/ sending => batch.todo = {}
  /\ Passing /\ Durable => /\ batch.fresh # {}
                           /\ signal => batch.fresh \ batch.todo \subseteq Unread \cup strays

(* A notice in the session's queue can be withdrawn by the contact, or a read
   is withdrawing it, or its failure was reported; and a notice whose messages
   have all been read has a read at work that will judge it, or a given-up drain
   has taken one since the last judgement. *)
Notices ==
  /\ held # {} \/ queued # {} => Durable
  /\ \A n \in held : Stamped(n)
  /\ \A r \in Reader :
       /\ due[r] # {} => read[r] = "withdraw"
       /\ \A n \in due[r] : Stamped(n) /\ n \cap Unread = {}
  /\ \A n \in queued \ reported :
       /\ n \in held \/ \E r \in Reader : n \in due[r]
       /\ signal /\ n \cap (Unread \cup strays) = {} =>
            \E r \in Reader : n \in due[r] \/ (n \in held /\ read[r] = "call")

DoorbellInv == Arming /\ Gate /\ Covered /\ Batch /\ Notices
=============================================================================
