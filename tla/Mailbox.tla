------------------------------ MODULE Mailbox ------------------------------
(***************************************************************************)
(* The self-fetch mailbox of one garden citizen (meta-session.ts,          *)
(* doorbell.sh): a directory of message files whose suffix is the state of *)
(* each message, one inbox.signal that senders poke, and one state.json    *)
(* with the garden-wide receipts.  Senders enqueue, doorbells run on pokes *)
(* and announce, readers drain.  They are separate processes, nothing is   *)
(* locked, and every step below is one file-system call of one of them.    *)
(***************************************************************************)
EXTENDS Naturals

CONSTANTS
  Message,  \* the messages, each enqueued by a sender of its own; file names
            \* sort as numbers do, whatever the order the files appear in
  Reader,   \* calls of readMetaInbox
  Doorbell, \* doorbells that may run at the same time
  None,     \* an empty receipt slot
  Faults    \* whether a call may throw and a process may die

ASSUME MessageAssumption == Message \subseteq Nat
ASSUME NoneAssumption == None \notin Message \cup Reader
ASSUME FaultsAssumption == Faults \in BOOLEAN

VARIABLES
  file,      \* file[m]: the suffix of the message file
  whole,     \* the messages whose body is on disk
  receipt,   \* state.json: who stamped lastEnqueuedAt and lastReadAt
  poked,     \* inbox.signal has changed and no doorbell has run since
  announced, \* the messages some announcement has counted
  spc, sheld,          \* senders: step; state.json as the stamp read it
  rpc, rheld,          \* readers: step; state.json as the stamp read it
  todo, messages, torn,\* readers: files left; messages taken; those taken empty
  dpc, glob, fresh,    \* doorbells: step; the *.msg files of the glob; those left
  lapsed               \* history: messages of the glob of a doorbell that died

mail == <<file, whole>>
sender == <<spc, sheld>>
reader == <<rpc, rheld, todo, messages, torn>>
doorbell == <<dpc, glob, fresh, lapsed>>
vars == <<mail, receipt, poked, announced, sender, reader, doorbell>>

Unread == {"msg", "msg.delivered"}
Archived == {"msg.read", "msg.delivered.read"}
Suffix == Unread \cup Archived
Receipt == [enqueued : Message \cup {None}, read : Reader \cup {None}]

ToSend == {"create", "write", "stamp", "persist", "poke"}
ToRead == {"list", "read", "archive", "stamp", "persist"}

TypeOK == /\ file \in [Message -> Suffix \cup {"absent"}]
          /\ whole \subseteq Message /\ announced \subseteq Message
          /\ receipt \in Receipt /\ poked \in BOOLEAN
          /\ spc \in [Message -> ToSend \cup {"sent", "failed"}]
          /\ sheld \in [Message -> Receipt]
          /\ rpc \in [Reader -> ToRead \cup {"returned", "failed"}]
          /\ rheld \in [Reader -> Receipt]
          /\ todo \in [Reader -> SUBSET (Message \X Unread)]
          /\ messages \in [Reader -> SUBSET Message]
          /\ torn \in [Reader -> SUBSET Message]
          /\ dpc \in [Doorbell -> {"idle", "mark"}]
          /\ glob \in [Doorbell -> SUBSET Message]
          /\ fresh \in [Doorbell -> SUBSET Message] /\ lapsed \subseteq Message

NoReceipt == [enqueued |-> None, read |-> None]

Init == /\ file = [m \in Message |-> "absent"] /\ whole = {}
        /\ receipt = NoReceipt /\ poked = FALSE /\ announced = {}
        /\ spc = [m \in Message |-> "create"]
        /\ sheld = [m \in Message |-> NoReceipt]
        /\ rpc = [r \in Reader |-> "list"]
        /\ rheld = [r \in Reader |-> NoReceipt]
        /\ todo = [r \in Reader |-> {}]
        /\ messages = [r \in Reader |-> {}] /\ torn = [r \in Reader |-> {}]
        /\ dpc = [d \in Doorbell |-> "idle"] /\ lapsed = {}
        /\ glob = [d \in Doorbell |-> {}] /\ fresh = [d \in Doorbell |-> {}]

Rename(m, suffix) == file' = [file EXCEPT ![m] = suffix]

-----------------------------------------------------------------------------
(* A sender.  writeFileSync is an open that creates the file and a write. *)
SendStep(m, from, to) == spc[m] = from /\ spc' = [spc EXCEPT ![m] = to]

Create(m) == /\ SendStep(m, "create", "write") /\ Rename(m, "msg")
             /\ UNCHANGED <<whole, receipt, poked, announced, sheld, reader, doorbell>>

WriteBody(m) == /\ SendStep(m, "write", "stamp") /\ whole' = whole \cup {m}
                /\ UNCHANGED <<file, receipt, poked, announced, sheld, reader, doorbell>>

(* stampMailboxReceipt, for both: read state.json, then rename a new one
   over it that differs in one field from what was read. *)
StampEnqueued(m) ==
  /\ SendStep(m, "stamp", "persist") /\ sheld' = [sheld EXCEPT ![m] = receipt]
  /\ UNCHANGED <<mail, receipt, poked, announced, reader, doorbell>>

PersistEnqueued(m) ==
  /\ SendStep(m, "persist", "poke")
  /\ receipt' = [sheld[m] EXCEPT !.enqueued = m]
  /\ sheld' = [sheld EXCEPT ![m] = NoReceipt]
  /\ UNCHANGED <<mail, poked, announced, reader, doorbell>>

Poke(m) == /\ SendStep(m, "poke", "sent") /\ poked' = TRUE
           /\ UNCHANGED <<mail, receipt, announced, sheld, reader, doorbell>>

(* No rollback: what is on disk stays. *)
SenderFails(m) ==
  /\ Faults /\ spc[m] \in ToSend /\ spc' = [spc EXCEPT ![m] = "failed"]
  /\ UNCHANGED <<mail, receipt, poked, announced, sheld, reader, doorbell>>

-----------------------------------------------------------------------------
(* A reader. *)
ReadStep(r, from, to) == rpc[r] = from /\ rpc' = [rpc EXCEPT ![r] = to]

List(r) ==
  /\ ReadStep(r, "list", "read")
  /\ todo' = [todo EXCEPT ![r] = {<<m, file[m]>> : m \in {n \in Message : file[n] \in Unread}}]
  /\ UNCHANGED <<mail, receipt, poked, announced, sender, doorbell, rheld, messages, torn>>

IsFirst(r, e) == e \in todo[r] /\ \A other \in todo[r] : e[1] <= other[1]
Present(e) == file[e[1]] = e[2]

(* readFileSync: a name that is gone throws out of the whole drain. *)
ReadFile(r) ==
  /\ \E e \in todo[r] :
       /\ IsFirst(r, e)
       /\ \/ /\ Present(e) /\ ReadStep(r, "read", "archive")
             /\ messages' = [messages EXCEPT ![r] = @ \cup {e[1]}]
             /\ torn' = [torn EXCEPT ![r] = @ \cup ({e[1]} \ whole)]
          \/ ~Present(e) /\ ReadStep(r, "read", "failed") /\ UNCHANGED <<messages, torn>>
  /\ UNCHANGED <<mail, receipt, poked, announced, sender, doorbell, rheld, todo>>

ReadName(suffix) == IF suffix = "msg" THEN "msg.read" ELSE "msg.delivered.read"

(* Mutant: a rename that finds the name gone is ignored. *)
ArchiveTolerant(r) ==
  /\ ReadStep(r, "archive", "read")
  /\ \E e \in todo[r] :
       /\ IsFirst(r, e) /\ todo' = [todo EXCEPT ![r] = @ \ {e}]
       /\ IF Present(e) THEN Rename(e[1], ReadName(e[2])) ELSE UNCHANGED file
  /\ UNCHANGED <<whole, receipt, poked, announced, sender, doorbell, rheld, messages, torn>>

(* Mutant: an empty body is archived but not handed over. *)
ArchiveSkippingEmpty(r) ==
  /\ \E e \in todo[r] :
       /\ IsFirst(r, e)
       /\ \/ /\ Present(e) /\ ReadStep(r, "archive", "read")
             /\ Rename(e[1], ReadName(e[2])) /\ todo' = [todo EXCEPT ![r] = @ \ {e}]
             /\ messages' = [messages EXCEPT ![r] = @ \ torn[r]]
          \/ ~Present(e) /\ ReadStep(r, "archive", "failed") /\ UNCHANGED <<file, todo, messages>>
  /\ UNCHANGED <<whole, receipt, poked, announced, sender, doorbell, rheld, torn>>

(* renameSync to `.read`: it throws too when the name is gone. *)
Archive(r) ==
  /\ \E e \in todo[r] :
       /\ IsFirst(r, e)
       /\ \/ /\ Present(e) /\ ReadStep(r, "archive", "read")
             /\ Rename(e[1], ReadName(e[2])) /\ todo' = [todo EXCEPT ![r] = @ \ {e}]
          \/ ~Present(e) /\ ReadStep(r, "archive", "failed") /\ UNCHANGED <<file, todo>>
  /\ UNCHANGED <<whole, receipt, poked, announced, sender, doorbell, rheld, messages, torn>>

(* Mutant: an empty drain stamps too. *)
DrainedStampsAlways(r) ==
  /\ todo[r] = {} /\ ReadStep(r, "read", "stamp")
  /\ UNCHANGED <<mail, receipt, poked, announced, sender, doorbell, rheld, todo, messages, torn>>

(* Reading nothing is no receipt. *)
Drained(r) ==
  /\ todo[r] = {}
  /\ \/ messages[r] = {} /\ ReadStep(r, "read", "returned")
     \/ messages[r] # {} /\ ReadStep(r, "read", "stamp")
  /\ UNCHANGED <<mail, receipt, poked, announced, sender, doorbell, rheld, todo, messages, torn>>

StampRead(r) ==
  /\ ReadStep(r, "stamp", "persist") /\ rheld' = [rheld EXCEPT ![r] = receipt]
  /\ UNCHANGED <<mail, receipt, poked, announced, sender, doorbell, todo, messages, torn>>

PersistRead(r) ==
  /\ ReadStep(r, "persist", "returned")
  /\ receipt' = [rheld[r] EXCEPT !.read = r]
  /\ rheld' = [rheld EXCEPT ![r] = NoReceipt]
  /\ UNCHANGED <<mail, poked, announced, sender, doorbell, todo, messages, torn>>

ReaderFails(r) ==
  /\ Faults /\ rpc[r] \in ToRead /\ rpc' = [rpc EXCEPT ![r] = "failed"]
  /\ UNCHANGED <<mail, receipt, poked, announced, sender, doorbell, rheld, todo, messages, torn>>

-----------------------------------------------------------------------------
(* A doorbell.  A poke with no fresh message wakes nobody. *)
Wake(d) ==
  /\ dpc[d] = "idle" /\ poked /\ poked' = FALSE
  /\ LET found == {m \in Message : file[m] = "msg"}
     IN  /\ glob' = [glob EXCEPT ![d] = found] /\ fresh' = [fresh EXCEPT ![d] = found]
         /\ dpc' = [dpc EXCEPT ![d] = IF found = {} THEN "idle" ELSE "mark"]
  /\ UNCHANGED <<mail, receipt, announced, sender, reader, lapsed>>

RunEnds(d) ==
  /\ dpc' = [dpc EXCEPT ![d] = "idle"]
  /\ glob' = [glob EXCEPT ![d] = {}] /\ fresh' = [fresh EXCEPT ![d] = {}]

(* Under `set -e` the first mv that finds its file gone ends the script:
   what it has marked by then is not announced. *)
Lapse(d) == RunEnds(d) /\ lapsed' = lapsed \cup glob[d]

Mark(d) ==
  /\ dpc[d] = "mark"
  /\ \E m \in fresh[d] :
       /\ \A other \in fresh[d] : m <= other
       /\ \/ /\ file[m] = "msg" /\ Rename(m, "msg.delivered")
             /\ fresh' = [fresh EXCEPT ![d] = @ \ {m}] /\ UNCHANGED <<dpc, glob, lapsed>>
          \/ file[m] # "msg" /\ UNCHANGED file /\ Lapse(d)
  /\ UNCHANGED <<whole, receipt, poked, announced, sender, reader>>

Delivered == {m \in Message : file[m] = "msg.delivered"}

(* Mutant: a poke that arrives during the run is forgotten. *)
AnnounceForgets(d) ==
  /\ dpc[d] = "mark" /\ fresh[d] = {}
  /\ announced' = announced \cup Delivered /\ RunEnds(d) /\ poked' = FALSE
  /\ UNCHANGED <<mail, receipt, sender, reader, lapsed>>

(* The announcement counts every delivered message, old ones too. *)
Announce(d) ==
  /\ dpc[d] = "mark" /\ fresh[d] = {}
  /\ announced' = announced \cup Delivered /\ RunEnds(d)
  /\ UNCHANGED <<mail, receipt, poked, sender, reader, lapsed>>

DoorbellDies(d) ==
  /\ Faults /\ dpc[d] = "mark" /\ Lapse(d)
  /\ UNCHANGED <<mail, receipt, poked, announced, sender, reader>>

-----------------------------------------------------------------------------
Enqueue(m) == Create(m) \/ WriteBody(m) \/ StampEnqueued(m) \/ PersistEnqueued(m) \/ Poke(m)
Drain(r) == List(r) \/ ReadFile(r) \/ Archive(r) \/ Drained(r) \/ StampRead(r) \/ PersistRead(r)
Ring(d) == Wake(d) \/ Mark(d) \/ Announce(d)

Next == \/ \E m \in Message : Enqueue(m) \/ SenderFails(m)
        \/ \E r \in Reader : Drain(r) \/ ReaderFails(r)
        \/ \E d \in Doorbell : Ring(d) \/ DoorbellDies(d)

Spec == Init /\ [][Next]_vars

-----------------------------------------------------------------------------
IsArchived(m) == file[m] \in Archived

(* "A re-read never double-returns" (readMetaInbox): two calls that return
   never hold the same message, though both may have read its file and a
   doorbell may have renamed it in between. *)
NeverReturnedTwice ==
  \A r, q \in Reader : r # q /\ rpc[r] = "returned" /\ rpc[q] = "returned"
                         => messages[r] \cap messages[q] = {}

(* No message leaves the mailbox in silence: an archived one is among those
   of some call, which returns them or ends in an error its caller sees. *)
LossIsLoud == \A m \in Message : IsArchived(m) => \E r \in Reader : m \in messages[r]

(* state.json names a read only if that call archived a message, whatever
   the stamps of others wrote over. *)
ReceiptIsEarned ==
  receipt.read # None => \E m \in messages[receipt.read] : IsArchived(m)

(* The inductive form.  What a call has taken and put out of its list is
   archived and no other call has it so; the stamps in flight, like
   state.json, name only calls that archived something. *)
Kept(r) == {m \in messages[r] : \A e \in todo[r] : e[1] # m}
Earners == {None} \cup {r \in Reader : \E m \in messages[r] : IsArchived(m)}

MailboxInv ==
  /\ \A m \in Message : spc[m] = "create" => file[m] = "absent"
  /\ \A r \in Reader : \A m \in Kept(r) : IsArchived(m)
  /\ \A r, q \in Reader : r # q => Kept(r) \cap Kept(q) = {}
  /\ \A r \in Reader : rpc[r] = "list" => messages[r] = {}
  /\ \A r \in Reader : rpc[r] = "archive" =>
       \A e \in todo[r] : IsFirst(r, e) => e[1] \in messages[r]
  /\ \A r \in Reader : rpc[r] \in {"stamp", "persist", "returned"} => todo[r] = {}
  /\ \A r \in Reader : rpc[r] \in {"stamp", "persist"} => messages[r] # {}
  /\ receipt.read \in Earners
  /\ \A r \in Reader : rheld[r].read \in Earners
  /\ \A m \in Message : sheld[m].read \in Earners
  /\ LossIsLoud

(* No wake is forgotten.  A message whose sender was told `enqueued`, and
   which nobody has looked at, has a poke outstanding or is in the hands of a
   running doorbell; one that is stamped and not announced is in the glob of a
   doorbell that is still running.  Only a doorbell that died leaves others. *)
Coming(m) ==
  CASE file[m] = "msg" /\ spc[m] = "sent" -> poked \/ \E d \in Doorbell : m \in fresh[d]
    [] file[m] = "msg.delivered" -> \E d \in Doorbell : m \in glob[d]
    [] OTHER -> TRUE

NoWakeForgotten == \A m \in Message \ (announced \cup lapsed) : Coming(m)

=============================================================================
