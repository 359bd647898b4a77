--------------------------- MODULE MailboxProofs ---------------------------
(***************************************************************************)
(* The mailbox for any number of messages, readers and doorbells.          *)
(***************************************************************************)
EXTENDS Mailbox, TLAPS

USE MessageAssumption, NoneAssumption, FaultsAssumption

(* Every variable of the mailbox keeps its type. *)
THEOREM TypeCorrect == Spec => []TypeOK
<1>1. ASSUME Init PROVE TypeOK
  <2>1. file \in [Message -> Suffix \cup {"absent"}] /\ whole \subseteq Message
    BY <1>1 DEF Init
  <2>2. NoReceipt \in Receipt
    BY DEF NoReceipt, Receipt
  <2>3. /\ receipt \in Receipt /\ poked \in BOOLEAN /\ announced \subseteq Message
        /\ sheld \in [Message -> Receipt] /\ rheld \in [Reader -> Receipt]
    BY <1>1, <2>2 DEF Init
  <2>4. /\ spc \in [Message -> ToSend \cup {"sent", "failed"}]
        /\ rpc \in [Reader -> ToRead \cup {"returned", "failed"}]
        /\ dpc \in [Doorbell -> {"idle", "mark"}]
    BY <1>1 DEF Init, ToSend, ToRead
  <2>5. /\ todo \in [Reader -> SUBSET (Message \X Unread)]
        /\ messages \in [Reader -> SUBSET Message] /\ torn \in [Reader -> SUBSET Message]
        /\ glob \in [Doorbell -> SUBSET Message] /\ fresh \in [Doorbell -> SUBSET Message]
        /\ lapsed \subseteq Message
    BY <1>1 DEF Init
  <2>6. QED  BY <2>1, <2>3, <2>4, <2>5 DEF TypeOK
<1>2. ASSUME TypeOK, [Next]_vars PROVE TypeOK'
  <2> USE <1>2 DEF TypeOK, NoReceipt, Receipt, ToSend, ToRead, Suffix, Unread, Archived, Rename,
                   mail, sender, reader, doorbell
  <2>1. ASSUME NEW m \in Message, Enqueue(m) \/ SenderFails(m) PROVE TypeOK'
    <3> USE DEF SendStep
    <3>1. CASE Create(m)  BY <3>1 DEF Create
    <3>2. CASE WriteBody(m)  BY <3>2 DEF WriteBody
    <3>3. CASE StampEnqueued(m)  BY <3>3 DEF StampEnqueued
    <3>4. CASE PersistEnqueued(m)  BY <3>4 DEF PersistEnqueued
    <3>5. CASE Poke(m)  BY <3>5 DEF Poke
    <3>6. CASE SenderFails(m)  BY <3>6 DEF SenderFails
    <3>7. QED  BY <2>1, <3>1, <3>2, <3>3, <3>4, <3>5, <3>6 DEF Enqueue
  <2>2. ASSUME NEW r \in Reader, Drain(r) \/ ReaderFails(r) PROVE TypeOK'
    <3> USE DEF ReadStep
    <3>1. CASE List(r)  BY <3>1 DEF List
    <3>2. CASE ReadFile(r)  BY <3>2 DEF ReadFile
    <3>3. CASE Archive(r)
      <4>1. \A suffix : ReadName(suffix) \in Suffix
        BY DEF ReadName
      <4>2. PICK e \in todo[r] :
               \/ /\ ReadStep(r, "archive", "read") /\ Rename(e[1], ReadName(e[2]))
                  /\ todo' = [todo EXCEPT ![r] = @ \ {e}]
               \/ ReadStep(r, "archive", "failed") /\ UNCHANGED <<file, todo>>
        BY <3>3 DEF Archive
      <4>3. file' \in [Message -> Suffix \cup {"absent"}]
        BY <4>1, <4>2
      <4>4. rpc' \in [Reader -> ToRead \cup {"returned", "failed"}]
        BY <4>2
      <4>t. todo[r] \ {e} \in SUBSET (Message \X Unread)
        OBVIOUS
      <4>u. todo' \in [Reader -> SUBSET (Message \X Unread)]
        BY <4>2, <4>t
      <4>5. QED  BY <3>3, <4>3, <4>4, <4>u DEF Archive
    <3>4. CASE Drained(r)  BY <3>4 DEF Drained
    <3>5. CASE StampRead(r)  BY <3>5 DEF StampRead
    <3>6. CASE PersistRead(r)  BY <3>6 DEF PersistRead
    <3>7. CASE ReaderFails(r)  BY <3>7 DEF ReaderFails
    <3>8. QED  BY <2>2, <3>1, <3>2, <3>3, <3>4, <3>5, <3>6, <3>7 DEF Drain
  <2>3. ASSUME NEW d \in Doorbell, Ring(d) \/ DoorbellDies(d) PROVE TypeOK'
    <3> USE DEF RunEnds, Lapse
    <3>1. CASE Wake(d)  BY <3>1 DEF Wake
    <3>2. CASE Mark(d)
      <4>1. file' \in [Message -> Suffix \cup {"absent"}]
        BY <3>2 DEF Mark
      <4>2. glob' \in [Doorbell -> SUBSET Message] /\ lapsed' \subseteq Message
        BY <3>2 DEF Mark
      <4>f. PICK m \in fresh[d] :
              \/ fresh' = [fresh EXCEPT ![d] = @ \ {m}]
              \/ fresh' = [fresh EXCEPT ![d] = {}]
        BY <3>2 DEF Mark
      <4>g. fresh' \in [Doorbell -> SUBSET Message]
        BY <4>f
      <4>3. dpc' \in [Doorbell -> {"idle", "mark"}]
        BY <3>2 DEF Mark
      <4>4. QED  BY <3>2, <4>1, <4>2, <4>3, <4>g DEF Mark
    <3>3. CASE Announce(d)  BY <3>3 DEF Announce, Delivered
    <3>4. CASE DoorbellDies(d)  BY <3>4 DEF DoorbellDies
    <3>5. QED  BY <2>3, <3>1, <3>2, <3>3, <3>4 DEF Ring
  <2>4. CASE UNCHANGED vars  BY <2>4 DEF vars
  <2>5. QED  BY <2>1, <2>2, <2>3, <2>4 DEF Next
<1>3. QED  BY <1>1, <1>2, PTL DEF Spec
-----------------------------------------------------------------------------
(* Once archived, a message stays archived: senders create each file once,
   and doorbells rename only `.msg`. *)
LEMMA ArchivedStays ==
  ASSUME TypeOK, [Next]_vars, NEW m \in Message, IsArchived(m), spc[m] # "create"
  PROVE  IsArchived(m)'
<1> USE DEF IsArchived, Archived, Unread, Rename, TypeOK, mail, sender, reader, doorbell
<1>1. CASE \E n \in Message : Enqueue(n) \/ SenderFails(n)
  BY <1>1 DEF Enqueue, SenderFails, Create, WriteBody, StampEnqueued, PersistEnqueued, Poke, SendStep
<1>2. CASE \E r \in Reader : Drain(r) \/ ReaderFails(r)
  BY <1>2 DEF Drain, ReaderFails, List, ReadFile, Archive, Drained, StampRead, PersistRead, ReadName
<1>3. CASE \E d \in Doorbell : Ring(d) \/ DoorbellDies(d)
  BY <1>3 DEF Ring, DoorbellDies, Wake, Mark, Announce
<1>4. CASE UNCHANGED vars  BY <1>4 DEF vars
<1>5. QED  BY <1>1, <1>2, <1>3, <1>4 DEF Next

(* MailboxInv is inductive. *)
THEOREM MailboxInvariant == Spec => []MailboxInv
<1>1. ASSUME Init PROVE MailboxInv
  <2>1. /\ \A r \in Reader : messages[r] = {} /\ rpc[r] = "list" /\ rheld[r].read = None
        /\ \A m \in Message : file[m] = "absent" /\ sheld[m].read = None
        /\ receipt.read = None
    BY <1>1 DEF Init, NoReceipt
  <2>2. QED  BY <2>1 DEF MailboxInv, Kept, Earners, LossIsLoud, IsArchived, Archived
<1>2. ASSUME TypeOK, TypeOK', MailboxInv, [Next]_vars PROVE MailboxInv'
  <2> DEFINE Sending == \E n \in Message : Enqueue(n) \/ SenderFails(n)
             Reading == \E r \in Reader : Drain(r) \/ ReaderFails(r)
             Ringing == \E d \in Doorbell : Ring(d) \/ DoorbellDies(d)
  <2> USE <1>2 DEF mail, sender, reader, doorbell
  <2>0. Sending \/ Reading \/ Ringing \/ UNCHANGED vars
    BY DEF Next
  <2>1. \A m \in Message : spc'[m] = "create" => file'[m] = "absent"
    <3> USE DEF TypeOK, MailboxInv, Rename
    <3>1. CASE Sending
      BY <3>1 DEF Enqueue, SenderFails, Create, WriteBody, StampEnqueued, PersistEnqueued, Poke,
                  SendStep, ToSend
    <3>2. CASE Reading
      <4>1. spc' = spc
        BY <3>2 DEF Drain, ReaderFails, List, ReadFile, Archive, Drained, StampRead, PersistRead
      <4>2. CASE \E r \in Reader : Archive(r)
        <5>1. PICK r \in Reader, e \in Message \X Unread :
                 \/ Present(e) /\ Rename(e[1], ReadName(e[2]))
                 \/ file' = file
          BY <4>2 DEF Archive
        <5>2. CASE file' = file  BY <4>1, <5>2
        <5>3. CASE Present(e) /\ Rename(e[1], ReadName(e[2]))
          <6>1. e[1] \in Message /\ spc[e[1]] # "create"
            BY <5>3 DEF Present, Unread
          <6>2. QED  BY <4>1, <5>3, <6>1
        <5>4. QED  BY <5>1, <5>2, <5>3
      <4>3. CASE file' = file  BY <4>1, <4>3
      <4>4. QED
        BY <3>2, <4>2, <4>3 DEF Drain, ReaderFails, List, ReadFile, Drained, StampRead, PersistRead
    <3>3. CASE Ringing
      BY <3>3 DEF Ring, DoorbellDies, Wake, Mark, Announce
    <3>4. CASE UNCHANGED vars  BY <3>4 DEF vars
    <3>5. QED  BY <2>0, <3>1, <3>2, <3>3, <3>4
  <2>2. \A m \in Message : IsArchived(m) => IsArchived(m)'
    BY ArchivedStays DEF MailboxInv, IsArchived, Archived
  <2>3. \A r \in Reader : messages[r] \subseteq messages'[r]
    <3>1. messages' = messages \/ \E r \in Reader : ReadFile(r)
      BY <2>0 DEF Enqueue, SenderFails, Create, WriteBody, StampEnqueued, PersistEnqueued, Poke,
                  Drain, ReaderFails, List, Archive, Drained, StampRead, PersistRead,
                  Ring, DoorbellDies, Wake, Mark, Announce, vars
    <3>2. QED  BY <3>1 DEF ReadFile, TypeOK
  <2>4. Earners \subseteq Earners'
    BY <2>2, <2>3 DEF Earners, TypeOK
  (* What each process may have read of state.json is earned. *)
  <2>5. /\ receipt'.read \in Earners' /\ \A r \in Reader : rheld'[r].read \in Earners'
        /\ \A m \in Message : sheld'[m].read \in Earners'
    <3>1. /\ receipt.read \in Earners' /\ None \in Earners'
          /\ \A r \in Reader : rheld[r].read \in Earners'
          /\ \A m \in Message : sheld[m].read \in Earners'
      BY <2>4 DEF MailboxInv, Earners
    <3>2. CASE UNCHANGED <<receipt, sheld, rheld>>
      BY <3>1, <3>2
    <3>3. CASE \E m \in Message : StampEnqueued(m)
      BY <3>1, <3>3 DEF StampEnqueued, TypeOK
    <3>4. CASE \E m \in Message : PersistEnqueued(m)
      <4>1. PICK m \in Message : PersistEnqueued(m)
        BY <3>4
      <4>2. receipt'.read = sheld[m].read
        BY <4>1 DEF PersistEnqueued, TypeOK, Receipt
      <4>3. sheld' = [sheld EXCEPT ![m] = NoReceipt] /\ rheld' = rheld
        BY <4>1 DEF PersistEnqueued
      <4>4. NoReceipt.read = None
        BY DEF NoReceipt
      <4>5. QED  BY <3>1, <4>2, <4>3, <4>4 DEF TypeOK
    <3>5. CASE \E r \in Reader : StampRead(r)
      BY <3>1, <3>5 DEF StampRead, TypeOK
    <3>6. CASE \E r \in Reader : PersistRead(r)
      <4>1. PICK r \in Reader : PersistRead(r)
        BY <3>6
      <4>2. todo[r] = {} /\ messages[r] # {}
        BY <4>1 DEF PersistRead, ReadStep, MailboxInv
      <4>3. r \in Earners
        BY <4>2 DEF MailboxInv, Kept, Earners
      <4>4. receipt'.read = r
        BY <4>1 DEF PersistRead, TypeOK, Receipt
      <4>5. rheld' = [rheld EXCEPT ![r] = NoReceipt] /\ sheld' = sheld
        BY <4>1 DEF PersistRead
      <4>6. NoReceipt.read = None
        BY DEF NoReceipt
      <4>7. QED  BY <2>4, <3>1, <4>3, <4>4, <4>5, <4>6 DEF TypeOK
    <3>7. QED
      BY <2>0, <3>2, <3>3, <3>4, <3>5, <3>6 DEF Enqueue, SenderFails, Create, WriteBody, Poke,
         Drain, ReaderFails, List, ReadFile, Archive, Drained,
         Ring, DoorbellDies, Wake, Mark, Announce, vars
  (* One archived message more is kept, by the call that renamed it. *)
  <2>6. /\ \A r \in Reader : \A m \in Kept(r)' : IsArchived(m)'
        /\ \A r, q \in Reader : r # q => Kept(r)' \cap Kept(q)' = {}
    <3>1. ASSUME \A r \in Reader : Kept(r)' \subseteq Kept(r)
          PROVE  /\ \A r \in Reader : \A m \in Kept(r)' : IsArchived(m)'
                 /\ \A r, q \in Reader : r # q => Kept(r)' \cap Kept(q)' = {}
      <4>1. \A r \in Reader : Kept(r) \subseteq Message /\ \A m \in Kept(r) : IsArchived(m)
        BY DEF MailboxInv, Kept, TypeOK
      <4>2. \A r, q \in Reader : r # q => Kept(r) \cap Kept(q) = {}
        BY DEF MailboxInv
      <4>3. QED  BY <2>2, <3>1, <4>1, <4>2
    <3>2. CASE UNCHANGED <<todo, messages>>
      BY <3>1, <3>2 DEF Kept
    <3>3. CASE \E r \in Reader : List(r)
      <4>1. PICK r \in Reader : List(r)
        BY <3>3
      <4>2. messages[r] = {} /\ messages' = messages /\ \A q \in Reader \ {r} : todo'[q] = todo[q]
        BY <4>1 DEF List, ReadStep, MailboxInv, TypeOK
      <4>3. QED  BY <3>1, <4>2 DEF Kept
    <3>4. CASE \E r \in Reader : ReadFile(r)
      <4>1. PICK r \in Reader, e \in Message \X Unread :
               /\ e \in todo[r]
               /\ todo' = todo
               /\ messages' = messages \/ messages' = [messages EXCEPT ![r] = @ \cup {e[1]}]
        BY <3>4 DEF ReadFile, TypeOK
      <4>2. \A q \in Reader : Kept(q)' \subseteq Kept(q)
        BY <4>1 DEF Kept, TypeOK
      <4>3. QED  BY <3>1, <4>2
    <3>5. CASE \E r \in Reader : Archive(r)
      <4>1. PICK r \in Reader, e \in Message \X Unread :
               /\ e \in todo[r]
               /\ messages' = messages
               /\ \/ /\ Present(e) /\ Rename(e[1], ReadName(e[2]))
                     /\ todo' = [todo EXCEPT ![r] = @ \ {e}]
                  \/ todo' = todo
        BY <3>5 DEF Archive, TypeOK
      <4>2. CASE todo' = todo
        BY <3>2, <4>1, <4>2
      <4>3. CASE /\ Present(e) /\ Rename(e[1], ReadName(e[2]))
                 /\ todo' = [todo EXCEPT ![r] = @ \ {e}]
        <5>1. e[1] \in Message /\ ~IsArchived(e[1])
          BY <4>3 DEF TypeOK, Present, IsArchived, Unread, Archived
        <5>2. IsArchived(e[1])'
          BY <4>3, <5>1 DEF TypeOK, Rename, ReadName, IsArchived, Archived
        <5>3. Kept(r)' \subseteq Kept(r) \cup {e[1]} /\ \A q \in Reader \ {r} : Kept(q)' = Kept(q)
          BY <4>1, <4>3 DEF Kept, TypeOK
        <5>4. \A q \in Reader : e[1] \notin Kept(q)
          BY <5>1 DEF MailboxInv
        <5>5. \A q \in Reader : Kept(q) \subseteq Message
          BY DEF Kept, TypeOK
        <5>6. /\ \A q \in Reader : \A m \in Kept(q) : IsArchived(m)'
              /\ \A q, p \in Reader : q # p => Kept(q) \cap Kept(p) = {}
          BY <2>2, <5>5 DEF MailboxInv
        <5>7. \A q \in Reader : \A m \in Kept(q)' : IsArchived(m)'
          BY <5>2, <5>3, <5>6
        <5>8. \A q, p \in Reader : q # p => Kept(q)' \cap Kept(p)' = {}
          BY <5>3, <5>4, <5>6
        <5>9. QED  BY <5>7, <5>8
      <4>4. QED  BY <4>1, <4>2, <4>3
    <3>6. QED
      BY <2>0, <3>2, <3>3, <3>4, <3>5 DEF Enqueue, SenderFails, Create, WriteBody, StampEnqueued,
         PersistEnqueued, Poke, Drain, ReaderFails, Drained, StampRead, PersistRead,
         Ring, DoorbellDies, Wake, Mark, Announce, vars
  (* The steps of a call, and what it then holds. *)
  <2>7. \A r \in Reader :
           /\ rpc'[r] = "list" => messages'[r] = {}
           /\ rpc'[r] \in {"stamp", "persist", "returned"} => todo'[r] = {}
           /\ rpc'[r] \in {"stamp", "persist"} => messages'[r] # {}
    <3> USE DEF MailboxInv, TypeOK, ReadStep
    <3>1. CASE Sending
      BY <3>1 DEF Enqueue, SenderFails, Create, WriteBody, StampEnqueued, PersistEnqueued, Poke
    <3>2. CASE Reading
      <4>1. PICK r \in Reader : Drain(r) \/ ReaderFails(r)
        BY <3>2
      <4>2. CASE List(r)  BY <4>2 DEF List
      <4>3. CASE ReadFile(r)  BY <4>3 DEF ReadFile
      <4>4. CASE Archive(r)  BY <4>4 DEF Archive
      <4>5. CASE Drained(r)  BY <4>5 DEF Drained
      <4>6. CASE StampRead(r)  BY <4>6 DEF StampRead
      <4>7. CASE PersistRead(r)  BY <4>7 DEF PersistRead
      <4>8. CASE ReaderFails(r)  BY <4>8 DEF ReaderFails
      <4>9. QED  BY <4>1, <4>2, <4>3, <4>4, <4>5, <4>6, <4>7, <4>8 DEF Drain
    <3>3. CASE Ringing
      BY <3>3 DEF Ring, DoorbellDies, Wake, Mark, Announce
    <3>4. CASE UNCHANGED vars  BY <3>4 DEF vars
    <3>5. QED  BY <2>0, <3>1, <3>2, <3>3, <3>4
  <2>8. \A r \in Reader : rpc'[r] = "archive" =>
           \A e \in todo'[r] : IsFirst(r, e)' => e[1] \in messages'[r]
    <3>1. CASE UNCHANGED <<rpc, todo, messages>>
      BY <3>1 DEF MailboxInv, IsFirst
    <3>2. CASE \E r \in Reader : ReadFile(r)
      <4>1. PICK r \in Reader, e \in Message \X Unread :
               /\ e \in todo[r]
               /\ IsFirst(r, e) /\ todo' = todo /\ \A q \in Reader \ {r} : rpc'[q] = rpc[q]
               /\ \/ messages' = [messages EXCEPT ![r] = @ \cup {e[1]}]
                  \/ rpc'[r] = "failed"
        BY <3>2 DEF ReadFile, ReadStep, TypeOK
      <4>2. \A f \in todo[r] : IsFirst(r, f) => f[1] = e[1]
        <5>1. SUFFICES ASSUME NEW f \in todo[r], IsFirst(r, f) PROVE f[1] = e[1]
          OBVIOUS
        <5>2. e \in Message \X Unread /\ f \in Message \X Unread
          BY DEF TypeOK
        <5>3. e[1] <= f[1] /\ f[1] <= e[1]
          BY <4>1, <5>1 DEF IsFirst
        <5>4. e[1] \in Nat /\ f[1] \in Nat
          BY <5>2
        <5>5. QED  BY <5>3, <5>4
      <4>3. \A q \in Reader : \A f \in todo[q] : IsFirst(q, f)' <=> IsFirst(q, f)
        BY <4>1 DEF IsFirst
      <4>4. \A q \in Reader \ {r} : \A f \in todo[q] :
               rpc'[q] = "archive" /\ IsFirst(q, f) => f[1] \in messages[q]
        BY <4>1 DEF MailboxInv
      <4>5. rpc'[r] = "archive" => e[1] \in messages'[r]
        BY <4>1 DEF TypeOK
      <4>6. QED  BY <2>3, <4>1, <4>2, <4>3, <4>4, <4>5
    <3>3. CASE \E r \in Reader : /\ rpc' = [rpc EXCEPT ![r] = rpc'[r]] /\ rpc'[r] # "archive"
                                 /\ messages' = messages
                                 /\ \A q \in Reader \ {r} : todo'[q] = todo[q]
      BY <3>3 DEF MailboxInv, IsFirst, TypeOK
    <3>4. CASE Reading
      <4>1. PICK r \in Reader : Drain(r) \/ ReaderFails(r)
        BY <3>4
      <4>2. \/ ReadFile(r)
            \/ /\ rpc' = [rpc EXCEPT ![r] = rpc'[r]] /\ rpc'[r] # "archive"
               /\ messages' = messages /\ \A q \in Reader \ {r} : todo'[q] = todo[q]
        BY <4>1 DEF Drain, ReaderFails, List, Archive, Drained, StampRead, PersistRead, ReadStep, TypeOK
      <4>3. QED  BY <3>2, <3>3, <4>2
    <3>5. QED
      BY <2>0, <3>1, <3>4 DEF Enqueue, SenderFails, Create, WriteBody, StampEnqueued,
         PersistEnqueued, Poke, Ring, DoorbellDies, Wake, Mark, Announce, vars
  <2>9. LossIsLoud'
    <3>1. SUFFICES ASSUME NEW m \in Message, IsArchived(m)' PROVE \E r \in Reader : m \in messages'[r]
      BY DEF LossIsLoud
    <3>2. CASE IsArchived(m)
      BY <2>3, <3>2 DEF MailboxInv, LossIsLoud
    <3>3. CASE ~IsArchived(m)
      <4>1. PICK r \in Reader : Archive(r)
        BY <2>0, <3>1, <3>3 DEF IsArchived, Archived, TypeOK, Rename, Enqueue, SenderFails, Create,
           WriteBody, StampEnqueued, PersistEnqueued, Poke, Drain, ReaderFails, List, ReadFile,
           Drained, StampRead, PersistRead, Ring, DoorbellDies, Wake, Mark, Announce, vars
      <4>2. PICK e \in todo[r] : /\ IsFirst(r, e) /\ rpc[r] = "archive"
                                 /\ Rename(e[1], ReadName(e[2])) \/ file' = file
        BY <4>1 DEF Archive, ReadStep
      <4>3. m = e[1]
        BY <3>1, <3>3, <4>2 DEF Rename, IsArchived, TypeOK
      <4>4. m \in messages[r]
        BY <4>2, <4>3 DEF MailboxInv
      <4>5. QED  BY <2>3, <4>4
    <3>4. QED  BY <3>2, <3>3
  <2>10. QED  BY <2>1, <2>5, <2>6, <2>7, <2>8, <2>9 DEF MailboxInv
<1>3. QED  BY <1>1, <1>2, TypeCorrect, PTL DEF Spec

(* No two calls return the same message. *)
THEOREM NoDoubleReturn == Spec => []NeverReturnedTwice
<1>1. MailboxInv => NeverReturnedTwice
  BY DEF MailboxInv, NeverReturnedTwice, Kept
<1>2. QED  BY <1>1, MailboxInvariant, PTL

(* A message leaves the mailbox only into the hands of a call. *)
THEOREM NoSilentLoss == Spec => []LossIsLoud
<1>1. MailboxInv => LossIsLoud
  BY DEF MailboxInv
<1>2. QED  BY <1>1, MailboxInvariant, PTL

(* A read receipt names a call that archived a message. *)
THEOREM EarnedReceipt == Spec => []ReceiptIsEarned
<1>1. MailboxInv => ReceiptIsEarned
  BY DEF MailboxInv, ReceiptIsEarned, Earners
<1>2. QED  BY <1>1, MailboxInvariant, PTL
-----------------------------------------------------------------------------
(* What is left of a glob is part of it, and an idle doorbell has none. *)
DoorbellInv ==
  \A d \in Doorbell : fresh[d] \subseteq glob[d] /\ (dpc[d] = "idle" => glob[d] = {})

THEOREM DoorbellInvariant == Spec => []DoorbellInv
<1>1. ASSUME Init PROVE DoorbellInv
  BY <1>1 DEF Init, DoorbellInv
<1>2. ASSUME TypeOK, DoorbellInv, [Next]_vars PROVE DoorbellInv'
  <2> USE <1>2 DEF DoorbellInv
  <2>1. CASE \E m \in Message : Enqueue(m) \/ SenderFails(m)
    BY <2>1 DEF Enqueue, SenderFails, Create, WriteBody, StampEnqueued, PersistEnqueued, Poke, doorbell
  <2>2. CASE \E r \in Reader : Drain(r) \/ ReaderFails(r)
    BY <2>2 DEF Drain, ReaderFails, List, ReadFile, Archive, Drained, StampRead, PersistRead, doorbell
  <2>3. ASSUME NEW d \in Doorbell, Ring(d) \/ DoorbellDies(d) PROVE DoorbellInv'
    <3> USE DEF TypeOK
    <3>1. CASE Wake(d)  BY <3>1 DEF Wake
    <3>2. CASE Mark(d)  BY <3>2 DEF Mark, Lapse, RunEnds
    <3>3. CASE Announce(d)  BY <3>3 DEF Announce, RunEnds
    <3>4. CASE DoorbellDies(d)  BY <3>4 DEF DoorbellDies, Lapse, RunEnds
    <3>5. QED  BY <2>3, <3>1, <3>2, <3>3, <3>4 DEF Ring
  <2>4. CASE UNCHANGED vars  BY <2>4 DEF vars, doorbell
  <2>5. QED  BY <2>1, <2>2, <2>3, <2>4 DEF Next
<1>3. QED  BY <1>1, <1>2, TypeCorrect, PTL DEF Spec

(* A message sent and not announced has a poke outstanding or a doorbell at
   work on it, unless a doorbell died with it in hand. *)
THEOREM NoForgottenWake == Spec => []NoWakeForgotten
<1>1. ASSUME Init PROVE NoWakeForgotten
  BY <1>1 DEF Init, NoWakeForgotten, Coming
<1>2. ASSUME TypeOK, DoorbellInv, NoWakeForgotten, [Next]_vars PROVE NoWakeForgotten'
  <2> SUFFICES ASSUME NEW m \in Message, m \notin announced', m \notin lapsed'
               PROVE  Coming(m)'
    BY DEF NoWakeForgotten
  <2> USE <1>2
  <2>1. ASSUME NEW n \in Message, Enqueue(n) \/ SenderFails(n) PROVE Coming(m)'
    <3>1. announced' = announced /\ lapsed' = lapsed /\ glob' = glob /\ fresh' = fresh
      BY <2>1 DEF Enqueue, SenderFails, Create, WriteBody, StampEnqueued, PersistEnqueued, Poke, doorbell
    <3>2. Coming(m)
      BY <3>1 DEF NoWakeForgotten
    <3>3. file'[m] = file[m] \/ spc'[m] = "write"
      BY <2>1 DEF Enqueue, SenderFails, Create, WriteBody, StampEnqueued, PersistEnqueued, Poke,
                  SendStep, Rename, TypeOK, mail
    <3>t. CASE file[m] = "msg" /\ spc'[m] = "sent" /\ spc[m] # "sent"
      <4>1. n = m /\ Poke(m)
        BY <2>1, <3>t DEF Enqueue, SenderFails, Create, WriteBody, StampEnqueued, PersistEnqueued,
                          Poke, SendStep, TypeOK
      <4>2. QED  BY <3>t, <4>1 DEF Coming, Poke, mail
    <3>4. poked' = poked \/ Poke(n)
      BY <2>1 DEF Enqueue, SenderFails, Create, WriteBody, StampEnqueued, PersistEnqueued, Poke
    <3>6. CASE Poke(n)  BY <3>1, <3>2, <3>6 DEF Poke, Coming, mail
    <3>5. CASE spc'[m] = "write"
      <4>1. CASE file'[m] = file[m]  BY <3>1, <3>2, <3>5, <4>1 DEF Coming
      <4>2. CASE file'[m] # file[m]
        <5>1. file'[m] = "msg"
          BY <2>1, <4>2 DEF Enqueue, SenderFails, Create, WriteBody, StampEnqueued, PersistEnqueued,
                            Poke, Rename, TypeOK, mail
        <5>2. QED  BY <3>5, <5>1 DEF Coming
      <4>3. QED  BY <4>1, <4>2
    <3>7. CASE file'[m] = file[m] /\ poked' = poked
      BY <3>1, <3>2, <3>t, <3>7 DEF Coming
    <3>8. QED  BY <3>3, <3>4, <3>5, <3>6, <3>7
  <2>2. ASSUME NEW r \in Reader, Drain(r) \/ ReaderFails(r) PROVE Coming(m)'
    <3>1. /\ announced' = announced /\ lapsed' = lapsed /\ glob' = glob /\ fresh' = fresh
          /\ poked' = poked /\ spc' = spc
      BY <2>2 DEF Drain, ReaderFails, List, ReadFile, Archive, Drained, StampRead, PersistRead,
                  doorbell, sender
    <3>2. Coming(m)
      BY <3>1 DEF NoWakeForgotten
    <3>3. file'[m] = file[m] \/ file'[m] \in Archived
      BY <2>2 DEF Drain, ReaderFails, List, ReadFile, Archive, Drained, StampRead, PersistRead,
                  Rename, ReadName, Archived, TypeOK, mail
    <3>4. QED  BY <3>1, <3>2, <3>3 DEF Coming, Archived
  <2>3. ASSUME NEW d \in Doorbell, Ring(d) \/ DoorbellDies(d) PROVE Coming(m)'
    <3>1. announced \subseteq announced' /\ lapsed \subseteq lapsed' /\ spc' = spc
      BY <2>3 DEF Ring, DoorbellDies, Wake, Mark, Announce, Lapse, sender
    <3>2. Coming(m)
      BY <3>1 DEF NoWakeForgotten
    <3>3. CASE Wake(d)
      <4>1. dpc[d] = "idle" /\ file' = file /\ glob[d] = {}
        BY <3>3 DEF Wake, mail, DoorbellInv
      <4>2. CASE file[m] = "msg"
        BY <3>3, <4>1, <4>2 DEF Wake, Coming, TypeOK
      <4>3. CASE file[m] = "msg.delivered"
        BY <3>2, <3>3, <4>1, <4>3 DEF Wake, Coming, TypeOK
      <4>4. QED  BY <4>1, <4>2, <4>3 DEF Coming
    <3>4. CASE Lapse(d) /\ poked' = poked /\ file' = file
      <4>1. m \notin glob[d] /\ m \notin fresh[d]
        BY <3>4 DEF Lapse, DoorbellInv
      <4>2. \A q \in Doorbell : q # d => glob'[q] = glob[q] /\ fresh'[q] = fresh[q]
        BY <3>4 DEF Lapse, RunEnds, TypeOK
      <4>3. QED  BY <3>1, <3>2, <3>4, <4>1, <4>2 DEF Coming
    <3>5. CASE Mark(d) /\ ~Lapse(d)
      <4>1. PICK n \in fresh[d] : /\ file[n] = "msg" /\ Rename(n, "msg.delivered")
                                  /\ fresh' = [fresh EXCEPT ![d] = @ \ {n}]
                                  /\ glob' = glob /\ poked' = poked
        BY <3>5 DEF Mark
      <4>2. n \in glob'[d] /\ n \in Message
        BY <4>1 DEF DoorbellInv, TypeOK
      <4>3. file'[n] = "msg.delivered" /\ (m # n => file'[m] = file[m])
        BY <4>1, <4>2 DEF Rename, TypeOK
      <4>4. CASE m = n  BY <4>2, <4>3, <4>4 DEF Coming
      <4>5. CASE m # n
        <5>1. \A q \in Doorbell : m \in fresh[q] => m \in fresh'[q]
          BY <4>1, <4>5 DEF TypeOK
        <5>2. QED  BY <3>1, <3>2, <4>1, <4>3, <4>5, <5>1 DEF Coming
      <4>6. QED  BY <4>4, <4>5
    <3>6. CASE Announce(d)
      <4>1. file' = file /\ poked' = poked /\ fresh[d] = {}
        BY <3>6 DEF Announce, mail
      <4>2. file[m] # "msg.delivered"
        BY <3>6 DEF Announce, Delivered
      <4>3. \A q \in Doorbell : fresh'[q] = fresh[q]
        BY <3>6 DEF Announce, RunEnds, TypeOK
      <4>4. QED  BY <3>1, <3>2, <4>1, <4>2, <4>3 DEF Coming
    <3>7. CASE Mark(d) \/ DoorbellDies(d)
      BY <3>4, <3>5, <3>7 DEF DoorbellDies, Mark, mail, Lapse, RunEnds, Rename, TypeOK
    <3>8. QED  BY <2>3, <3>3, <3>6, <3>7 DEF Ring
  <2>4. CASE UNCHANGED vars
    BY <2>4 DEF vars, mail, sender, doorbell, NoWakeForgotten, Coming
  <2>5. QED  BY <2>1, <2>2, <2>3, <2>4 DEF Next
<1>3. QED  BY <1>1, <1>2, TypeCorrect, DoorbellInvariant, PTL DEF Spec
=============================================================================
