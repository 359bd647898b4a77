--------------------------- MODULE DoorbellsProofs ---------------------------
(***************************************************************************)
(* The processes of a receiver that lives in JavaScript: its doorbell, for *)
(* any number of messages, reads and arms and for each host, and the OMP   *)
(* bootstrap, for any number of sessions, conversations and tool calls.    *)
(*                                                                         *)
(* The doorbell's invariant says who has the gate, what a pass has stamped *)
(* and not announced, and in whose hands a notice is: UnreadIsCovered and  *)
(* NoStaleNotice speak only of the moments between, when the gate is free. *)
(***************************************************************************)
EXTENDS Doorbells, OmpBootstrap, TLAPS

-----------------------------------------------------------------------------
(* The doorbells. *)
USE MessageAssumption, NoneAssumption, BoundAssumption

(* Each step keeps the types. *)
LEMMA TypeStep ==
  ASSUME TypeOK, [Next]_vars
  PROVE  TypeOK'
<1> USE DEF TypeOK, mailbox, arming, passing, drains, reading, notices, At, Goto, Suffix, Notice
<1>1. ASSUME NEW m \in Message, Send(m) PROVE TypeOK'  BY <1>1 DEF Send
<1>2. ASSUME NEW m \in Message, Poke(m) PROVE TypeOK'  BY <1>2 DEF Poke
<1>3. CASE FreshCut  BY <1>3 DEF FreshCut
<1>4. CASE Replaced  BY <1>4 DEF Replaced
<1>5. CASE Arm  BY <1>5 DEF Arm
<1>6. CASE Edge  BY <1>6 DEF Edge, TearDown
<1>7. CASE Retire  BY <1>7 DEF Retire, TearDown
<1>8. CASE Close  BY <1>8 DEF Close, TearDown, NoTools
<1>9. CASE OpenWatch  BY <1>9 DEF OpenWatch, ArmFails, NoTools
<1>10. CASE WriteMarker  BY <1>10 DEF WriteMarker, ArmFails, NoTools, Ring
<1>11. CASE CloseWatch  BY <1>11 DEF CloseWatch
<1>12. CASE CheckMarker  BY <1>12 DEF CheckMarker, TornDown
<1>13. CASE RemoveMarker  BY <1>13 DEF RemoveMarker, TornDown
<1>14. CASE WatchFires  BY <1>14 DEF WatchFires, Ring
<1>15. CASE List
  <2>1. batch' \in [todo : Notice, fresh : Notice, unread : Notice]
    <3>1. Fresh \in Notice /\ {} \in Notice  BY DEF Fresh
    <3>2. [todo |-> Fresh, fresh |-> IF Durable THEN Fresh ELSE {}, unread |-> {}]
            \in [todo : Notice, fresh : Notice, unread : Notice]
      BY <3>1
    <3>3. QED  BY <1>15, <3>2 DEF List
  <2>2. /\ pc' \in {"stamp", "leave", "close"} /\ after' \in {after, "leave"}
        /\ failed' \in {failed, TRUE} /\ pending' = FALSE
        /\ UNCHANGED <<host, mailbox, event, arming, sending, gate, queue, reading, notices>>
    BY <1>15 DEF List, Throw, TearDown
  <2>3. QED  BY <2>1, <2>2
<1>16. CASE Stamp
  <2> DEFINE m == First(batch.todo)
  <2>1. file' \in {file, [file EXCEPT ![m] = "delivered"]}
    BY <1>16, Zenon DEF Stamp
  <2>2. batch' \in {batch, [batch EXCEPT !.todo = @ \ {m}]}
    BY <1>16, Zenon DEF Stamp
  <2>3. /\ pc' \in {"stamp", "count", "leave", "close"} /\ after' \in {after, "leave"}
        /\ failed' \in {failed, TRUE}
        /\ UNCHANGED <<host, unpoked, signal, event, arming, sending, pending, gate, queue, reading,
                       notices>>
    BY <1>16 DEF Stamp, Throw, TearDown
  <2>4. file' \in [Message -> Suffix \cup {"none", "gone"}]
    BY <2>1
  <2>5. batch' \in [todo : Notice, fresh : Notice, unread : Notice]
    <3>1. batch.todo \ {m} \in Notice  OBVIOUS
    <3>2. QED  BY <2>2, <3>1
  <2>6. QED  BY <2>3, <2>4, <2>5
<1>17. CASE Count
  <2>1. Unread \in Notice
    BY DEF Unread
  <2>2. batch' \in {batch, [batch EXCEPT !.unread = Unread]}
    BY <1>17 DEF Count
  <2>3. failed' \in {failed, TRUE, FALSE} /\ sending' \in {sending, TRUE}
    BY <1>17 DEF Count, Throw
  <2>4. /\ pc' \in {"loop", "list", "leave", "close"} /\ after' \in {after, "leave"}
        /\ announced' \in {announced, announced \cup Unread}
        /\ UNCHANGED <<host, mailbox, event, arming, pending, gate, queue, reading, held, queued,
                       reported, strays>>
    BY <1>17 DEF Count, Throw, TearDown, Again
  <2>5. batch' \in [todo : Notice, fresh : Notice, unread : Notice]
    BY <2>1, <2>2
  <2>6. QED  BY <2>1, <2>3, <2>4, <2>5
<1>18. CASE Settle  BY <1>18 DEF Settle, Throw, TearDown, Again
<1>19. CASE Leave
  <2>1. batch' \in [todo : Notice, fresh : Notice, unread : Notice]
    BY <1>19 DEF Leave, NoBatch
  <2>2. CASE queue # <<>>
    <3>1. Head(queue) \in Reader /\ Tail(queue) \in Seq(Reader)
      BY <2>2
    <3>2. QED  BY <1>19, <2>1, <2>2, <3>1 DEF Leave, Calls
  <2>3. CASE queue = <<>>
    <3>1. /\ UNCHANGED <<queue, read, drain>> /\ gate' \in {"pass", None} /\ pc' \in {"list", "loop"}
          /\ UNCHANGED after
      BY <1>19, <2>3 DEF Leave
    <3>2. QED  BY <1>19, <2>1, <3>1 DEF Leave
  <2>4. QED  BY <2>2, <2>3
<1>20. ASSUME NEW r \in Reader, Read(r) PROVE TypeOK'
  <2>1. Append(queue, r) \in Seq(Reader)
    OBVIOUS
  <2>2. /\ queue' \in {queue, Append(queue, r)} /\ gate' \in {gate, r}
        /\ \E x \in {"wait", "call", "done"} : read' = [read EXCEPT ![r] = x]
        /\ drain' \in {drain, [drain EXCEPT ![r] = "list"]}
        /\ UNCHANGED <<host, mailbox, event, arming, pc, after, passing, todo, due, notices>>
    BY <1>20 DEF Read, Calls
  <2>3. queue' \in Seq(Reader)
    BY <2>1, <2>2
  <2>4. QED  BY <2>2, <2>3
<1>21. ASSUME NEW r \in Reader, DrainList(r) PROVE TypeOK'
  <2> DEFINE listed == {<<m, file[m]>> : m \in Fresh \cup Unread}
  <2>1. listed \in SUBSET (Message \X Suffix)
    BY DEF Fresh, Unread
  <2>2. /\ todo' \in {todo, [todo EXCEPT ![r] = listed]}
        /\ \E x \in {"archive", "over"} : drain' = [drain EXCEPT ![r] = x]
        /\ UNCHANGED <<host, mailbox, event, arming, pc, after, passing, gate, queue, read, due,
                       notices>>
    BY <1>21 DEF DrainList, Drained
  <2>3. todo' \in [Reader -> SUBSET (Message \X Suffix)]
    BY <2>1, <2>2
  <2>4. QED  BY <2>2, <2>3
<1>22. ASSUME NEW r \in Reader, Archive(r) PROVE TypeOK'
  <2> DEFINE m == First({item[1] : item \in todo[r]})
             i == CHOOSE k \in todo[r] : k[1] = m
  <2>1. /\ file' \in {file, [file EXCEPT ![m] = "gone"]}
        /\ todo' \in {[todo EXCEPT ![r] = @ \ {i}], [todo EXCEPT ![r] = {}]}
        /\ drain' \in {drain, [drain EXCEPT ![r] = "over"]}
        /\ announced' \in {announced, announced \ {m}}
        /\ UNCHANGED <<host, unpoked, signal, event, arming, pc, after, passing, gate, queue, read,
                       due, held, queued, reported>>
    BY <1>22 DEF Archive, Drained
  <2>2. file' \in [Message -> Suffix \cup {"none", "gone"}]
    BY <2>1
  <2>3. todo' \in [Reader -> SUBSET (Message \X Suffix)]
    <3>1. todo[r] \ {i} \in SUBSET (Message \X Suffix) /\ {} \in SUBSET (Message \X Suffix)
      BY Zenon
    <3>2. [todo EXCEPT ![r] = @ \ {i}] \in [Reader -> SUBSET (Message \X Suffix)]
      BY <3>1, Zenon
    <3>3. [todo EXCEPT ![r] = {}] \in [Reader -> SUBSET (Message \X Suffix)]
      BY <3>1, Zenon
    <3>4. QED  BY <2>1, <3>2, <3>3
  <2>4. drain' \in [Reader -> {"none", "list", "archive", "over"}]
    BY <2>1
  <2>5. strays' \subseteq Message
    <3>1. strays' \subseteq strays \cup Unread  BY <1>22 DEF Archive
    <3>2. QED  BY <3>1 DEF Unread
  <2>6. QED  BY <2>1, <2>2, <2>3, <2>4, <2>5
<1>23. ASSUME NEW r \in Reader, Judge(r) PROVE TypeOK'
  <2>1. Drains \subseteq held
    BY DEF Drains
  <2>2. /\ held' \in {held, held \ Drains} /\ due' \in {due, [due EXCEPT ![r] = Drains]}
        /\ reported' \in {reported, reported \cup (Drains \cap queued)} /\ strays' = {}
        /\ read' = [read EXCEPT ![r] = "withdraw"]
        /\ drain' \in {drain, [drain EXCEPT ![r] = "over"]}
        /\ UNCHANGED <<host, mailbox, event, arming, pc, after, passing, gate, queue, todo, queued,
                       announced>>
    BY <1>23 DEF Judge, Drained
  <2>3. due' \in [Reader -> SUBSET Notice]
    <3>1. Drains \in SUBSET Notice  BY <2>1
    <3>2. [due EXCEPT ![r] = Drains] \in [Reader -> SUBSET Notice]
      BY <3>1, Zenon
    <3>3. QED  BY <2>2, <3>2
  <2>4. QED  BY <2>1, <2>2, <2>3
<1>24. ASSUME NEW r \in Reader, NEW n \in Notice, Withdraw(r, n) PROVE TypeOK'
  BY <1>24 DEF Withdraw
<1>25. ASSUME NEW r \in Reader, ReadEnds(r) PROVE TypeOK'  BY <1>25 DEF ReadEnds
<1>26. ASSUME NEW n \in queued, Consume(n) PROVE TypeOK'  BY <1>26 DEF Consume
<1>27. CASE UNCHANGED vars  BY <1>27 DEF vars
<1>28. QED
  BY <1>1, <1>2, <1>3, <1>4, <1>5, <1>6, <1>7, <1>8, <1>9, <1>10, <1>11, <1>12, <1>13, <1>14,
     <1>15, <1>16, <1>17, <1>18, <1>19, <1>20, <1>21, <1>22, <1>23, <1>24, <1>25, <1>26, <1>27
  DEF Next, Script, Drain, Withdrawal

(* A doorbell that takes itself to be armed watches, and one that does not
   has taken its marker away or could not. *)
LEMMA ArmingStep ==
  ASSUME TypeOK, Arming, [Next]_vars
  PROVE  Arming'
<1> USE DEF TypeOK, Arming, arming, At, Goto
<1>1. CASE Replaced  BY <1>1 DEF Replaced
<1>2. CASE Arm  BY <1>2 DEF Arm
<1>3. CASE Edge  BY <1>3 DEF Edge, TearDown
<1>4. CASE Retire  BY <1>4 DEF Retire, TearDown
<1>5. CASE Close  BY <1>5 DEF Close, TearDown
<1>6. CASE OpenWatch  BY <1>6 DEF OpenWatch, ArmFails
<1>7. CASE WriteMarker
  <2>1. CASE armed'
    <3>1. marker' = TRUE /\ UNCHANGED watch /\ pc' \in {"list", "loop", "close"}
      BY <1>7, <2>1 DEF WriteMarker, Ring
    <3>2. QED  BY <1>7, <2>1, <3>1 DEF WriteMarker
  <2>2. CASE ~armed'
    <3>1. UNCHANGED <<marker, residue>> /\ pc' = "loop"
      BY <1>7, <2>2 DEF WriteMarker, ArmFails
    <3>2. QED  BY <1>7, <2>2, <3>1 DEF WriteMarker
  <2>3. QED  BY <2>1, <2>2
<1>8. CASE CloseWatch  BY <1>8 DEF CloseWatch
<1>9. CASE CheckMarker  BY <1>9 DEF CheckMarker, TornDown
<1>10. CASE RemoveMarker  BY <1>10 DEF RemoveMarker, TornDown
<1>11. CASE WatchFires  BY <1>11 DEF WatchFires, Ring
<1>12. CASE List  BY <1>12 DEF List, Throw, TearDown
<1>13. CASE Stamp  BY <1>13 DEF Stamp, Throw, TearDown
<1>14. CASE Count  BY <1>14 DEF Count, Throw, TearDown, Again
<1>15. CASE Settle  BY <1>15 DEF Settle, Throw, TearDown, Again
<1>16. CASE Leave  BY <1>16 DEF Leave
<1>17. ASSUME NEW r \in Reader, ReadEnds(r) PROVE Arming'  BY <1>17 DEF ReadEnds
<1>18. CASE UNCHANGED <<watch, marker, armed, residue, pc>>  BY <1>18
<1>19. QED
  BY <1>1, <1>2, <1>3, <1>4, <1>5, <1>6, <1>7, <1>8, <1>9, <1>10, <1>11, <1>12, <1>13, <1>14,
     <1>15, <1>16, <1>17, <1>18
  DEF Next, Script, Drain, Withdrawal, Send, Poke, FreshCut, Read, DrainList, Archive, Judge,
      Withdraw, Consume, vars

(* The gate passes from a pass to a read, and from a read to the next. *)
LEMMA GateStep ==
  ASSUME TypeOK, Gate, [Next]_vars
  PROVE  Gate'
<1> USE DEF TypeOK, Gate, Reading, Durable, passing, drains, reading, At, Goto, Calls
<1>1. ASSUME NEW r \in Reader, Read(r) PROVE Gate'  BY <1>1 DEF Read
<1>2. CASE Arm  BY <1>2 DEF Arm
<1>3. CASE Edge  BY <1>3 DEF Edge, TearDown
<1>4. CASE Retire  BY <1>4 DEF Retire, TearDown
<1>5. CASE Close  BY <1>5 DEF Close, TearDown, NoTools
<1>6. CASE OpenWatch  BY <1>6 DEF OpenWatch, ArmFails, NoTools
<1>7. CASE WriteMarker  BY <1>7 DEF WriteMarker, ArmFails, NoTools, Ring
<1>8. CASE CloseWatch  BY <1>8 DEF CloseWatch
<1>9. CASE CheckMarker  BY <1>9 DEF CheckMarker, TornDown
<1>10. CASE RemoveMarker  BY <1>10 DEF RemoveMarker, TornDown
<1>11. CASE WatchFires  BY <1>11 DEF WatchFires, Ring
<1>12. CASE List  BY <1>12 DEF List, Throw, TearDown
<1>13. CASE Stamp  BY <1>13 DEF Stamp, Throw, TearDown
<1>14. CASE Count  BY <1>14 DEF Count, Throw, TearDown, Again
<1>15. CASE Settle  BY <1>15 DEF Settle, Throw, TearDown, Again
<1>16. CASE Leave
  <2>1. ~sending' /\ UNCHANGED <<host, after>> /\ after = "loop"
    BY <1>16 DEF Leave
  <2>2. CASE queue # <<>>
    <3>1. Head(queue) \in Reader
      BY <2>2
    <3>2. /\ read' = [read EXCEPT ![Head(queue)] = "call"] /\ gate' = Head(queue)
          /\ pc' = "loop" /\ pc = "leave" /\ Durable
      BY <1>16, <2>2 DEF Leave
    <3>3. QED  BY <2>1, <3>1, <3>2
  <2>3. CASE queue = <<>>
    <3>1. /\ UNCHANGED <<queue, read>>
          /\ ((pc' = "list" /\ gate' = "pass") \/ (pc' = "loop" /\ gate' = None))
      BY <1>16, <2>3 DEF Leave
    <3>2. QED  BY <1>16, <2>1, <3>1 DEF Leave
  <2>4. QED  BY <2>2, <2>3
<1>17. ASSUME NEW r \in Reader, ReadEnds(r) PROVE Gate'  BY <1>17 DEF ReadEnds
<1>18. ASSUME NEW r \in Reader, DrainList(r) PROVE Gate'  BY <1>18 DEF DrainList, Drained
<1>19. ASSUME NEW r \in Reader, Archive(r) PROVE Gate'  BY <1>19 DEF Archive, Drained
<1>20. ASSUME NEW r \in Reader, Judge(r) PROVE Gate'  BY <1>20 DEF Judge
<1>21. CASE UNCHANGED <<host, pc, after, gate, sending, queue, read>>  BY <1>21
<1>22. QED
  BY <1>1, <1>2, <1>3, <1>4, <1>5, <1>6, <1>7, <1>8, <1>9, <1>10, <1>11, <1>12, <1>13, <1>14,
     <1>15, <1>16, <1>17, <1>18, <1>19, <1>20, <1>21
  DEF Next, Script, Drain, Withdrawal, Send, Poke, FreshCut, Replaced, Withdraw, Consume, vars

(* What the notices need of a message: it is sent, then stamped, then read or
   cut off, and once it has left the unread it does not come back. *)
GoesOn(m) ==
  \/ file'[m] = file[m]
  \/ file[m] = "none" /\ file'[m] = "msg"
  \/ file[m] = "msg" /\ file'[m] = "delivered"
  \/ file'[m] = "gone"

LEMMA FilesGoOn ==
  ASSUME TypeOK, [Next]_vars
  PROVE  \A m \in Message : GoesOn(m)
<1> USE DEF TypeOK, mailbox
<1>1. CASE UNCHANGED file  BY <1>1 DEF GoesOn
<1>2. ASSUME NEW m \in Message, Send(m) PROVE \A k \in Message : GoesOn(k)
  BY <1>2 DEF Send, GoesOn
<1>3. CASE FreshCut  BY <1>3 DEF FreshCut, GoesOn, Suffix
<1>4. CASE Stamp
  <2>1. UNCHANGED file \/ \E m : file[m] = "msg" /\ file' = [file EXCEPT ![m] = "delivered"]
    BY <1>4 DEF Stamp
  <2>2. QED  BY <2>1 DEF GoesOn
<1>5. ASSUME NEW r \in Reader, Archive(r) PROVE \A k \in Message : GoesOn(k)
  <2>1. UNCHANGED file \/ \E m : file' = [file EXCEPT ![m] = "gone"]
    BY <1>5 DEF Archive
  <2>2. QED  BY <2>1 DEF GoesOn
<1>6. QED
  BY <1>1, <1>2, <1>3, <1>4, <1>5
  DEF Next, Script, Drain, Withdrawal, Poke, Replaced, Arm, Edge, Retire, Close, OpenWatch,
      WriteMarker, CloseWatch, CheckMarker, RemoveMarker, WatchFires, List, Count, Settle, Leave,
      Read, DrainList, Judge, Withdraw, ReadEnds, Consume, vars

LEMMA StampedStays ==
  ASSUME TypeOK, NEW n \in Notice, \A m \in Message : GoesOn(m), Stamped(n)
  PROVE  /\ Stamped(n)'
         /\ n \cap Unread = {} => n \cap Unread' = {}
BY DEF TypeOK, Notice, GoesOn, Stamped, Unread

(* Only a stamp makes a message unread. *)
LEMMA UnreadGrows ==
  ASSUME TypeOK, [Next]_vars
  PROVE  \/ Unread' \subseteq Unread
         \/ At("stamp") /\ Unread \subseteq Unread' /\ Stamp
<1> USE DEF TypeOK, mailbox
<1>1. CASE UNCHANGED file  BY <1>1 DEF Unread
<1>2. ASSUME NEW m \in Message, Send(m) PROVE Unread' \subseteq Unread
  BY <1>2 DEF Send, Unread
<1>3. CASE FreshCut  BY <1>3 DEF FreshCut, Unread, Suffix
<1>4. CASE Stamp
  <2>1. UNCHANGED file \/ \E m : file[m] = "msg" /\ file' = [file EXCEPT ![m] = "delivered"]
    BY <1>4 DEF Stamp
  <2>2. QED  BY <1>4, <2>1 DEF Unread, Stamp
<1>5. ASSUME NEW r \in Reader, Archive(r) PROVE Unread' \subseteq Unread
  <2>1. UNCHANGED file \/ \E m : file' = [file EXCEPT ![m] = "gone"]
    BY <1>5 DEF Archive
  <2>2. QED  BY <2>1 DEF Unread
<1>6. QED
  BY <1>1, <1>2, <1>3, <1>4, <1>5
  DEF Next, Script, Drain, Withdrawal, Poke, Replaced, Arm, Edge, Retire, Close, OpenWatch,
      WriteMarker, CloseWatch, CheckMarker, RemoveMarker, WatchFires, List, Count, Settle, Leave,
      Read, DrainList, Judge, Withdraw, ReadEnds, Consume, vars

(* A notice is withdrawn when none of its messages is unread, so that what is
   unread stays announced; a pass that gives up says so. *)
LEMMA CoveredStep ==
  ASSUME TypeOK, Gate, Covered, Notices, [Next]_vars
  PROVE  Covered'
<1> USE DEF TypeOK, Covered, passing, notices, At, Goto
<1>1. CASE Stamp
  <2>1. ~sending /\ UNCHANGED sending  BY <1>1 DEF Stamp, Gate
  <2>2. pc' \in {"stamp", "count"} \/ failed'  BY <1>1 DEF Stamp, Throw
  <2>3. QED  BY <2>1, <2>2
<1>2. CASE ~Stamp
  <2> Unread' \subseteq Unread  BY <1>2, UnreadGrows
  <2>1. ASSUME NEW r \in Reader, NEW n \in Notice, Withdraw(r, n) PROVE Covered'
    <3>1. n \cap Unread = {}  BY <2>1 DEF Withdraw, Notices
    <3>2. announced \ n \subseteq announced' /\ UNCHANGED <<sending, batch, failed, pc>>
      BY <2>1 DEF Withdraw
    <3>3. QED  BY <3>1, <3>2
  <2>2. CASE Count
    <3>1. UNCHANGED file  BY <2>2 DEF Count, mailbox
    <3>2. Unread' = Unread  BY <3>1 DEF Unread
    <3>3. CASE ~sending' /\ Unread \subseteq announced'
      BY <3>2, <3>3
    <3>4. CASE sending' /\ batch'.unread = Unread
      BY <3>2, <3>4
    <3>5. CASE ~sending' /\ failed'
      BY <3>5
    <3>6. QED
      <4>1. ~sending  BY <2>2 DEF Count, Gate
      <4>2. batch' = [batch EXCEPT !.unread = Unread] => batch'.unread = Unread  OBVIOUS
      <4>3. QED  BY <2>2, <3>3, <3>4, <3>5, <4>1, <4>2 DEF Count, Throw
  <2>3. CASE Settle
    <3>1. ~sending' /\ (failed' \/ announced' = announced \cup (batch.unread \cap Unread))
      BY <2>3 DEF Settle, Throw
    <3>2. sending  BY <2>3 DEF Settle
    <3>3. QED  BY <3>1, <3>2
  <2>4. CASE List  BY <2>4 DEF List, Throw, TearDown, Gate
  <2>5. CASE Leave  BY <2>5 DEF Leave, Gate
  <2>6. CASE Retire  BY <2>6 DEF Retire, TearDown
  <2>7. CASE /\ UNCHANGED <<sending, batch, failed, announced>>
             /\ pc \in {"stamp", "count"} => pc' = pc
    BY <2>7
  <2>8. CASE Arm \/ Edge \/ OpenWatch \/ CloseWatch \/ CheckMarker \/ RemoveMarker
    <3>1. UNCHANGED <<sending, batch, failed, announced>> /\ pc \notin {"stamp", "count"}
      BY <2>8 DEF Arm, Edge, OpenWatch, CloseWatch, CheckMarker, RemoveMarker
    <3>2. QED  BY <2>7, <3>1
  <2>9. CASE WriteMarker \/ WatchFires \/ Close
    <3>1. UNCHANGED <<sending, batch, failed, announced>> /\ pc \notin {"stamp", "count"}
      BY <2>9 DEF WriteMarker, WatchFires, Close, Ring
    <3>2. QED  BY <2>7, <3>1
  <2>10. ASSUME NEW r \in Reader, Judge(r) \/ ReadEnds(r) PROVE Covered'
    BY <2>7, <2>10 DEF Judge, ReadEnds
  <2>11. CASE FreshCut
    <3>1. Unread' = {}  BY <2>11 DEF FreshCut, Unread, Suffix
    <3>2. QED  BY <3>1
  <2>12. ASSUME NEW r \in Reader, Archive(r) PROVE Covered'
    <3>1. PICK m : \/ announced' = announced \ {m} /\ file' = [file EXCEPT ![m] = "gone"]
                   \/ UNCHANGED announced
      BY <2>12 DEF Archive
    <3>2. UNCHANGED <<sending, batch, failed, pc>>  BY <2>12 DEF Archive
    <3>3. Unread \subseteq announced => Unread' \subseteq announced'
      BY <3>1 DEF Unread
    <3>4. QED  BY <3>2, <3>3
  <2>13. QED
    BY <1>2, <2>1, <2>2, <2>3, <2>4, <2>5, <2>6, <2>7, <2>8, <2>9, <2>10, <2>11, <2>12
    DEF Next, Script, Drain, Withdrawal, Send, Poke, Replaced, Read, DrainList, Consume, vars
<1>3. QED  BY <1>1, <1>2

(* What a pass announces has been stamped, and no read of the contact comes
   between the stamp and the notice, but a drain that its call has given up. *)
LEMMA BatchStep ==
  ASSUME TypeOK, Gate, Batch, [Next]_vars
  PROVE  Batch'
<1> USE DEF TypeOK, Batch, Passing, passing, At, Goto, Durable
<1> \A m \in Message : GoesOn(m)  BY FilesGoOn
<1> batch.fresh \subseteq Message  BY DEF Notice
<1> DEFINE stamped == batch.fresh \ batch.todo
<1>1. Stamped(stamped) => \A k \in stamped : file'[k] \in {"delivered", "gone"}
  <2>1. stamped \subseteq Message  OBVIOUS
  <2>2. QED  BY <2>1 DEF GoesOn, Stamped
<1>2. CASE /\ UNCHANGED <<host, batch, sending>>
           /\ signal' => signal
           /\ pc' \in {"stamp", "count"} => pc' = pc
           /\ Durable /\ Passing /\ signal =>
                Unread \cup strays \subseteq Unread' \cup strays'
  <2>1. Passing' => Passing  BY <1>2
  <2>2. (Stamped(stamped))' = \A k \in stamped : file'[k] \in {"delivered", "gone"}
    BY <1>2 DEF Stamped
  <2>3. QED  BY <1>1, <1>2, <2>1, <2>2
<1>3. CASE ~Passing'
  BY <1>3
<1>4. CASE List
  <2>1. CASE pc' = "stamp"
    <3>1. /\ batch' = [todo |-> Fresh, fresh |-> IF Durable THEN Fresh ELSE {}, unread |-> {}]
          /\ Fresh # {} /\ ~sending' /\ UNCHANGED host
      BY <1>4, <2>1 DEF List, Gate, Throw, TearDown
    <3>2. batch'.todo = Fresh /\ batch'.fresh = IF Durable THEN Fresh ELSE {}
      BY <3>1
    <3>3. QED  BY <2>1, <3>1, <3>2 DEF Stamped
  <2>2. CASE pc' # "stamp"
    BY <1>3, <1>4, <2>2 DEF List, Gate, Throw, TearDown
  <2>3. QED  BY <2>1, <2>2
<1>5. CASE Stamp
  <2> DEFINE m == First(batch.todo)
  <2>1. CASE /\ file[m] = "msg" /\ file' = [file EXCEPT ![m] = "delivered"]
             /\ batch' = [batch EXCEPT !.todo = @ \ {m}]
             /\ pc' = IF batch.todo = {m} THEN "count" ELSE "stamp"
    <3>1. batch'.todo = batch.todo \ {m} /\ batch'.fresh = batch.fresh
      BY <2>1
    <3>2. ~sending' /\ UNCHANGED <<host, signal>> /\ pc = "stamp"
      BY <1>5 DEF Stamp, Gate
    <3>3. \A k \in stamped \cup ({m} \cap batch.fresh) :
            file'[k] \in {"delivered", "gone"}
      BY <1>1, <2>1, <3>2 DEF Stamped
    <3>4. Durable /\ signal =>
            stamped \cup ({m} \cap batch.fresh) \subseteq Unread' \cup strays'
      <4>1. Unread' = Unread \cup ({m} \cap Message)  BY <2>1 DEF Unread
      <4>2. UNCHANGED strays  BY <1>5 DEF Stamp, notices
      <4>3. QED  BY <3>2, <4>1, <4>2
    <3>5. batch'.fresh \ batch'.todo \subseteq stamped \cup ({m} \cap batch.fresh)
      BY <3>1
    <3>6. QED  BY <2>1, <3>1, <3>2, <3>3, <3>4, <3>5 DEF Stamped
  <2>2. CASE ~Passing'  BY <1>3, <2>2
  <2>3. QED
    <3>1. UNCHANGED sending /\ ~sending  BY <1>5 DEF Stamp, Gate
    <3>2. QED  BY <1>5, <2>1, <2>2, <3>1 DEF Stamp, Throw, TearDown
<1>6. CASE Count
  <2>1. UNCHANGED <<host, signal, file>> /\ pc = "count" /\ ~sending
    BY <1>6 DEF Count, Gate, mailbox
  <2>2. CASE batch' = [batch EXCEPT !.unread = Unread]
    <3>1. UNCHANGED <<batch.fresh, batch.todo, Unread, strays>>
      BY <1>6, <2>1, <2>2 DEF Unread, Count
    <3>2. QED  BY <2>1, <3>1 DEF Stamped
  <2>3. CASE ~Passing'  BY <1>3, <2>3
  <2>4. QED  BY <1>6, <2>1, <2>2, <2>3 DEF Count, Throw, TearDown, Again
<1>7. CASE Settle  BY <1>3, <1>7 DEF Settle, Throw, TearDown, Again
<1>8. CASE Leave  BY <1>3, <1>8 DEF Leave, Gate
<1>9. CASE Retire
  <2>1. UNCHANGED <<host, batch, mailbox>> /\ pc' = "close" /\ sending' \in {sending, FALSE}
    BY <1>9 DEF Retire, TearDown
  <2>2. CASE sending'
    <3>1. UNCHANGED strays  BY <1>9 DEF Retire, notices
    <3>2. QED  BY <1>2, <2>1, <2>2, <3>1 DEF mailbox, Unread
  <2>3. CASE ~sending'  BY <1>3, <2>1, <2>3
  <2>4. QED  BY <2>2, <2>3
<1>10. ASSUME NEW r \in Reader, Archive(r) PROVE Batch'
  <2>1. /\ UNCHANGED <<host, batch, sending, pc, signal, read>>
        /\ \/ UNCHANGED <<file, strays>>
           \/ \E m : /\ file' = [file EXCEPT ![m] = "gone"]
                     /\ strays' = IF GivenUp(r) THEN strays \cup ({m} \cap Unread) ELSE strays
    BY <1>10 DEF Archive, passing
  <2>2. Durable /\ Passing => GivenUp(r)
    BY NoneAssumption DEF GivenUp, Gate, Reading
  <2>3. Durable /\ Passing => Unread \cup strays \subseteq Unread' \cup strays'
    BY <2>1, <2>2 DEF Unread
  <2>4. QED  BY <1>2, <2>1, <2>3
<1>11. CASE FreshCut
  <2>1. UNCHANGED <<host, batch, sending, pc>> /\ ~signal'
    BY <1>11 DEF FreshCut
  <2>2. Passing' = Passing  BY <2>1
  <2>3. (Stamped(stamped))' = \A k \in stamped : file'[k] \in {"delivered", "gone"}
    BY <2>1 DEF Stamped
  <2>4. QED  BY <1>1, <2>1, <2>2, <2>3
<1>12. ASSUME NEW m \in Message, Send(m) PROVE Batch'
  <2>1. Unread \subseteq Unread' /\ UNCHANGED strays  BY <1>12 DEF Send, Unread, notices
  <2>2. QED  BY <1>2, <1>12, <2>1 DEF Send
<1>13. CASE /\ UNCHANGED <<host, batch, sending, file, signal, strays>>
            /\ pc' \in {"stamp", "count"} => pc' = pc
  BY <1>2, <1>13 DEF Unread
<1>14. CASE Arm \/ Edge \/ Close \/ OpenWatch \/ WriteMarker \/ CloseWatch
  BY <1>13, <1>14
  DEF Arm, Edge, Close, TearDown, OpenWatch, ArmFails, WriteMarker, Ring, CloseWatch, mailbox,
      notices
<1>15. CASE CheckMarker \/ RemoveMarker \/ WatchFires
  BY <1>13, <1>15 DEF CheckMarker, RemoveMarker, TornDown, WatchFires, Ring, mailbox, notices
<1>16. ASSUME NEW r \in Reader, Judge(r) \/ ReadEnds(r) PROVE Batch'
  <2>1. CASE ReadEnds(r)  BY <1>13, <2>1 DEF ReadEnds, mailbox, notices
  <2>2. CASE Judge(r)
    <3>1. Durable => ~Passing  BY <2>2, NoneAssumption DEF Judge, Gate, Reading
    <3>2. QED  BY <1>2, <2>2, <3>1 DEF Judge, mailbox
  <2>3. QED  BY <1>16, <2>1, <2>2
<1>17. ASSUME NEW r \in Reader, NEW n \in Notice, Withdraw(r, n) PROVE Batch'
  BY <1>13, <1>17 DEF Withdraw, mailbox
<1>18. QED
  BY <1>4, <1>5, <1>6, <1>7, <1>8, <1>9, <1>10, <1>11, <1>12, <1>13, <1>14, <1>15, <1>16, <1>17
  DEF Next, Script, Drain, Withdrawal, Poke, Replaced, Read, DrainList, Consume, mailbox, notices,
      vars

(* A notice in the queue is in the contact's hands until it is withdrawn or
   reported: a read judges what it has archived before it leaves the gate, and
   what a given-up drain archives is among the strays. *)
LEMMA NoticesStep ==
  ASSUME TypeOK, Gate, Batch, Notices, [Next]_vars
  PROVE  Notices'
<1> USE DEF TypeOK, Notices, notices, drains, reading, At, Goto, Durable
<1>1. \A n \in Notice : Stamped(n) => \A k \in n : file'[k] \in {"delivered", "gone"}
  BY FilesGoOn DEF Notice, GoesOn, Stamped
<1>2. \A n \in Notice : Stamped(n) /\ n \cap Unread = {} => n \cap Unread' = {}
  BY FilesGoOn DEF Notice, GoesOn, Stamped, Unread
<1>3. CASE /\ UNCHANGED <<host, due, held, queued, reported>>
           /\ signal' => signal
           /\ signal' => Unread \cup strays \subseteq Unread' \cup strays'
           /\ \A r \in Reader : read'[r] # read[r] => read[r] \notin Reading
  <2>1. \A n \in held : Stamped(n)'
    BY <1>1 DEF Stamped
  <2>2. \A r \in Reader : \A n \in due[r] : Stamped(n)' /\ n \cap Unread' = {}
    BY <1>1, <1>2 DEF Stamped
  <2>3. \A r \in Reader : due'[r] # {} => read'[r] = "withdraw"
    BY <1>3 DEF Reading
  <2>4. ASSUME NEW n \in queued \ reported, signal', n \cap (Unread' \cup strays') = {}
        PROVE  \E r \in Reader : n \in due'[r] \/ (n \in held' /\ read'[r] = "call")
    BY <1>3, <2>4 DEF Reading
  <2>5. QED  BY <1>3, <2>1, <2>2, <2>3, <2>4
<1>4. CASE UNCHANGED <<host, file, signal, read, due, held, queued, reported, strays>>
  BY <1>3, <1>4 DEF Unread
<1>5. CASE /\ UNCHANGED <<host, mailbox, due, held, queued, reported, strays>>
           /\ read' = read \/ \E r \in Reader : read[r] \notin Reading
                                /\ \E x : read' = [read EXCEPT ![r] = x]
  BY <1>3, <1>5 DEF mailbox, Unread
<1>6. CASE UNCHANGED <<host, mailbox, due, held, queued, reported, strays>> /\ NoTools
  BY <1>3, <1>6 DEF mailbox, Unread, NoTools, Reading
<1>7. ASSUME NEW m \in Message, Send(m) PROVE Notices'
  BY <1>3, <1>7 DEF Send, Unread
<1>8. CASE FreshCut  BY <1>3, <1>8 DEF FreshCut
<1>9. CASE OpenWatch  BY <1>4, <1>6, <1>9 DEF OpenWatch, ArmFails, mailbox
<1>10. CASE WriteMarker  BY <1>4, <1>6, <1>10 DEF WriteMarker, ArmFails, mailbox
<1>11. CASE Stamp
  <2>1. Unread \subseteq Unread'  BY <1>11 DEF Stamp, Unread
  <2>2. QED  BY <1>3, <1>11, <2>1 DEF Stamp
<1>12. CASE Close
  <2>1. /\ UNCHANGED <<host, mailbox, due, queued>> /\ held' = {} /\ NoTools
        /\ reported' = reported \cup (held \cap queued)
    BY <1>12 DEF Close
  <2>2. \A r \in Reader : due'[r] # {} => read'[r] = "withdraw"
    BY <2>1 DEF NoTools
  <2>3. \A r \in Reader : \A n \in due[r] : Stamped(n)' /\ n \cap Unread' = {}
    BY <1>1, <1>2 DEF Stamped
  <2>4. \A n \in queued' \ reported' : \E r \in Reader : n \in due'[r]
    BY <2>1
  <2>5. Durable  BY <1>12 DEF Close
  <2>6. QED  BY <2>1, <2>2, <2>3, <2>4, <2>5
<1>13. CASE Settle
  <2>1. UNCHANGED <<host, mailbox, read, due, reported, strays>>  BY <1>13 DEF Settle
  <2>2. CASE Durable /\ held' = held \cup {batch.fresh} /\ queued' = queued \cup {batch.fresh}
    <3> DEFINE b == batch.fresh
    <3>1. b \in Notice /\ Stamped(b) /\ (signal => b \cap (Unread \cup strays) # {})
      BY <1>13, <2>2 DEF Settle, Batch, Passing, Stamped
    <3>2. \A n \in held' : Stamped(n)'
      BY <1>1, <2>2, <3>1 DEF Stamped
    <3>3. \A r \in Reader : \A n \in due[r] : Stamped(n)' /\ n \cap Unread' = {}
      BY <1>1, <1>2 DEF Stamped
    <3>4. Unread' = Unread /\ UNCHANGED signal
      BY <2>1 DEF Unread, mailbox
    <3>5. \A n \in queued' \ reported' :
            /\ n \in held' \/ \E r \in Reader : n \in due'[r]
            /\ signal' /\ n \cap (Unread' \cup strays') = {} =>
                 \E r \in Reader : n \in due'[r] \/ (n \in held' /\ read'[r] = "call")
      BY <2>1, <2>2, <3>1, <3>4
    <3>6. QED  BY <2>1, <2>2, <3>2, <3>3, <3>5
  <2>3. CASE UNCHANGED <<held, queued>>
    BY <1>4, <2>1, <2>3 DEF mailbox
  <2>4. QED  BY <1>13, <2>2, <2>3 DEF Settle
<1>14. CASE Leave
  <2>1. /\ UNCHANGED <<host, mailbox, due, notices>> /\ pc = "leave"
        /\ read' = read \/ (queue # <<>> /\ read' = [read EXCEPT ![Head(queue)] = "call"])
    BY <1>14 DEF Leave, Calls
  <2>2. CASE read' = read  BY <1>4, <2>1, <2>2 DEF mailbox
  <2>3. CASE queue # <<>> /\ read' = [read EXCEPT ![Head(queue)] = "call"]
    <3>1. Head(queue) \in Reader  BY <2>3
    <3>2. read[Head(queue)] \notin Reading  BY <2>1, <3>1 DEF Gate
    <3>3. QED  BY <1>5, <2>1, <2>3, <3>1, <3>2
  <2>4. QED  BY <2>1, <2>2, <2>3
<1>15. ASSUME NEW r \in Reader, Read(r) PROVE Notices'
  <2>1. read[r] \notin Reading /\ UNCHANGED <<host, mailbox, due, notices>>
    BY <1>15 DEF Read, Reading
  <2>2. \E x : read' = [read EXCEPT ![r] = x]  BY <1>15 DEF Read, Calls
  <2>3. QED  BY <1>5, <2>1, <2>2
<1>16. ASSUME NEW r \in Reader, DrainList(r) PROVE Notices'
  BY <1>4, <1>16 DEF DrainList, mailbox
<1>17. ASSUME NEW r \in Reader, Archive(r) PROVE Notices'
  <2>1. /\ UNCHANGED <<host, signal, read, due, held, queued, reported>>
        /\ \/ UNCHANGED <<file, strays>>
           \/ \E m : /\ file' = [file EXCEPT ![m] = "gone"]
                     /\ strays' = IF GivenUp(r) THEN strays \cup ({m} \cap Unread) ELSE strays
    BY <1>17 DEF Archive
  <2>2. \A n \in held : Stamped(n)'
    BY <1>1 DEF Stamped
  <2>3. \A q \in Reader : \A n \in due[q] : Stamped(n)' /\ n \cap Unread' = {}
    BY <1>1, <1>2 DEF Stamped
  <2>4. GivenUp(r) => Unread \cup strays \subseteq Unread' \cup strays'
    BY <2>1 DEF Unread
  <2>5. CASE GivenUp(r)
    BY <1>3, <2>1, <2>4, <2>5
  <2>6. CASE ~GivenUp(r)
    <3>1. read[r] = "call" \/ ~Durable  BY <2>6 DEF GivenUp
    <3>2. ASSUME NEW n \in queued \ reported
          PROVE  \E q \in Reader : n \in due[q] \/ (n \in held /\ read[q] = "call")
      BY <3>1
    <3>3. QED  BY <2>1, <2>2, <2>3, <3>2
  <2>7. QED  BY <2>5, <2>6
<1>18. ASSUME NEW r \in Reader, Judge(r) PROVE Notices'
  <2>1. /\ read[r] = "call" /\ read' = [read EXCEPT ![r] = "withdraw"]
        /\ UNCHANGED <<host, mailbox, queued>> /\ due[r] = {} /\ strays' = {}
    BY <1>18 DEF Judge
  <2>2. Unread' = Unread /\ signal' = signal
    BY <2>1 DEF Unread, mailbox
  <2>3. \A n \in held : Stamped(n)'
    BY <1>1 DEF Stamped
  <2>4. \A q \in Reader : \A n \in due[q] : Stamped(n)' /\ n \cap Unread' = {}
    BY <1>1, <1>2 DEF Stamped
  <2>5. CASE held' = held \ Drains /\ due' = [due EXCEPT ![r] = Drains] /\ UNCHANGED reported
    <3>1. \A q \in Reader : due'[q] # {} => read'[q] = "withdraw"
      BY <2>1, <2>5
    <3>2. \A q \in Reader : \A n \in due'[q] : Stamped(n)' /\ n \cap Unread' = {}
      BY <2>2, <2>3, <2>4, <2>5 DEF Drains
    <3>3. \A n \in queued' \ reported' : n \in held' \/ \E q \in Reader : n \in due'[q]
      <4> SUFFICES ASSUME NEW n \in queued \ reported
                   PROVE  n \in held' \/ \E q \in Reader : n \in due'[q]
        BY <2>1, <2>5
      <4>1. CASE n \in held  BY <2>5, <4>1
      <4>2. ASSUME NEW q \in Reader, n \in due[q] PROVE n \in due'[q]
        BY <2>1, <2>5, <4>2
      <4>3. QED  BY <4>1, <4>2
    <3>4. ASSUME NEW n \in queued' \ reported', n \cap (Unread' \cup strays') = {}
          PROVE  \E q \in Reader : n \in due'[q]
      <4>1. n \notin held'  BY <2>2, <2>5, <3>4 DEF Drains
      <4>2. QED  BY <3>3, <4>1
    <3>5. QED  BY <2>1, <2>3, <2>5, <3>1, <3>2, <3>3, <3>4
  <2>6. CASE reported' = reported \cup (Drains \cap queued) /\ UNCHANGED <<held, due>>
    <3>1. \A q \in Reader : due'[q] # {} => read'[q] = "withdraw"
      BY <2>1, <2>6
    <3>2. ASSUME NEW n \in queued' \ reported', n \cap (Unread' \cup strays') = {}
          PROVE  \E q \in Reader : n \in due'[q]
      BY <2>1, <2>2, <2>6, <3>2 DEF Drains
    <3>3. QED  BY <2>1, <2>3, <2>4, <2>6, <3>1, <3>2
  <2>7. QED  BY <1>18, <2>5, <2>6 DEF Judge
<1>19. ASSUME NEW r \in Reader, NEW n \in Notice, Withdraw(r, n) PROVE Notices'
  <2>1. /\ UNCHANGED <<host, mailbox, read, held, strays>> /\ due' = [due EXCEPT ![r] = due[r] \ {n}]
        /\ queued' \ reported' = (queued \ reported) \ {n} /\ queued' \subseteq queued
    BY <1>19 DEF Withdraw
  <2>2. Unread' = Unread /\ signal' = signal
    BY <2>1 DEF Unread, mailbox
  <2>3. \A k \in held : Stamped(k)'
    BY <1>1 DEF Stamped
  <2>4. \A q \in Reader : \A k \in due[q] : Stamped(k)' /\ k \cap Unread' = {}
    BY <1>1, <1>2 DEF Stamped
  <2>5. \A q \in Reader : due'[q] \subseteq due[q]
    BY <2>1
  <2>6. \A q \in Reader : \A k \in due[q] \ {n} : k \in due'[q]
    BY <2>1
  <2>7. \A q \in Reader : due'[q] # {} => read'[q] = "withdraw"
    BY <2>1, <2>5
  <2>8. \A k \in queued' \ reported' :
          /\ k \in held' \/ \E q \in Reader : k \in due'[q]
          /\ signal' /\ k \cap (Unread' \cup strays') = {} =>
               \E q \in Reader : k \in due'[q] \/ (k \in held' /\ read'[q] = "call")
    BY <2>1, <2>2, <2>6
  <2>9. QED  BY <2>1, <2>3, <2>4, <2>5, <2>7, <2>8
<1>20. ASSUME NEW r \in Reader, ReadEnds(r) PROVE Notices'
  <2>1. /\ read[r] = "withdraw" /\ due[r] = {} /\ read' = [read EXCEPT ![r] = "done"]
        /\ UNCHANGED <<host, mailbox, due, notices>>
    BY <1>20 DEF ReadEnds
  <2>2. Unread' = Unread /\ signal' = signal
    BY <2>1 DEF Unread, mailbox
  <2>3. \A k \in held : Stamped(k)'
    BY <1>1 DEF Stamped
  <2>4. \A q \in Reader : \A k \in due[q] : Stamped(k)' /\ k \cap Unread' = {}
    BY <1>1, <1>2 DEF Stamped
  <2>5. \A q \in Reader : due'[q] # {} => read'[q] = "withdraw"
    BY <2>1
  <2>6. \A q \in Reader : read[q] = "call" => read'[q] = read[q]
    BY <2>1
  <2>7. QED  BY <2>1, <2>2, <2>3, <2>4, <2>5, <2>6
<1>21. ASSUME NEW n \in queued, Consume(n) PROVE Notices'
  <2>1. /\ UNCHANGED <<host, mailbox, read, due, held, strays>>
        /\ queued' \ reported' \subseteq queued \ reported /\ queued' \subseteq queued
    BY <1>21 DEF Consume
  <2>2. Unread' = Unread /\ signal' = signal
    BY <2>1 DEF Unread, mailbox
  <2>3. \A k \in held : Stamped(k)'
    BY <1>1 DEF Stamped
  <2>4. \A q \in Reader : \A k \in due[q] : Stamped(k)' /\ k \cap Unread' = {}
    BY <1>1, <1>2 DEF Stamped
  <2>5. QED  BY <2>1, <2>2, <2>3, <2>4
<1>22. QED
  BY <1>4, <1>7, <1>8, <1>9, <1>10, <1>11, <1>12, <1>13, <1>14, <1>15, <1>16, <1>17, <1>18, <1>19,
     <1>20, <1>21
  DEF Next, Script, Drain, Withdrawal, Poke, Replaced, Arm, Edge, Retire, CloseWatch, CheckMarker,
      RemoveMarker, WatchFires, List, Count, mailbox, vars

(* For every set of messages and readers, bound and host: the variables keep
   their types. *)
THEOREM DoorbellTypes == Spec => []TypeOK
<1>1. Init => TypeOK
  <2>1. NoBatch \in [todo : Notice, fresh : Notice, unread : Notice]
    BY DEF NoBatch, Notice
  <2>2. 0 \in 0..MaxArms  BY BoundAssumption
  <2>3. ASSUME Init
        PROVE  /\ {signal, event, watch, marker, armed, sending, pending, failed, residue} \subseteq BOOLEAN
               /\ queue \in Seq(Reader) /\ gate \in Reader \cup {None, "pass"}
    <3>1. {signal, event, watch, marker, armed, sending, pending, failed, residue} \subseteq BOOLEAN
      BY <2>3, Zenon DEF Init
    <3>2. <<>> \in Seq(Reader)  OBVIOUS
    <3>3. QED  BY <2>3, <3>1, <3>2 DEF Init
  <2>4. QED  BY <2>1, <2>2, <2>3 DEF Init, TypeOK, Notice, Host, Suffix
<1>2. QED  BY <1>1, TypeStep, PTL DEF Spec

(* The inductive invariant: the watch under an armed doorbell, the one gate
   that a pass or a read has, what has been stamped and by whom it is still
   to be announced, and in whose hands a notice is. *)
THEOREM DoorbellInvariant == Spec => []DoorbellInv
<1>1. Init => DoorbellInv
  BY DEF Init, DoorbellInv, Arming, Gate, Reading, Covered, Unread, Batch, Passing, Notices
<1>2. TypeOK /\ TypeOK' /\ DoorbellInv /\ [Next]_vars => DoorbellInv'
  BY ArmingStep, GateStep, CoveredStep, BatchStep, NoticesStep DEF DoorbellInv
<1>3. QED  BY <1>1, <1>2, DoorbellTypes, PTL DEF Spec

(* leaveGate: a stamped message that nobody has read stays covered by a notice,
   however the pass, the reads and their withdrawals interleave. *)
THEOREM UnreadStaysAnnounced == Spec => []UnreadIsCovered
<1>1. DoorbellInv => UnreadIsCovered
  <2> SUFFICES ASSUME DoorbellInv, gate = None, ~failed PROVE Unread \subseteq announced
    BY DEF UnreadIsCovered
  <2>1. ~sending /\ pc \notin {"stamp", "count"}
    BY NoneAssumption DEF DoorbellInv, Gate
  <2>2. QED  BY <2>1 DEF DoorbellInv, Covered
<1>2. QED  BY <1>1, DoorbellInvariant, PTL

(* withdrawDrained: between reads, a notice in the session's queue is for mail
   that was there at the last judgement and that only a drain whose call was
   given up can have taken since, unless its failure was reported. *)
THEOREM NoNoticeOutlivesItsMail == Spec => []NoStaleNotice
<1>1. TypeOK /\ DoorbellInv => NoStaleNotice
  <2> SUFFICES ASSUME TypeOK, DoorbellInv, gate = None, signal, NEW n \in queued \ reported,
                      n \cap (Unread \cup strays) = {}
               PROVE  FALSE
    BY DEF NoStaleNotice
  <2>1. PICK r \in Reader : n \in due[r] \/ (n \in held /\ read[r] = "call")
    BY DEF DoorbellInv, Notices
  <2>2. read[r] \in Reading /\ Durable
    BY <2>1 DEF DoorbellInv, Notices, Reading
  <2>3. gate = r
    BY <2>2 DEF DoorbellInv, Gate
  <2>4. QED  BY <2>3, NoneAssumption
<1>2. QED  BY <1>1, DoorbellTypes, DoorbellInvariant, PTL

(* armReceiver, unarm: a receiver marker is never left over a closed watch, but
   in the teardown that closes it or where that could not read or remove it. *)
THEOREM MarkerMeansWatch == Spec => []AdvertisedIsWatched
<1>1. DoorbellInv => AdvertisedIsWatched
  BY DEF DoorbellInv, Arming, AdvertisedIsWatched
<1>2. QED  BY <1>1, DoorbellInvariant, PTL


-----------------------------------------------------------------------------
(* The OMP bootstrap. *)
USE NilAssumption, ConvsAssumption

(* Every variable keeps its type, and every edge has a number to give. *)
THEOREM BootTypeCorrect == BootSpec => [](BootTypeOK /\ Edges)
<1>1. BootInit => BootTypeOK /\ Edges
  <2> SUFFICES ASSUME BootInit PROVE BootTypeOK /\ Edges
    OBVIOUS
  <2>1. call \in [ToolCall -> Tool]  BY DEF BootInit, Tool, NoCall
  <2>2. live \in BOOLEAN /\ consumed \in BOOLEAN /\ timer \in BOOLEAN /\ late \in BOOLEAN /\ turn \in BOOLEAN
    BY Zenon DEF BootInit
  <2>3. QED  BY <2>1, <2>2 DEF BootInit, BootTypeOK, Edges, Phase
<1>2. ASSUME BootTypeOK, Edges, [BootNext]_bootvars PROVE (BootTypeOK /\ Edges)'
  <2> USE <1>2 DEF BootTypeOK, Edges, Tool, Phase, vendor, tools, boot, history
  <2>1. CASE TimerFires
    <3>1. timer' \in BOOLEAN  BY <2>1, Zenon DEF TimerFires, Tick
    <3>2. QED  BY <2>1, <3>1 DEF TimerFires, Tick
  <2>2. CASE DeadlinePasses  BY <2>2 DEF DeadlinePasses
  <2>3. CASE ToolsChange  BY <2>3 DEF ToolsChange
  <2>4. CASE Deliver
    <3>1. turn' \in BOOLEAN /\ timer' \in BOOLEAN  BY <2>4, Zenon DEF Deliver
    <3>2. Append(prompts, conv) \in Seq(0..MaxConvs) /\ Append(tasks, conv) \in Seq(0..MaxConvs)
      OBVIOUS
    <3>3. prompts' \in {prompts, Append(prompts, conv)} /\ tasks' \in {tasks, Append(tasks, conv)}
      BY <2>4, Zenon DEF Deliver
    <3>4. prompts' \in Seq(0..MaxConvs) /\ tasks' \in Seq(0..MaxConvs)  BY <3>2, <3>3
    <3>5. QED  BY <2>4, <3>1, <3>4 DEF Deliver, Failed
  <2>5. CASE BirthEdge
    <3>1. timer' \in BOOLEAN /\ consumed' \in BOOLEAN
      BY <2>5, Zenon DEF BirthEdge, EndEpoch, Invalidated, ArmBootstrap, Tick
    <3>2. conv' \in 0..MaxConvs  BY <2>5 DEF BirthEdge
    <3>3. armedIn' \in 0..MaxConvs  BY <2>5, <3>2 DEF BirthEdge, ArmBootstrap
    <3>4. phase' \in Phase /\ active' \in Session \cup {Nil} /\ callId' \in ToolCall \cup {Nil}
      BY <2>5 DEF BirthEdge, EndEpoch, Invalidated, Failed, ArmBootstrap, Tick
    <3>5. outbox' \in {"none", "prompt", "task"}  BY <2>5 DEF BirthEdge, ArmBootstrap, Tick
    <3>6. QED  BY <2>5, <3>1, <3>2, <3>3, <3>4, <3>5 DEF BirthEdge
  <2>6. CASE Type  BY <2>6 DEF Type
  <2>7. ASSUME NEW s \in Session, Replace(s) PROVE (BootTypeOK /\ Edges)'  BY <2>7 DEF Replace
  <2>8. ASSUME NEW k \in ToolCall, NEW who \in {"host", "sub"}, NEW what \in {"callback", "other"},
               Call(k, what, who)
        PROVE  (BootTypeOK /\ Edges)'
    BY <2>8 DEF Call
  <2>9. ASSUME NEW k \in ToolCall, NEW isError \in BOOLEAN, Result(k, isError)
        PROVE  (BootTypeOK /\ Edges)'
    <3>1. timer' \in BOOLEAN  BY <2>9, Zenon DEF Result
    <3>2. call' \in [ToolCall -> Tool] /\ proved' \subseteq 0..MaxConvs  BY <2>9 DEF Result
    <3>3. QED  BY <2>9, <3>1, <3>2 DEF Result
  <2>10. ASSUME NEW who \in {"host", "sub"}, TurnEnd(who) PROVE (BootTypeOK /\ Edges)'
    BY <2>10 DEF TurnEnd, Ends
  <2>11. CASE UNCHANGED bootvars  BY <2>11 DEF bootvars
  <2>12. QED
    BY <2>1, <2>2, <2>3, <2>4, <2>5, <2>6, <2>7, <2>8, <2>9, <2>10, <2>11 DEF BootNext
<1>3. QED  BY <1>1, <1>2, PTL DEF BootSpec

-----------------------------------------------------------------------------
(* The strengthened invariant is inductive. *)
THEOREM BootstrapInvariant == BootSpec => []BootstrapInv
<1>1. BootInit => BootstrapInv
  BY DEF BootInit, BootstrapInv, Unspent, Edges, Sendings, Bound, Heard, OneTask, TaskIsProved,
         NoPollOutlives, Idle
<1>2. ASSUME BootTypeOK, BootstrapInv, [BootNext]_bootvars, Edges' PROVE BootstrapInv'
  <2> USE <1>2 DEF BootTypeOK, Phase, BootstrapInv, Unspent, Edges, Sendings, Bound, Heard, OneTask,
               TaskIsProved, NoPollOutlives, Idle, vendor, tools, boot, history
  <2>1. CASE TimerFires  BY <2>1 DEF TimerFires, Tick
  <2>2. CASE DeadlinePasses  BY <2>2 DEF DeadlinePasses
  <2>3. CASE ToolsChange  BY <2>3 DEF ToolsChange
  <2>4. CASE Deliver  BY <2>4 DEF Deliver, Failed, IsFinal
  <2>5. CASE BirthEdge
    BY <2>5 DEF BirthEdge, EndEpoch, Invalidated, Failed, IsFinal, ArmBootstrap, Tick
  <2>6. CASE Type  BY <2>6 DEF Type
  <2>7. ASSUME NEW s \in Session, Replace(s) PROVE BootstrapInv'  BY <2>7 DEF Replace
  <2>8. ASSUME NEW k \in ToolCall, NEW who \in {"host", "sub"}, NEW what \in {"callback", "other"},
               Call(k, what, who)
        PROVE  BootstrapInv'
    BY <2>8 DEF Call, Accepts, Tool
  <2>9. ASSUME NEW k \in ToolCall, NEW isError \in BOOLEAN, Result(k, isError)
        PROVE  BootstrapInv'
    BY <2>9 DEF Result, Accepts, Tool
  <2>10. ASSUME NEW who \in {"host", "sub"}, TurnEnd(who) PROVE BootstrapInv'
    BY <2>10 DEF TurnEnd, Accepts
  <2>11. CASE UNCHANGED bootvars  BY <2>11 DEF bootvars
  <2>12. QED
    BY <2>1, <2>2, <2>3, <2>4, <2>5, <2>6, <2>7, <2>8, <2>9, <2>10, <2>11 DEF BootNext
<1>3. QED  BY <1>1, <1>2, BootTypeCorrect, PTL DEF BootSpec

(* At most one callback prompt and one task leave the process. *)
THEOREM OnePromptOneTask == BootSpec => []OneTask
BY BootstrapInvariant, PTL DEF BootstrapInv

(* The task goes only to the conversation that armed the bootstrap, after the
   host's own callback has succeeded there. *)
THEOREM ProvedTask == BootSpec => []TaskIsProved
BY BootstrapInvariant, PTL DEF BootstrapInv

(* A poll is scheduled only for a bootstrap that is active and waiting. *)
THEOREM PollsEnd == BootSpec => []NoPollOutlives
BY BootstrapInvariant, PTL DEF BootstrapInv
=============================================================================
